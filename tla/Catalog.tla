------------------------------ MODULE Catalog -------------------------------
(***************************************************************************)
(* When a server may read Parquet files instead of a table: resolveFiles   *)
(* and its use in store.Open, over a DuckLake catalog that other clients   *)
(* go on changing.                                                         *)
(*                                                                         *)
(* A catalog is a set of rows in each of DuckLake's metadata tables, and a *)
(* row is about the snapshots from `begin` until `end`.  Clients commit    *)
(* one snapshot after another; a server pins the last one it finds and     *)
(* decides, from the metadata it finds a moment later, whether the live    *)
(* data files alone are the table `features` of that snapshot.             *)
(***************************************************************************)
EXTENDS Integers

CONSTANTS
  Ids,      \* table ids
  Rows,     \* rows a table may hold
  Bound,    \* the last snapshot DuckLake's clients get to commit
  Columns,  \* ids of the column `name`, which is the last of the table
  Built,    \* the data files the build may have written, as sets of rows
  First     \* the table id and the column id of the build

ASSUME CatalogAssumption ==
  /\ Bound \in Nat /\ Bound >= 1
  /\ Built \subseteq SUBSET SUBSET Rows
  /\ First.id \in Ids /\ First.column \in Columns
  /\ Columns \subseteq Nat

VARIABLES
  last,      \* the last snapshot
  tables,    \* ducklake_table: id and name
  columns,   \* ducklake_column: does the table have the builder's schema,
             \* and which column is its `name`
  files,     \* ducklake_data_file: table, rows, and the column of `name`
  deletes,   \* ducklake_delete_file: table and a row
  inlinedDeletes, \* ducklake_inlined_delete_<id>: table and a row
  inlined,   \* ducklake_inlined_data_<id>: table, row and column
  inlinedTables,  \* ducklake_inlined_data_tables: table ids
  pc,        \* where Open is
  pinned,    \* the snapshot it pinned
  from       \* the data files reads come from, or Fallback

meta == <<last, tables, columns, files, deletes, inlinedDeletes, inlined,
          inlinedTables>>
reader == <<pc, pinned, from>>
vars == <<meta, reader>>

-----------------------------------------------------------------------------
(* Metadata *)

(* `end_snapshot IS NULL` *)
Open == Bound + 1

Row(x) == [of |-> x, begin |-> last + 1, end |-> Open]
LiveAt(e, s) == e.begin <= s /\ s < e.end
At(E, s) == {e.of : e \in {x \in E : LiveAt(x, s)}}

(* E when the next snapshot ends the rows about X. *)
Ended(E, X) ==
  {IF e.end = Open /\ e.of \in X THEN [e EXCEPT !.end = last + 1] ELSE e : e \in E}

(* What a client reads from table t at snapshot s. *)
Deleted(t, s) ==
  {d.row : d \in {x \in At(deletes, s) \cup At(inlinedDeletes, s) : x.table = t}}
FilesOf(t, s) == {f \in At(files, s) : f.table = t}
InlinedOf(t, s) == {i \in At(inlined, s) : i.table = t}
Entries(t, s) == {e \in At(tables, s) : e.id = t}

Named(name, s) == {e \in At(tables, s) : e.name = name}

(***************************************************************************)
(* The rows of `features`, each with whether `name` has the value that was *)
(* stored or NULL.  DuckLake finds a column in a file by its id; a plain   *)
(* read_parquet finds it by its name, in whatever column that once was.    *)
(***************************************************************************)
Kept(x, s) == \E c \in At(columns, s) : c.table = x.table /\ c.column = x.column

TableRows(s) ==
  UNION {UNION {{<<r, Kept(f, s)>> : r \in f.rows \ Deleted(n.id, s)}
                : f \in FilesOf(n.id, s)}
           \cup {<<i.row, Kept(i, s)>> : i \in InlinedOf(n.id, s)}
         : n \in Named("features", s)}
FileRows(F) == UNION {{<<r, TRUE>> : r \in f.rows} : f \in F}

(* `FROM features` instead of `FROM read_parquet([...])` *)
Fallback == {}

-----------------------------------------------------------------------------
(* resolveFiles *)

(* DESCRIBE shard.features is the builder's schema. *)
Described(s) ==
  \E n \in At(tables, s), c \in At(columns, s) :
    n.name = "features" /\ c.table = n.id /\ c.builder

Unique(S) == \E x \in S : S = {x}

Resolvable_AnyDelete(t, s) ==
  /\ Described(s)
  /\ FilesOf(t, s) # {}
  /\ Unique(Entries(t, s))
  /\ \A d \in deletes : d.of.table # t
  /\ \A d \in inlinedDeletes : d.of.table # t
  /\ t \notin inlinedTables

Resolvable(t, s) ==
  /\ Described(s)
  /\ FilesOf(t, s) # {}
  /\ Unique(Entries(t, s))
  /\ \A d \in At(deletes, s) : d.table # t
  /\ \A d \in inlinedDeletes : d.of.table = t => d.begin > s
  /\ t \notin inlinedTables

-----------------------------------------------------------------------------
(* The clients of DuckLake *)

(***************************************************************************)
(* The catalog as `build` leaves it: one table, its schema, and the data   *)
(* files of one INSERT after everything inlined was flushed.  Its commits  *)
(* count as snapshot 1.                                                    *)
(***************************************************************************)
Init ==
  /\ last = 1
  /\ tables = {[of |-> [id |-> First.id, name |-> "features"],
                begin |-> 1, end |-> Open]}
  /\ columns = {[of |-> [table |-> First.id, builder |-> TRUE,
                         column |-> First.column], begin |-> 1, end |-> Open]}
  /\ \E b \in Built :
       files = {[of |-> [table |-> First.id, rows |-> R, column |-> First.column],
                 begin |-> 1, end |-> Open] : R \in b}
  /\ deletes = {} /\ inlinedDeletes = {} /\ inlined = {} /\ inlinedTables = {}
  /\ pc = "start" /\ pinned = 0 /\ from = Fallback

Commit == last < Bound /\ last' = last + 1 /\ UNCHANGED reader

(* Rows no snapshot has held yet. *)
Fresh ==
  Rows \ (UNION {f.of.rows : f \in files} \cup {i.of.row : i \in inlined})

Insert(t, R) ==
  /\ Commit
  /\ \E n \in At(tables, last), c \in At(columns, last) :
       /\ n.id = t /\ c.table = t
       /\ files' = files \cup {Row([table |-> t, rows |-> R, column |-> c.column])}
  /\ R \subseteq Fresh /\ R # {}
  /\ UNCHANGED <<tables, columns, deletes, inlinedDeletes, inlined, inlinedTables>>

(* A small INSERT stays in the catalog. *)
InsertInlined(t, r) ==
  /\ Commit
  /\ \E n \in At(tables, last), c \in At(columns, last) :
       /\ n.id = t /\ c.table = t
       /\ inlined' = inlined \cup {Row([table |-> t, row |-> r, column |-> c.column])}
  /\ r \in Fresh
  /\ inlinedTables' = inlinedTables \cup {t}
  /\ UNCHANGED <<tables, columns, files, deletes, inlinedDeletes>>

(* A DELETE writes a delete file, or a row of the inlined-delete table. *)
DeleteFrom(t, r) ==
  /\ \E f \in FilesOf(t, last) : r \in f.rows \ Deleted(t, last)
  /\ Commit
  /\ \/ /\ deletes' = deletes \cup {Row([table |-> t, row |-> r])}
        /\ UNCHANGED inlinedDeletes
     \/ /\ inlinedDeletes' = inlinedDeletes \cup {Row([table |-> t, row |-> r])}
        /\ UNCHANGED deletes
  /\ UNCHANGED <<tables, columns, files, inlined, inlinedTables>>

(* A file with a delete file is written again without those rows. *)
Rewrite(t, f) ==
  LET dead == {d \in At(deletes, last) : d.table = t /\ d.row \in f.rows}
      rest == f.rows \ {d.row : d \in dead}
  IN  /\ f \in FilesOf(t, last) /\ dead # {} /\ rest # {}
      /\ \A c \in At(columns, last) : c.table = t => c.column = f.column
      /\ Commit
      /\ files' = Ended(files, {f}) \cup {Row([f EXCEPT !.rows = rest])}
      /\ deletes' = Ended(deletes, dead)
      /\ UNCHANGED <<tables, columns, inlinedDeletes, inlined, inlinedTables>>

(* ALTER TABLE: drop the column `name`, or add it again as a new column. *)
Alter(t) ==
  /\ \E c \in At(columns, last) :
       /\ c.table = t
       /\ \E d \in Columns :
            /\ IF c.builder THEN d = c.column ELSE d > c.column
            /\ columns' = Ended(columns, {c})
                 \cup {Row([table |-> t, builder |-> ~c.builder, column |-> d])}
  /\ Commit
  /\ UNCHANGED <<tables, files, deletes, inlinedDeletes, inlined, inlinedTables>>

Rename(t, name) ==
  /\ \E e \in Entries(t, last) :
       /\ e.name # name /\ Named(name, last) = {}
       /\ tables' = Ended(tables, {e}) \cup {Row([e EXCEPT !.name = name])}
  /\ Commit
  /\ UNCHANGED <<columns, files, deletes, inlinedDeletes, inlined, inlinedTables>>

Of(E, t) == {x \in At(E, last) : x.table = t}

DropTable(t) ==
  /\ Entries(t, last) # {}
  /\ Commit
  /\ tables' = Ended(tables, Entries(t, last))
  /\ columns' = Ended(columns, Of(columns, t))
  /\ files' = Ended(files, Of(files, t))
  /\ deletes' = Ended(deletes, Of(deletes, t))
  /\ inlined' = Ended(inlined, Of(inlined, t))
  /\ UNCHANGED <<inlinedDeletes, inlinedTables>>

CreateTable(t, name, c) ==
  /\ \A e \in tables : e.of.id # t
  /\ Named(name, last) = {}
  /\ Commit
  /\ tables' = tables \cup {Row([id |-> t, name |-> name])}
  /\ columns' = columns \cup {Row([table |-> t, builder |-> TRUE, column |-> c])}
  /\ UNCHANGED <<files, deletes, inlinedDeletes, inlined, inlinedTables>>

TableNames == {"features", "other"}

Client ==
  \/ \E t \in Ids :
       \/ \E R \in SUBSET Rows : Insert(t, R)
       \/ \E r \in Rows : InsertInlined(t, r) \/ DeleteFrom(t, r)
       \/ \E f \in FilesOf(t, last) : Rewrite(t, f)
       \/ Alter(t) \/ DropTable(t)
       \/ \E name \in TableNames : Rename(t, name)
       \/ \E name \in TableNames : CreateTable(t, name, First.column)

-----------------------------------------------------------------------------
(* store.Open *)

(* Attach, read max(snapshot_id), detach. *)
ReadLast ==
  /\ pc = "start"
  /\ pinned' = last
  /\ pc' = "detached"
  /\ UNCHANGED <<meta, from>>

Freeze_AtLast ==
  /\ pc = "detached"
  /\ \/ /\ Named("features", pinned) = {}
        /\ pc' = "failed"
        /\ UNCHANGED from
     \/ /\ Named("features", pinned) # {}
        /\ \E e \in tables :
             /\ e.of.name = "features"
             /\ from' = IF Resolvable(e.of.id, last)
                        THEN FilesOf(e.of.id, last) ELSE Fallback
        /\ pc' = "serving"
  /\ UNCHANGED <<meta, pinned>>

(***************************************************************************)
(* Attach at the pinned snapshot and resolve.  The query for the table id  *)
(* names no snapshot and no order: it returns the first of the rows that   *)
(* ever had the name.  Whatever fails, reads fall back to the table, and   *)
(* Open fails if there is none.                                            *)
(***************************************************************************)
Freeze ==
  /\ pc = "detached"
  /\ \/ /\ Named("features", pinned) = {}
        /\ pc' = "failed"
        /\ UNCHANGED from
     \/ /\ Named("features", pinned) # {}
        /\ \E e \in tables :
             /\ e.of.name = "features"
             /\ from' = IF Resolvable(e.of.id, pinned)
                        THEN FilesOf(e.of.id, pinned) ELSE Fallback
        /\ pc' = "serving"
  /\ UNCHANGED <<meta, pinned>>

(* The server is stopped, and another is started. *)
Restart ==
  /\ pc \in {"serving", "failed"}
  /\ pc' = "start" /\ from' = Fallback
  /\ UNCHANGED <<meta, pinned>>

Next == Client \/ ReadLast \/ Freeze \/ Restart

Spec == Init /\ [][Next]_vars

=============================================================================
