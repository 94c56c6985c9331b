--------------------------- MODULE CatalogProofs ----------------------------
(***************************************************************************)
(* What a server reads is the table of its pinned snapshot, for any        *)
(* history of commits.                                                     *)
(***************************************************************************)
EXTENDS CatalogProperties, TLAPS

-----------------------------------------------------------------------------
(* Snapshots that were committed do not change *)

USE CatalogAssumption DEF Open, LiveAt, Entry

(* A row that begins with the next snapshot is in none before. *)
LEMMA RowIsNew ==
  ASSUME NEW E, NEW x, NEW s \in Nat, last \in Nat, s <= last
  PROVE  At(E \cup {Row(x)}, s) = At(E, s)
  BY DEF At, Row

(* A row that the next snapshot ends is in those before it as it was. *)
LEMMA EndIsLater ==
  ASSUME NEW T, NEW E \in SUBSET Entry(T), NEW X, NEW s \in Nat,
         last \in Nat, last < Bound, s <= last
  PROVE  At(Ended(E, X), s) = At(E, s)
<1> DEFINE G(e) == IF e.end = Open /\ e.of \in X THEN [e EXCEPT !.end = last + 1] ELSE e
<1>1. \A e \in E : G(e).of = e.of /\ (LiveAt(G(e), s) <=> LiveAt(e, s))
  <2> TAKE e \in E
  <2>1. e \in Entry(T)
    OBVIOUS
  <2>2. e.begin \in Nat /\ e.end \in Nat
    BY <2>1
  <2>3. CASE e.end = Open /\ e.of \in X
    <3>1. G(e) = [e EXCEPT !.end = last + 1]
      BY <2>3
    <3>2. G(e).of = e.of /\ G(e).begin = e.begin /\ G(e).end = last + 1
      BY <3>1, <2>1
    <3> QED BY <3>2, <2>2, <2>3
  <2>4. CASE ~(e.end = Open /\ e.of \in X)
    BY <2>4
  <2> QED BY <2>3, <2>4
<1>2. Ended(E, X) = {G(e) : e \in E}
  BY DEF Ended
<1> HIDE DEF G
<1>3. \A y \in At(Ended(E, X), s) : y \in At(E, s)
  BY <1>1, <1>2 DEF At
<1>4. \A y \in At(E, s) : y \in At(Ended(E, X), s)
  BY <1>1, <1>2 DEF At
<1> QED BY <1>3, <1>4

(* Ending and adding rows does not take a row out of the history. *)
LEMMA EndKeepsOf ==
  ASSUME NEW T, NEW E \in SUBSET Entry(T), NEW X
  PROVE  \A e \in E : \E g \in Ended(E, X) : g.of = e.of
<1> TAKE e \in E
<1>1. e \in Entry(T)
  OBVIOUS
<1>2. [e EXCEPT !.end = last + 1].of = e.of
  BY <1>1
<1>3. (IF e.end = Open /\ e.of \in X THEN [e EXCEPT !.end = last + 1] ELSE e)
        \in Ended(E, X)
  BY DEF Ended
<1> QED BY <1>2, <1>3

(* Rows that are ended are rows of the same kind. *)
LEMMA EndType ==
  ASSUME NEW T, NEW E \in SUBSET Entry(T), NEW X, last \in Nat
  PROVE  Ended(E, X) \subseteq Entry(T)
  BY DEF Ended

LEMMA RowType ==
  ASSUME NEW T, NEW x \in T, last \in Nat
  PROVE  Row(x) \in Entry(T)
  BY DEF Row

(* What is live at a snapshot is of the type of its table. *)
LEMMA AtType ==
  ASSUME NEW T, NEW E \in SUBSET Entry(T), NEW s
  PROVE  At(E, s) \subseteq T
  BY DEF At


-----------------------------------------------------------------------------
(* Commits only add to the history *)

(* F is E after a commit: of the same type, the same at every snapshot so  *)
(* far, and it knows everything E knew.                                    *)
Grown(T, E, F) ==
  /\ F \subseteq Entry(T)
  /\ \A s \in Nat : s <= last => At(F, s) = At(E, s)
  /\ \A e \in E : \E g \in F : g.of = e.of

LEMMA GrownSame ==
  ASSUME NEW T, NEW E \in SUBSET Entry(T)
  PROVE  Grown(T, E, E)
  BY DEF Grown

LEMMA GrownAdd ==
  ASSUME NEW T, NEW E \in SUBSET Entry(T), NEW x \in T, last \in Nat
  PROVE  Grown(T, E, E \cup {Row(x)})
<1>1. \A s \in Nat : s <= last => At(E \cup {Row(x)}, s) = At(E, s)
  BY RowIsNew
<1>2. Row(x) \in Entry(T)
  BY RowType
<1> QED BY <1>1, <1>2 DEF Grown

LEMMA GrownEnd ==
  ASSUME NEW T, NEW E \in SUBSET Entry(T), NEW X, last \in Nat, last < Bound
  PROVE  Grown(T, E, Ended(E, X))
<1>1. \A s \in Nat : s <= last => At(Ended(E, X), s) = At(E, s)
  BY EndIsLater
<1>2. Ended(E, X) \subseteq Entry(T)
  BY EndType
<1>3. \A e \in E : \E g \in Ended(E, X) : g.of = e.of
  BY EndKeepsOf
<1> QED BY <1>1, <1>2, <1>3 DEF Grown

LEMMA GrownEndAdd ==
  ASSUME NEW T, NEW E \in SUBSET Entry(T), NEW X, NEW x \in T,
         last \in Nat, last < Bound
  PROVE  Grown(T, E, Ended(E, X) \cup {Row(x)})
<1>1. Grown(T, E, Ended(E, X))
  BY GrownEnd
<1>2. Ended(E, X) \in SUBSET Entry(T)
  BY EndType
<1>3. Grown(T, Ended(E, X), Ended(E, X) \cup {Row(x)})
  BY <1>2, GrownAdd
<1> QED BY <1>1, <1>3 DEF Grown

TTable == [id : Ids, name : TableNames]
TColumn == [table : Ids, builder : BOOLEAN, column : Columns]
TFile == [table : Ids, rows : SUBSET Rows, column : Columns]
TDelete == [table : Ids, row : Rows]
TInlined == [table : Ids, row : Rows, column : Columns]

Committed ==
  /\ last < Bound /\ last' = last + 1
  /\ UNCHANGED reader
  /\ Grown(TTable, tables, tables')
  /\ Grown(TColumn, columns, columns')
  /\ Grown(TFile, files, files')
  /\ Grown(TDelete, deletes, deletes')
  /\ Grown(TDelete, inlinedDeletes, inlinedDeletes')
  /\ Grown(TInlined, inlined, inlined')
  /\ inlinedTables \subseteq inlinedTables' /\ inlinedTables' \subseteq Ids

(* The types, in the words of the lemmas. *)
Types ==
  /\ last \in Nat
  /\ tables \in SUBSET Entry(TTable)
  /\ columns \in SUBSET Entry(TColumn)
  /\ files \in SUBSET Entry(TFile)
  /\ deletes \in SUBSET Entry(TDelete)
  /\ inlinedDeletes \in SUBSET Entry(TDelete)
  /\ inlined \in SUBSET Entry(TInlined)
  /\ inlinedTables \subseteq Ids

LEMMA TypesOfTypeOK == TypeOK => Types
  BY DEF TypeOK, Types, TTable, TColumn, TFile, TDelete, TInlined

LEMMA AtTypes ==
  ASSUME Types, NEW s
  PROVE  /\ At(tables, s) \subseteq TTable
         /\ At(columns, s) \subseteq TColumn
         /\ At(files, s) \subseteq TFile
         /\ At(deletes, s) \subseteq TDelete
  BY AtType DEF Types

LEMMA InsertCommits ==
  ASSUME Types, NEW t \in Ids, NEW R \in SUBSET Rows, Insert(t, R)
  PROVE  Committed
<1>1. PICK c \in At(columns, last) :
        files' = files \cup {Row([table |-> t, rows |-> R, column |-> c.column])}
  BY DEF Insert
<1>2. [table |-> t, rows |-> R, column |-> c.column] \in TFile
  BY AtTypes DEF TFile, TColumn
<1>3. Grown(TFile, files, files')
  BY <1>1, <1>2, GrownAdd DEF Types
<1> QED BY <1>3, GrownSame DEF Insert, Commit, Committed, Types

LEMMA InsertInlinedCommits ==
  ASSUME Types, NEW t \in Ids, NEW r \in Rows, InsertInlined(t, r)
  PROVE  Committed
<1>1. PICK c \in At(columns, last) :
        inlined' = inlined \cup {Row([table |-> t, row |-> r, column |-> c.column])}
  BY DEF InsertInlined
<1>2. [table |-> t, row |-> r, column |-> c.column] \in TInlined
  BY AtTypes DEF TInlined, TColumn
<1>3. Grown(TInlined, inlined, inlined')
  BY <1>1, <1>2, GrownAdd DEF Types
<1> QED BY <1>3, GrownSame DEF InsertInlined, Commit, Committed, Types

LEMMA DeleteCommits ==
  ASSUME Types, NEW t \in Ids, NEW r \in Rows, DeleteFrom(t, r)
  PROVE  Committed
<1> DEFINE d == [table |-> t, row |-> r]
<1>1. d \in TDelete
  BY DEF TDelete
<1>2. Grown(TDelete, deletes, deletes \cup {Row(d)})
  BY <1>1, GrownAdd DEF Types
<1>3. Grown(TDelete, inlinedDeletes, inlinedDeletes \cup {Row(d)})
  BY <1>1, GrownAdd DEF Types
<1>4. Grown(TDelete, deletes, deletes')
  BY <1>2, GrownSame DEF DeleteFrom, Types
<1>5. Grown(TDelete, inlinedDeletes, inlinedDeletes')
  BY <1>3, GrownSame DEF DeleteFrom, Types
<1> QED BY <1>4, <1>5, GrownSame DEF DeleteFrom, Commit, Committed, Types

LEMMA RewriteCommits ==
  ASSUME Types, NEW t \in Ids, NEW f \in FilesOf(t, last), Rewrite(t, f)
  PROVE  Committed
<1> DEFINE dead == {d \in At(deletes, last) : d.table = t /\ d.row \in f.rows}
           rest == f.rows \ {d.row : d \in dead}
<1>1. f \in TFile
  BY AtTypes DEF FilesOf
<1>2. [f EXCEPT !.rows = rest] \in TFile
  BY <1>1 DEF TFile
<1>3. files' = Ended(files, {f}) \cup {Row([f EXCEPT !.rows = rest])}
  BY DEF Rewrite
<1>4. deletes' = Ended(deletes, dead)
  BY DEF Rewrite
<1> HIDE DEF rest, dead
<1>5. last < Bound
  BY DEF Rewrite, Commit
<1>6. Grown(TFile, files, files')
  BY <1>2, <1>3, <1>5, GrownEndAdd DEF Types
<1>7. Grown(TDelete, deletes, deletes')
  BY <1>4, <1>5, GrownEnd DEF Types
<1> QED BY <1>6, <1>7, GrownSame DEF Rewrite, Commit, Committed, Types

LEMMA AlterCommits ==
  ASSUME Types, NEW t \in Ids, Alter(t)
  PROVE  Committed
<1>1. PICK c \in At(columns, last), d \in Columns :
        columns' = Ended(columns, {c})
          \cup {Row([table |-> t, builder |-> ~c.builder, column |-> d])}
  BY DEF Alter
<1>2. [table |-> t, builder |-> ~c.builder, column |-> d] \in TColumn
  BY AtTypes DEF TColumn
<1>3. Grown(TColumn, columns, columns')
  BY <1>1, <1>2, GrownEndAdd DEF Types, Alter, Commit
<1> QED BY <1>3, GrownSame DEF Alter, Commit, Committed, Types

LEMMA RenameCommits ==
  ASSUME Types, NEW t \in Ids, NEW name \in TableNames, Rename(t, name)
  PROVE  Committed
<1>1. PICK e \in Entries(t, last) :
        tables' = Ended(tables, {e}) \cup {Row([e EXCEPT !.name = name])}
  BY DEF Rename
<1>2. [e EXCEPT !.name = name] \in TTable
  BY AtTypes DEF Entries, TTable
<1>3. Grown(TTable, tables, tables')
  BY <1>1, <1>2, GrownEndAdd DEF Types, Rename, Commit
<1> QED BY <1>3, GrownSame DEF Rename, Commit, Committed, Types

LEMMA DropCommits ==
  ASSUME Types, NEW t \in Ids, DropTable(t)
  PROVE  Committed
<1>1. last < Bound
  BY DEF DropTable, Commit
<1>2. /\ Grown(TTable, tables, tables')
      /\ Grown(TColumn, columns, columns')
      /\ Grown(TFile, files, files')
      /\ Grown(TDelete, deletes, deletes')
      /\ Grown(TInlined, inlined, inlined')
  BY <1>1, GrownEnd DEF DropTable, Types
<1> QED BY <1>2, GrownSame DEF DropTable, Commit, Committed, Types

LEMMA CreateCommits ==
  ASSUME Types, NEW t \in Ids, NEW name \in TableNames,
         CreateTable(t, name, First.column)
  PROVE  Committed
<1>1. [id |-> t, name |-> name] \in TTable
  BY DEF TTable
<1>2. [table |-> t, builder |-> TRUE, column |-> First.column] \in TColumn
  BY DEF TColumn
<1>3. Grown(TTable, tables, tables')
  BY <1>1, GrownAdd DEF CreateTable, Types
<1>4. Grown(TColumn, columns, columns')
  BY <1>2, GrownAdd DEF CreateTable, Types
<1> QED BY <1>3, <1>4, GrownSame DEF CreateTable, Commit, Committed, Types

(* Whatever a client does is a commit. *)
LEMMA ClientCommits == ASSUME Types, Client PROVE Committed
  BY InsertCommits, InsertInlinedCommits, DeleteCommits, RewriteCommits,
     AlterCommits, RenameCommits, DropCommits, CreateCommits DEF Client


-----------------------------------------------------------------------------
(* The invariant *)

(* What the metadata tables say of each other. *)
History ==
  /\ \A x \in tables :
       x.begin <= last /\ x.begin < x.end /\ (x.end = Open \/ x.end <= last)
  /\ \A x, y \in tables :
       x # y /\ x.of.id = y.of.id => x.end <= y.begin \/ y.end <= x.begin
  /\ \A f \in files : \E c \in columns :
       c.of.table = f.of.table /\ c.of.column = f.of.column
  /\ \A i \in inlined : i.of.table \in inlinedTables
  /\ \A t \in inlinedTables : \E i \in inlined : i.of.table = t

Sound == TypeOK /\ History

(* The names in a table at two snapshots are two of its rows' names. *)
LEMMA CommitTypes == ASSUME TypeOK, Committed PROVE TypeOK'
<1>1. Types
  BY TypesOfTypeOK
<1>2. pinned' \in 0 .. last'
  BY DEF TypeOK, Committed, reader
<1>3. last' \in 1 .. Bound
  BY DEF TypeOK, Committed
<1> QED
  BY <1>2, <1>3 DEF TypeOK, Committed, Grown, reader, TTable, TColumn, TFile,
     TDelete, TInlined

(* Unless the table entries change, what is said of them stays true. *)
LEMMA TablesStay ==
  ASSUME Sound, Committed, tables' = tables
  PROVE  /\ \A x \in tables' :
              x.begin <= last' /\ x.begin < x.end /\ (x.end = Open \/ x.end <= last')
         /\ \A x, y \in tables' :
              x # y /\ x.of.id = y.of.id => x.end <= y.begin \/ y.end <= x.begin
<1>1. \A x \in tables : x.begin \in Nat /\ x.end \in Nat
  BY DEF Sound, TypeOK
<1> QED BY <1>1 DEF Sound, TypeOK, History, Committed

(* Files keep their columns unless there is a new file. *)
LEMMA FilesStay ==
  ASSUME Sound, Committed,
         \A g \in files' : \E f \in files :
           g.of.table = f.of.table /\ g.of.column = f.of.column
  PROVE  \A f \in files' : \E c \in columns' :
           c.of.table = f.of.table /\ c.of.column = f.of.column
  BY DEF Sound, History, Committed, Grown

LEMMA InlinedStay ==
  ASSUME Sound, Committed, inlinedTables' = inlinedTables,
         \A i \in inlined' : \E j \in inlined : j.of = i.of
  PROVE  /\ \A i \in inlined' : i.of.table \in inlinedTables'
         /\ \A t \in inlinedTables' : \E i \in inlined' : i.of.table = t
  BY DEF Sound, History, Committed, Grown

(* A row as Ended leaves it. *)
EndRow(e, X) ==
  IF e.end = Open /\ e.of \in X THEN [e EXCEPT !.end = last + 1] ELSE e

LEMMA EndRowIs ==
  ASSUME NEW T, NEW e \in Entry(T), NEW X
  PROVE  /\ EndRow(e, X).of = e.of /\ EndRow(e, X).begin = e.begin
         /\ e.end = Open /\ e.of \in X => EndRow(e, X).end = last + 1
         /\ ~(e.end = Open /\ e.of \in X) => EndRow(e, X).end = e.end
<1>1. CASE e.end = Open /\ e.of \in X
  <2>1. EndRow(e, X) = [e EXCEPT !.end = last + 1]
    BY <1>1 DEF EndRow
  <2> QED BY <2>1, <1>1
<1>2. CASE ~(e.end = Open /\ e.of \in X)
  BY <1>2 DEF EndRow
<1> QED BY <1>1, <1>2

LEMMA EndedIs == \A E, X : Ended(E, X) = {EndRow(e, X) : e \in E}
  BY DEF Ended, EndRow

(* Table entries keep apart if a new one comes only when the open entries  *)
(* of its table end.                                                       *)
LEMMA TablesChange ==
  ASSUME Sound, Committed, NEW X, NEW n \in TTable,
         tables' \subseteq Ended(tables, X) \cup {Row(n)},
         \A y \in tables : y.of.id = n.id /\ y.end = Open => y.of \in X
  PROVE  /\ \A x \in tables' :
              x.begin <= last' /\ x.begin < x.end /\ (x.end = Open \/ x.end <= last')
         /\ \A x, y \in tables' :
              x # y /\ x.of.id = y.of.id => x.end <= y.begin \/ y.end <= x.begin
<1> DEFINE r(e) == EndRow(e, X)
<1>1. last \in Nat /\ last < Bound /\ last' = last + 1
  BY DEF Sound, TypeOK, Committed
<1>2. \A e \in tables : e.begin \in Nat /\ e.end \in Nat
  BY DEF Sound, TypeOK
<1>3. \A e \in tables :
        /\ r(e).of = e.of /\ r(e).begin = e.begin
        /\ e.end = Open /\ e.of \in X => r(e).end = last + 1
        /\ ~(e.end = Open /\ e.of \in X) => r(e).end = e.end
  BY EndRowIs DEF Sound, TypeOK
<1>4. Row(n).of = n /\ Row(n).begin = last + 1 /\ Row(n).end = Open
  BY DEF Row
<1>5. tables' \subseteq {r(e) : e \in tables} \cup {Row(n)}
  BY EndedIs
<1>6. \A e \in tables :
        e.begin <= last /\ e.begin < e.end /\ (e.end = Open \/ e.end <= last)
  BY DEF Sound, History
<1>7. \A x, y \in tables :
        x # y /\ x.of.id = y.of.id => x.end <= y.begin \/ y.end <= x.begin
  BY DEF Sound, History
<1> HIDE DEF r
<1>8. \A e \in tables :
        /\ r(e).begin <= last' /\ r(e).begin < r(e).end
        /\ r(e).end = Open \/ r(e).end <= last'
  BY <1>1, <1>2, <1>3, <1>6
<1>9. \A e \in tables : e.of.id = n.id => r(e).end <= last + 1
  BY <1>1, <1>2, <1>3, <1>6
<1>10. \A a, b \in tables :
         a # b /\ a.of.id = b.of.id => r(a).end <= r(b).begin \/ r(b).end <= r(a).begin
  <2> SUFFICES ASSUME NEW a \in tables, NEW b \in tables, a # b, a.of.id = b.of.id
               PROVE  r(a).end <= r(b).begin \/ r(b).end <= r(a).begin
    OBVIOUS
  <2>1. r(a).end <= a.end /\ r(b).end <= b.end
    BY <1>1, <1>2, <1>3
  <2>2. a.end <= b.begin \/ b.end <= a.begin
    BY <1>7
  <2>3. r(a).end \in Nat /\ r(b).end \in Nat
    BY <1>1, <1>2, <1>3
  <2> QED BY <2>1, <2>2, <2>3, <1>2, <1>3
<1>11. ASSUME NEW x \in tables', NEW y \in tables', x # y, x.of.id = y.of.id
       PROVE  x.end <= y.begin \/ y.end <= x.begin
  <2>1. CASE x = Row(n)
    BY <2>1, <1>11, <1>3, <1>4, <1>5, <1>9
  <2>2. CASE y = Row(n)
    BY <2>2, <1>11, <1>3, <1>4, <1>5, <1>9
  <2>3. CASE x # Row(n) /\ y # Row(n)
    <3>1. PICK a \in tables, b \in tables : x = r(a) /\ y = r(b)
      BY <2>3, <1>5
    <3>2. a # b /\ a.of.id = b.of.id
      BY <3>1, <1>11, <1>3
    <3> QED BY <3>1, <3>2, <1>10
  <2> QED BY <2>1, <2>2, <2>3
<1>12. ASSUME NEW x \in tables'
       PROVE  x.begin <= last' /\ x.begin < x.end /\ (x.end = Open \/ x.end <= last')
  BY <1>1, <1>4, <1>5, <1>8
<1> QED BY <1>11, <1>12

(* The open entry of a table is the one that is live.                      *)
LEMMA OpenIsLive ==
  ASSUME Sound, NEW y \in tables, y.end = Open
  PROVE  /\ y.of \in Entries(y.of.id, last)
         /\ \A e \in Entries(y.of.id, last) : e = y.of
<1>1. y.begin <= last /\ last \in Nat /\ last <= Bound
  BY DEF Sound, History, TypeOK
<1>2. y.of \in At(tables, last)
  BY <1>1 DEF At
<1>3. ASSUME NEW e \in Entries(y.of.id, last) PROVE e = y.of
  <2>1. PICK z \in tables : z.of = e /\ LiveAt(z, last)
    BY DEF Entries, At
  <2>2. z.of.id = y.of.id
    BY <2>1 DEF Entries
  <2>3. z.begin \in Nat /\ z.end \in Nat /\ y.begin \in Nat
    BY DEF Sound, TypeOK
  <2>4. z = y
    BY <1>1, <2>1, <2>2, <2>3 DEF Sound, History
  <2> QED BY <2>1, <2>4
<1> QED BY <1>2, <1>3 DEF Entries


LEMMA InsertHistory ==
  ASSUME Sound, NEW t \in Ids, NEW R \in SUBSET Rows, Insert(t, R)
  PROVE  History'
<1>1. Committed
  BY InsertCommits, TypesOfTypeOK DEF Sound
<1>2. UNCHANGED <<tables, columns, inlined, inlinedTables>>
  BY DEF Insert
<1>3. PICK c \in At(columns, last) :
        /\ c.table = t
        /\ files' = files \cup {Row([table |-> t, rows |-> R, column |-> c.column])}
  BY DEF Insert
<1>4. \A f \in files' : \E d \in columns' :
        d.of.table = f.of.table /\ d.of.column = f.of.column
  BY <1>2, <1>3 DEF Sound, History, Row, At
<1>5. (\A i \in inlined' : i.of.table \in inlinedTables')
        /\ (\A u \in inlinedTables' : \E i \in inlined' : i.of.table = u)
  BY <1>2 DEF Sound, History
<1> HIDE DEF Open
<1> QED BY <1>1, <1>2, <1>4, <1>5, TablesStay DEF History

LEMMA InsertInlinedHistory ==
  ASSUME Sound, NEW t \in Ids, NEW r \in Rows, InsertInlined(t, r)
  PROVE  History'
<1>1. Committed
  BY InsertInlinedCommits, TypesOfTypeOK DEF Sound
<1>2. UNCHANGED <<tables, columns, files>> /\ inlinedTables' = inlinedTables \cup {t}
  BY DEF InsertInlined
<1>3. PICK x : x.table = t /\ inlined' = inlined \cup {Row(x)}
  <2>1. PICK c : inlined' = inlined \cup {Row([table |-> t, row |-> r, column |-> c.column])}
    BY DEF InsertInlined
  <2>2. [table |-> t, row |-> r, column |-> c.column].table = t
    OBVIOUS
  <2> QED BY <2>1, <2>2
<1>4. (\A i \in inlined' : i.of.table \in inlinedTables')
        /\ (\A u \in inlinedTables' : \E i \in inlined' : i.of.table = u)
  <2>1. Row(x).of.table = t
    BY <1>3 DEF Row
  <2>2. \A i \in inlined : i.of.table \in inlinedTables
    BY DEF Sound, History
  <2>3. \A u \in inlinedTables : \E i \in inlined : i.of.table = u
    BY DEF Sound, History
  <2> QED BY <1>2, <1>3, <2>1, <2>2, <2>3
<1> HIDE DEF Open
<1> QED BY <1>1, <1>2, <1>4, TablesStay, FilesStay DEF History

LEMMA DeleteHistory ==
  ASSUME Sound, NEW t \in Ids, NEW r \in Rows, DeleteFrom(t, r)
  PROVE  History'
<1>1. Committed
  BY DeleteCommits, TypesOfTypeOK DEF Sound
<1>2. UNCHANGED <<tables, columns, files, inlined, inlinedTables>>
  BY DEF DeleteFrom
<1> HIDE DEF Open
<1> QED BY <1>1, <1>2, TablesStay, FilesStay, InlinedStay DEF History

LEMMA RewriteHistory ==
  ASSUME Sound, NEW t \in Ids, NEW f \in FilesOf(t, last), Rewrite(t, f)
  PROVE  History'
<1>1. Committed
  BY RewriteCommits, TypesOfTypeOK DEF Sound
<1>2. UNCHANGED <<tables, columns, inlined, inlinedTables>>
  BY DEF Rewrite
<1>3. PICK R : files' = Ended(files, {f}) \cup {Row([f EXCEPT !.rows = R])}
  BY DEF Rewrite
<1>4. Types
  BY TypesOfTypeOK DEF Sound
<1>5. f \in TFile
  BY <1>4, AtTypes DEF FilesOf
<1>6. [f EXCEPT !.rows = R].table = f.table /\ [f EXCEPT !.rows = R].column = f.column
  BY <1>5 DEF TFile
<1>7. PICK h \in files : h.of = f
  BY DEF FilesOf, At
<1>8. \A g \in Ended(files, {f}) : \E h2 \in files : g.of = h2.of
  BY <1>4, EndRowIs, EndedIs DEF Types
<1>9. \A g \in files' : \E h2 \in files :
        g.of.table = h2.of.table /\ g.of.column = h2.of.column
  <2> DEFINE n == [f EXCEPT !.rows = R]
  <2>1. Row(n).of = n
    BY DEF Row
  <2>2. Row(n).of.table = f.table /\ Row(n).of.column = f.column
    BY <2>1, <1>6
  <2>3. files' = Ended(files, {f}) \cup {Row(n)}
    BY <1>3
  <2> HIDE DEF n
  <2>4. ASSUME NEW g \in files'
        PROVE  \E h2 \in files : g.of.table = h2.of.table /\ g.of.column = h2.of.column
    <3>1. CASE g \in Ended(files, {f})
      BY <3>1, <1>8
    <3>2. CASE g = Row(n)
      BY <3>2, <1>7, <2>2
    <3> QED BY <3>1, <3>2, <2>3
  <2> QED BY <2>4
<1>10. \A g \in files' : \E c \in columns' :
         c.of.table = g.of.table /\ c.of.column = g.of.column
  BY <1>1, <1>9, FilesStay
<1>11. (\A i \in inlined' : i.of.table \in inlinedTables')
         /\ (\A u \in inlinedTables' : \E i \in inlined' : i.of.table = u)
  BY <1>2 DEF Sound, History
<1> HIDE DEF Open
<1> QED BY <1>1, <1>2, <1>10, <1>11, TablesStay DEF History

LEMMA AlterHistory ==
  ASSUME Sound, NEW t \in Ids, Alter(t)
  PROVE  History'
<1>1. Committed
  BY AlterCommits, TypesOfTypeOK DEF Sound
<1>2. UNCHANGED <<tables, files, inlined, inlinedTables>>
  BY DEF Alter
<1> HIDE DEF Open
<1> QED BY <1>1, <1>2, TablesStay, FilesStay, InlinedStay DEF History

LEMMA RenameHistory ==
  ASSUME Sound, NEW t \in Ids, NEW name \in TableNames, Rename(t, name)
  PROVE  History'
<1>1. Committed /\ Types
  BY RenameCommits, TypesOfTypeOK DEF Sound
<1>2. UNCHANGED <<columns, files, inlined, inlinedTables>>
  BY DEF Rename
<1>3. PICK e \in Entries(t, last) :
        tables' = Ended(tables, {e}) \cup {Row([e EXCEPT !.name = name])}
  BY DEF Rename
<1>4. e \in TTable /\ e.id = t
  BY <1>1, AtTypes DEF Entries
<1>5. [e EXCEPT !.name = name] \in TTable /\ [e EXCEPT !.name = name].id = t
  BY <1>4 DEF TTable
<1>6. \A y \in tables : y.of.id = t /\ y.end = Open => y.of \in {e}
  BY OpenIsLive
<1> HIDE DEF Open
<1>7. /\ \A x \in tables' :
           x.begin <= last' /\ x.begin < x.end /\ (x.end = Open' \/ x.end <= last')
      /\ \A x, y \in tables' :
           x # y /\ x.of.id = y.of.id => x.end <= y.begin \/ y.end <= x.begin
  <2> DEFINE n == [e EXCEPT !.name = name]
             X == {e}
  <2>1. n \in TTable
    BY <1>5
  <2>2. \A y \in tables : y.of.id = n.id /\ y.end = Open => y.of \in X
    BY <1>5, <1>6
  <2>3. tables' = Ended(tables, X) \cup {Row(n)}
    BY <1>3
  <2> HIDE DEF n, X
  <2> QED BY <1>1, <2>1, <2>2, <2>3, TablesChange DEF Open
<1> QED BY <1>1, <1>2, <1>7, FilesStay, InlinedStay DEF History

LEMMA DropHistory ==
  ASSUME Sound, NEW t \in Ids, DropTable(t)
  PROVE  History'
<1>1. Committed /\ Types
  BY DropCommits, TypesOfTypeOK DEF Sound
<1>2. inlinedTables' = inlinedTables
  BY DEF DropTable
<1>3. PICK e \in Entries(t, last) : TRUE
  BY DEF DropTable
<1>4. e \in TTable /\ e.id = t
  BY <1>1, AtTypes DEF Entries
<1>5. tables' \subseteq Ended(tables, Entries(t, last)) \cup {Row(e)}
  BY DEF DropTable
<1>6. \A y \in tables : y.of.id = e.id /\ y.end = Open => y.of \in Entries(t, last)
  BY <1>4, OpenIsLive
<1>7. \A g \in Ended(files, Of(files, t)) : \E h \in files : g.of = h.of
  BY <1>1, EndRowIs, EndedIs DEF Types
<1>8. \A g \in Ended(inlined, Of(inlined, t)) : \E h \in inlined : h.of = g.of
  BY <1>1, EndRowIs, EndedIs DEF Types
<1>9. /\ files' = Ended(files, Of(files, t))
      /\ inlined' = Ended(inlined, Of(inlined, t))
  BY DEF DropTable
<1>10. \A f \in files' : \E c \in columns' :
         c.of.table = f.of.table /\ c.of.column = f.of.column
  BY <1>1, <1>7, <1>9, FilesStay
<1>11. (\A i \in inlined' : i.of.table \in inlinedTables')
         /\ (\A u \in inlinedTables' : \E i \in inlined' : i.of.table = u)
  BY <1>1, <1>2, <1>8, <1>9, InlinedStay
<1> HIDE DEF Open
<1>12. /\ \A x \in tables' :
            x.begin <= last' /\ x.begin < x.end /\ (x.end = Open' \/ x.end <= last')
       /\ \A x, y \in tables' :
            x # y /\ x.of.id = y.of.id => x.end <= y.begin \/ y.end <= x.begin
  BY <1>1, <1>4, <1>5, <1>6, TablesChange DEF Open
<1> QED BY <1>10, <1>11, <1>12 DEF History

LEMMA CreateHistory ==
  ASSUME Sound, NEW t \in Ids, NEW name \in TableNames,
         CreateTable(t, name, First.column)
  PROVE  History'
<1>1. Committed /\ Types
  BY CreateCommits, TypesOfTypeOK DEF Sound
<1>2. UNCHANGED <<files, inlined, inlinedTables>>
  BY DEF CreateTable
<1>3. [id |-> t, name |-> name] \in TTable
  BY DEF TTable
<1>4. tables' = tables \cup {Row([id |-> t, name |-> name])}
  BY DEF CreateTable
<1>5. Ended(tables, {}) = tables
  BY DEF Ended
<1>6. \A y \in tables : y.of.id # t
  BY DEF CreateTable
<1> HIDE DEF Open
<1>7. /\ \A x \in tables' :
           x.begin <= last' /\ x.begin < x.end /\ (x.end = Open' \/ x.end <= last')
      /\ \A x, y \in tables' :
           x # y /\ x.of.id = y.of.id => x.end <= y.begin \/ y.end <= x.begin
  BY <1>1, <1>3, <1>4, <1>5, <1>6, TablesChange DEF Open
<1> QED BY <1>1, <1>2, <1>7, FilesStay, InlinedStay DEF History

LEMMA ClientHistory == ASSUME Sound, Client PROVE History'
  BY InsertHistory, InsertInlinedHistory, DeleteHistory, RewriteHistory,
     AlterHistory, RenameHistory, DropHistory, CreateHistory DEF Client


-----------------------------------------------------------------------------
(* What is read of a snapshot stays what it was *)

LEMMA SnapshotStays ==
  ASSUME TypeOK, Committed, NEW s \in Nat, s <= last
  PROVE  /\ TableRows(s)' = TableRows(s)
         /\ Named("features", s)' = Named("features", s)
         /\ Described(s)' = Described(s)
         /\ \A t : FilesOf(t, s)' = FilesOf(t, s)
         /\ At(deletes, s)' = At(deletes, s)
<1>1. /\ At(tables', s) = At(tables, s)
      /\ At(columns', s) = At(columns, s)
      /\ At(files', s) = At(files, s)
      /\ At(deletes', s) = At(deletes, s)
      /\ At(inlinedDeletes', s) = At(inlinedDeletes, s)
      /\ At(inlined', s) = At(inlined, s)
  BY DEF Committed, Grown
<1>2. Named("features", s)' = Named("features", s)
  BY <1>1 DEF Named
<1>3. \A t : FilesOf(t, s)' = FilesOf(t, s)
  BY <1>1 DEF FilesOf
<1>4. \A t : InlinedOf(t, s)' = InlinedOf(t, s)
  BY <1>1 DEF InlinedOf
<1>5. \A t : Deleted(t, s)' = Deleted(t, s)
  BY <1>1 DEF Deleted
<1>6. \A x : Kept(x, s)' = Kept(x, s)
  BY <1>1 DEF Kept
<1>7. TableRows(s)' = TableRows(s)
  BY <1>2, <1>3, <1>4, <1>5, <1>6 DEF TableRows
<1>8. Described(s)' = Described(s)
  BY <1>1 DEF Described
<1> QED BY <1>1, <1>2, <1>3, <1>7, <1>8

(* What was learned of names and columns is not forgotten. *)
LEMMA DoubtStays ==
  ASSUME TypeOK, Committed
  PROVE  (OneName' => OneName) /\ (OneColumn' => OneColumn)
  BY DEF Committed, Grown, OneName, OneColumn

-----------------------------------------------------------------------------
(* The theorems *)

(* If resolveFiles has no doubt, the files are the table.                  *)
LEMMA FilesAreTable ==
  ASSUME Sound, OneName, OneColumn, NEW s \in Nat, s <= last,
         NEW e \in tables, e.of.name = "features", Resolvable(e.of.id, s)
  PROVE  FileRows(FilesOf(e.of.id, s)) = TableRows(s)
<1> DEFINE t == e.of.id
<1>1. PICK n \in Named("features", s), c \in At(columns, s) :
        c.table = n.id /\ c.builder
  BY DEF Resolvable, Described, Named
<1>2. \A m \in Named("features", s) : m.id = t
  BY DEF Named, At, OneName
<1>3. Named("features", s) # {} /\ n.id = t
  BY <1>1, <1>2
<1>4. Deleted(t, s) = {}
  <2>1. \A d \in At(deletes, s) : d.table # t
    BY DEF Resolvable
  <2>2. \A d \in inlinedDeletes : d.begin \in Nat
    BY DEF Sound, TypeOK
  <2>3. \A d \in inlinedDeletes : d.of.table = t => d.begin > s
    BY DEF Resolvable
  <2>4. \A d \in At(inlinedDeletes, s) : d.table # t
    BY <2>2, <2>3 DEF At
  <2> QED BY <2>1, <2>4 DEF Deleted
<1>5. InlinedOf(t, s) = {}
  BY DEF InlinedOf, Resolvable, At, Sound, History
<1>6. \A f \in FilesOf(t, s) : Kept(f, s) = TRUE
  <2> TAKE f \in FilesOf(t, s)
  <2>1. PICK h \in files : h.of = f /\ f.table = t
    BY DEF FilesOf, At
  <2>2. PICK d \in columns : d.of.table = t /\ d.of.column = f.column
    BY <2>1 DEF Sound, History
  <2>3. PICK k \in columns : k.of = c
    BY DEF At
  <2>4. k.of.column = d.of.column
    BY <1>1, <1>3, <2>2, <2>3 DEF OneColumn
  <2> QED BY <1>1, <1>3, <2>1, <2>2, <2>3, <2>4 DEF Kept
<1> DEFINE Shown(u, f) == {<<r, Kept(f, s)>> : r \in f.rows \ Deleted(u, s)}
           Plain(f) == {<<r, TRUE>> : r \in f.rows}
           InlinedShown(u) == {<<i.row, Kept(i, s)>> : i \in InlinedOf(u, s)}
<1>7. \A f \in FilesOf(t, s) : Shown(t, f) = Plain(f)
  BY <1>4, <1>6
<1>8. InlinedShown(t) = {}
  BY <1>5
<1>9. FileRows(FilesOf(t, s)) = UNION {Plain(f) : f \in FilesOf(t, s)}
  BY DEF FileRows
<1>10. TableRows(s)
         = UNION {UNION {Shown(m.id, f) : f \in FilesOf(m.id, s)} \cup InlinedShown(m.id)
                  : m \in Named("features", s)}
  BY DEF TableRows
<1> HIDE DEF t, Shown, Plain, InlinedShown
<1>11. UNION {Shown(t, f) : f \in FilesOf(t, s)} = FileRows(FilesOf(t, s))
  BY <1>7, <1>9
<1>12. \A m \in Named("features", s) :
         UNION {Shown(m.id, f) : f \in FilesOf(m.id, s)} \cup InlinedShown(m.id)
           = FileRows(FilesOf(t, s))
  BY <1>2, <1>8, <1>11
<1>13. TableRows(s) = FileRows(FilesOf(t, s))
  BY <1>3, <1>10, <1>12
<1> QED BY <1>13 DEF t

(* If nothing is to be doubted, resolveFiles does not doubt.               *)
LEMMA NoDoubt ==
  ASSUME Sound, OneName, NEW s \in Nat, s <= last,
         inlinedDeletes = {}, inlined = {}, At(deletes, s) = {}, Described(s),
         NEW n \in Named("features", s), FilesOf(n.id, s) # {},
         NEW e \in tables, e.of.name = "features"
  PROVE  Resolvable(e.of.id, s) /\ FilesOf(e.of.id, s) # {}
<1>1. PICK x \in tables : x.of = n /\ LiveAt(x, s) /\ n.name = "features"
  BY DEF Named, At
<1>2. e.of.id = n.id
  BY <1>1 DEF OneName
<1>3. n \in Entries(n.id, s)
  BY <1>1 DEF Entries, At
<1>4. ASSUME NEW m \in Entries(n.id, s) PROVE m = n
  <2>1. PICK y \in tables : y.of = m /\ LiveAt(y, s) /\ m.id = n.id
    BY DEF Entries, At
  <2>2. x.begin \in Nat /\ x.end \in Nat /\ y.begin \in Nat /\ y.end \in Nat
    BY DEF Sound, TypeOK
  <2>3. x = y
    BY <1>1, <2>1, <2>2 DEF Sound, History
  <2> QED BY <1>1, <2>1, <2>3
<1>5. Unique(Entries(n.id, s))
  BY <1>3, <1>4 DEF Unique
<1>6. n.id \notin inlinedTables
  BY DEF Sound, History
<1> QED BY <1>2, <1>5, <1>6 DEF Resolvable

IInv == Sound /\ ServesPinned /\ CleanIsFrozen

LEMMA InitInv == Init => IInv
<1> SUFFICES ASSUME Init PROVE IInv
  OBVIOUS
<1> DEFINE tab == [of |-> [id |-> First.id, name |-> "features"], begin |-> 1, end |-> Open]
           col == [of |-> [table |-> First.id, builder |-> TRUE, column |-> First.column],
                   begin |-> 1, end |-> Open]
<1>1. tables = {tab} /\ columns = {col}
  BY DEF Init
<1>2. PICK b \in Built :
        files = {[of |-> [table |-> First.id, rows |-> R, column |-> First.column],
                  begin |-> 1, end |-> Open] : R \in b}
  BY DEF Init
<1>3. \A R \in b : R \in SUBSET Rows
  OBVIOUS
<1>4. files \subseteq Entry([table : Ids, rows : SUBSET Rows, column : Columns])
  BY <1>2, <1>3
<1>5. TypeOK
  BY <1>1, <1>4 DEF Init, TypeOK, TableNames, Fallback
<1>6. \A f \in files : f.of.table = First.id /\ f.of.column = First.column
  BY <1>2
<1>7. History
  BY <1>1, <1>6 DEF Init, History
<1> QED BY <1>5, <1>7 DEF Init, IInv, Sound, ServesPinned, CleanIsFrozen

LEMMA FreezeInv == ASSUME IInv, Freeze PROVE IInv'
<1>1. Sound /\ pinned \in Nat /\ pinned <= last /\ UNCHANGED <<meta, pinned>>
  BY DEF IInv, Sound, TypeOK, Freeze
<1>2. Sound'
  <2>1. \A t : FilesOf(t, pinned) \subseteq TFile
    BY <1>1, AtTypes, TypesOfTypeOK DEF FilesOf, Sound
  <2>2. from' \subseteq TFile
    BY <2>1, <1>1 DEF Freeze, Fallback, Sound, TypeOK, TFile
  <2>3. TypeOK'
    BY <1>1, <2>2 DEF Freeze, meta, Sound, TypeOK, TFile
  <2>4. History'
    BY <1>1 DEF meta, Sound, History
  <2> QED BY <2>3, <2>4 DEF Sound
<1>3. CASE pc' = "failed"
  BY <1>2, <1>3 DEF IInv, ServesPinned, CleanIsFrozen
<1>4. CASE pc' = "serving"
  <2>1. PICK e \in tables :
          /\ e.of.name = "features"
          /\ from' = IF Resolvable(e.of.id, pinned)
                     THEN FilesOf(e.of.id, pinned) ELSE Fallback
    BY <1>4 DEF Freeze
  <2>2. TableRows(pinned)' = TableRows(pinned)
    BY <1>1 DEF meta, TableRows, Named, FilesOf, InlinedOf, Deleted, Kept
  <2>3. OneName' /\ OneColumn' => Served' = TableRows(pinned)'
    <3> SUFFICES ASSUME OneName', OneColumn' PROVE Served' = TableRows(pinned)'
      OBVIOUS
    <3>1. OneName /\ OneColumn
      BY <1>1 DEF meta, OneName, OneColumn
    <3>2. CASE from' = Fallback
      BY <3>2 DEF Served, Fallback
    <3>3. CASE from' # Fallback
      <4>1. FileRows(from') = TableRows(pinned)
        BY <1>1, <2>1, <3>1, <3>3, FilesAreTable
      <4>2. Served' = FileRows(from')
        BY <3>3 DEF Served, Fallback, FileRows
      <4> QED BY <4>1, <4>2, <2>2
    <3> QED BY <3>2, <3>3
  <2>4. CleanIsFrozen'
    <3> SUFFICES ASSUME OneName', inlinedDeletes' = {}, inlined' = {},
                        At(deletes, pinned)' = {}, Described(pinned)',
                        (\E n \in Named("features", pinned) : FilesOf(n.id, pinned) # {})'
                 PROVE  from' # Fallback
      BY DEF CleanIsFrozen, Fallback
    <3>1. OneName /\ inlinedDeletes = {} /\ inlined = {}
      BY <1>1 DEF meta, OneName
    <3>2. At(deletes, pinned) = {} /\ Described(pinned)
      BY <1>1 DEF meta, Described, At
    <3>3. PICK n \in Named("features", pinned) : FilesOf(n.id, pinned) # {}
      BY <1>1 DEF meta, Named, FilesOf, At
    <3> QED BY <1>1, <2>1, <3>1, <3>2, <3>3, NoDoubt DEF Fallback
  <2> QED BY <1>2, <2>3, <2>4 DEF IInv, ServesPinned
<1> QED BY <1>3, <1>4 DEF Freeze

LEMMA ClientInv == ASSUME IInv, Client PROVE IInv'
<1>1. Sound /\ Committed
  BY ClientCommits, TypesOfTypeOK DEF IInv, Sound
<1>2. Sound'
  BY <1>1, ClientHistory, CommitTypes DEF Sound
<1>3. pinned \in Nat /\ pinned <= last /\ pinned' = pinned /\ from' = from /\ pc' = pc
  BY <1>1 DEF Sound, TypeOK, Committed, reader
<1>4. /\ TableRows(pinned)' = TableRows(pinned)
      /\ Named("features", pinned)' = Named("features", pinned)
      /\ Described(pinned)' = Described(pinned)
      /\ \A t : FilesOf(t, pinned)' = FilesOf(t, pinned)
      /\ At(deletes, pinned)' = At(deletes, pinned)
  <2>1. ASSUME NEW s \in Nat, s = pinned
        PROVE  /\ TableRows(s)' = TableRows(s)
               /\ Named("features", s)' = Named("features", s)
               /\ Described(s)' = Described(s)
               /\ \A t : FilesOf(t, s)' = FilesOf(t, s)
               /\ At(deletes, s)' = At(deletes, s)
    BY <1>1, <1>3, <2>1, SnapshotStays DEF Sound
  <2> QED BY <1>3, <2>1
<1>5. (OneName' => OneName) /\ (OneColumn' => OneColumn)
  BY <1>1, DoubtStays DEF Sound
<1>6. ServesPinned'
  BY <1>3, <1>4, <1>5 DEF IInv, ServesPinned, Served, Fallback, FileRows
<1>7. (inlinedDeletes' = {} => inlinedDeletes = {}) /\ (inlined' = {} => inlined = {})
  BY <1>1 DEF Committed, Grown
<1>8. CleanIsFrozen'
  BY <1>3, <1>4, <1>5, <1>7 DEF IInv, CleanIsFrozen, Fallback
<1> QED BY <1>2, <1>6, <1>8 DEF IInv

LEMMA NextInv == IInv /\ [Next]_vars => IInv'
<1> SUFFICES ASSUME IInv, [Next]_vars PROVE IInv'
  OBVIOUS
<1>1. CASE ReadLast
  <2>1. UNCHANGED meta /\ pc' = "detached" /\ pinned' = last /\ from' = from
    BY <1>1 DEF ReadLast
  <2>2. Sound'
    BY <2>1 DEF IInv, Sound, TypeOK, History, meta
  <2> QED BY <2>1, <2>2 DEF IInv, ServesPinned, CleanIsFrozen
<1>2. CASE Restart
  <2>1. UNCHANGED meta /\ pc' = "start" /\ pinned' = pinned /\ from' = {}
    BY <1>2 DEF Restart, Fallback
  <2>2. Sound'
    BY <2>1 DEF IInv, Sound, TypeOK, History, meta
  <2> QED BY <2>1, <2>2 DEF IInv, ServesPinned, CleanIsFrozen
<1>3. CASE UNCHANGED vars
  <2>1. UNCHANGED <<last, tables, columns, files, deletes, inlinedDeletes, inlined,
                    inlinedTables, pc, pinned, from>>
    BY <1>3 DEF vars, meta, reader
  <2>2. Sound'
    BY <2>1 DEF IInv, Sound, TypeOK, History
  <2>3. TableRows(pinned)' = TableRows(pinned)
    BY <2>1 DEF TableRows, Named, FilesOf, InlinedOf, Deleted, Kept
  <2>4. (OneName' <=> OneName) /\ (OneColumn' <=> OneColumn)
    BY <2>1 DEF OneName, OneColumn
  <2>5. ServesPinned'
    BY <2>1, <2>3, <2>4 DEF IInv, ServesPinned, Served, Fallback, FileRows
  <2>6. CleanIsFrozen'
    BY <2>1 DEF IInv, CleanIsFrozen, OneName, Described, Named, FilesOf
  <2> QED BY <2>2, <2>5, <2>6 DEF IInv
<1> QED BY <1>1, <1>2, <1>3, ClientInv, FreezeInv DEF Next

(* Every variable keeps its type.                                          *)
THEOREM TypeCorrect == Spec => []TypeOK
<1>1. Init => IInv
  BY InitInv
<1>2. IInv /\ [Next]_vars => IInv'
  BY NextInv
<1>3. IInv => TypeOK
  BY DEF IInv, Sound
<1> QED BY <1>1, <1>2, <1>3, PTL DEF Spec

(* The rows a server answers from are those of the table at the snapshot   *)
(* it pinned (resolveFiles), whatever other clients commit.                *)
THEOREM FrozenFilesAreTheTable == Spec => []ServesPinned
<1>1. Init => IInv
  BY InitInv
<1>2. IInv /\ [Next]_vars => IInv'
  BY NextInv
<1>3. IInv => ServesPinned
  BY DEF IInv
<1> QED BY <1>1, <1>2, <1>3, PTL DEF Spec

(* A server falls back to the table only in doubt about its own snapshot.  *)
THEOREM FallbackNeedsDoubt == Spec => []CleanIsFrozen
<1>1. Init => IInv
  BY InitInv
<1>2. IInv /\ [Next]_vars => IInv'
  BY NextInv
<1>3. IInv => CleanIsFrozen
  BY DEF IInv
<1> QED BY <1>1, <1>2, <1>3, PTL DEF Spec

=============================================================================
