------------------------- MODULE CatalogProperties --------------------------
(* What a server reads, against the table that it says it serves. *)
EXTENDS Catalog

Entry(of) == [of : of, begin : Nat, end : Nat]

(* The type of every variable. *)
TypeOK ==
  /\ last \in 1 .. Bound
  /\ tables \subseteq Entry([id : Ids, name : TableNames])
  /\ columns \subseteq Entry([table : Ids, builder : BOOLEAN, column : Columns])
  /\ files \subseteq Entry([table : Ids, rows : SUBSET Rows, column : Columns])
  /\ deletes \subseteq Entry([table : Ids, row : Rows])
  /\ inlinedDeletes \subseteq Entry([table : Ids, row : Rows])
  /\ inlined \subseteq Entry([table : Ids, row : Rows, column : Columns])
  /\ inlinedTables \subseteq Ids
  /\ pc \in {"start", "detached", "serving", "failed"}
  /\ pinned \in 0 .. last
  /\ from \subseteq [table : Ids, rows : SUBSET Rows, column : Columns]

Served == IF from = Fallback THEN TableRows(pinned) ELSE FileRows(from)

(* Only one table was ever called `features`. *)
OneName ==
  \A x, y \in tables :
    x.of.name = "features" /\ y.of.name = "features" => x.of.id = y.of.id

(* No column was replaced by another of the same name. *)
OneColumn ==
  \A x, y \in columns : x.of.table = y.of.table => x.of.column = y.of.column

(***************************************************************************)
(* The rows a server answers from are those of the table `features` at the *)
(* snapshot it pinned: not a row deleted, inlined, rewritten or added by   *)
(* other clients is wrong, whenever they commit.  (resolveFiles: "failing  *)
(* closed on schema mismatch, deletes, inlined data".)  Two histories that *)
(* resolveFiles does not look at are excepted: another table that took the *)
(* name `features`, and a column that was dropped and added again.         *)
(***************************************************************************)
ServesPinned ==
  pc = "serving" /\ OneName /\ OneColumn => Served = TableRows(pinned)

(***************************************************************************)
(* Doubt is about the pinned snapshot: delete files that were rewritten    *)
(* away before it, or that came after it, send no server to the slow path, *)
(* on which the serving index is ignored without a word.                   *)
(***************************************************************************)
CleanIsFrozen ==
  /\ pc = "serving" /\ OneName
  /\ inlinedDeletes = {} /\ inlined = {}
  /\ At(deletes, pinned) = {} /\ Described(pinned)
  /\ \E n \in Named("features", pinned) : FilesOf(n.id, pinned) # {}
  => from # Fallback

=============================================================================
