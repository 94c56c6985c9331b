--------------------------- MODULE ContentAddress ---------------------------
(***************************************************************************)
(* contentAddressData of package materialize: the staged data files of a   *)
(* build are renamed to the hashes of their contents, one by one, and the  *)
(* staged catalog is made to follow.  Both are private to the build.       *)
(*                                                                         *)
(* A content stands for the bytes of a file and for its hash.              *)
(***************************************************************************)
EXTENDS Integers, Sequences

CONSTANTS
  Contents, \* what data files may contain
  Inputs    \* what a build may write: the contents of its files, in the
            \* order of their names

ASSUME InputsAssumption == Inputs \subseteq Seq(Contents) \ {<<>>}

VARIABLES
  input,     \* the build that is staged
  todo,      \* the file that is next
  dir,       \* the staged files, by name and content
  stored,    \* ducklake_data_file: the name of each file of the catalog
  unmatched  \* names that no file has been found for

staging == <<input, todo, dir, stored, unmatched>>

Uuid(i) == <<"uuid", i>>
Hash(c) == <<"hash", c>>
File(name, c) == [name |-> name, content |-> c]

(* What the INSERT has left; every file has a row in the catalog. *)
Staged ==
  /\ todo' = 1
  /\ dir' = {File(Uuid(i), input[i]) : i \in 1..Len(input)}
  /\ stored' = [i \in 1..Len(input) |-> Uuid(i)]
  /\ unmatched' = {Uuid(i) : i \in 1..Len(input)}

Address_SkipsKnown ==
  /\ todo <= Len(input)
  /\ \E f \in dir :
       /\ f.name = Uuid(todo) /\ f.name \in unmatched
       /\ LET new == Hash(f.content)
              known == \E g \in dir : g.name = new
          IN  /\ stored' = [k \in DOMAIN stored |->
                              IF stored[k] = f.name /\ ~known THEN new ELSE stored[k]]
              /\ dir' = (dir \ {f}) \cup {File(new, f.content)}
       /\ unmatched' = unmatched \ {f.name}
  /\ todo' = todo + 1
  /\ UNCHANGED input

(***************************************************************************)
(* One file: its rows are updated, and it is renamed, or removed if a file *)
(* of its content has the name already.  (A file without a row, or a row   *)
(* without a file, is an error that no build of DuckLake's own catalog     *)
(* meets.)                                                                 *)
(***************************************************************************)
Address ==
  /\ todo <= Len(input)
  /\ \E f \in dir :
       /\ f.name = Uuid(todo) /\ f.name \in unmatched
       /\ stored' = [k \in DOMAIN stored |->
                       IF stored[k] = f.name THEN Hash(f.content) ELSE stored[k]]
       /\ dir' = (dir \ {f}) \cup {File(Hash(f.content), f.content)}
       /\ unmatched' = unmatched \ {f.name}
  /\ todo' = todo + 1
  /\ UNCHANGED input

AllAddressed == todo > Len(input) /\ unmatched = {}

(* The files that the catalog refers to. *)
Referenced == {c \in Contents : \E k \in DOMAIN stored : stored[k] = Hash(c)}
=============================================================================
