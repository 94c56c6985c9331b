---------------------------- MODULE SnapshotStore ----------------------------
(***************************************************************************)
(* What a place with published snapshots promises to those who open them,  *)
(* whatever builds, copies, crashes and retries are behind it: a path is   *)
(* empty until it holds one snapshot for good; data files that are there   *)
(* stay; the serving index of a path is about the snapshot that the path   *)
(* holds, and only when all its files are there; a reader opens what its   *)
(* path holds.                                                             *)
(***************************************************************************)
CONSTANTS
  Paths,     \* where catalogs are published
  Snapshots, \* what may be published
  Readers,   \* who opens them
  PathOf,    \* the path of each reader
  DataFirst, \* a catalog is published only over complete data
  None       \* no snapshot

VARIABLES
  catalog,   \* the snapshot each path holds
  complete,  \* the snapshots whose data files are all there
  listed,    \* the snapshot that each path has a serving index of
  opened,    \* the snapshot each reader has open
  pruning    \* the readers that prune files by an index

vars == <<catalog, complete, listed, opened, pruning>>

(* A snapshot without data files is complete from the start. *)
Init ==
  /\ catalog = [p \in Paths |-> None]
  /\ complete \in SUBSET Snapshots
  /\ listed = [p \in Paths |-> None]
  /\ opened = [r \in Readers |-> None]
  /\ pruning = {}

(* Data files arrive. *)
Arrive(S) ==
  /\ complete' = complete \cup S
  /\ UNCHANGED <<catalog, listed, opened, pruning>>

Publish(p, s) ==
  /\ catalog[p] = None
  /\ DataFirst => s \in complete
  /\ catalog' = [catalog EXCEPT ![p] = s]
  /\ UNCHANGED <<complete, listed, opened, pruning>>

List(p) ==
  /\ catalog[p] \in complete
  /\ listed' = [listed EXCEPT ![p] = catalog[p]]
  /\ UNCHANGED <<catalog, complete, opened, pruning>>

(* An index that is written again is no index meanwhile. *)
Unlist(p) ==
  /\ listed' = [listed EXCEPT ![p] = None]
  /\ UNCHANGED <<catalog, complete, opened, pruning>>

Open(r) ==
  /\ opened[r] = None
  /\ catalog[PathOf[r]] # None
  /\ opened' = [opened EXCEPT ![r] = catalog[PathOf[r]]]
  /\ UNCHANGED <<catalog, complete, listed, pruning>>

Prune(r) ==
  /\ opened[r] # None
  /\ listed[PathOf[r]] = opened[r]
  /\ pruning' = pruning \cup {r}
  /\ UNCHANGED <<catalog, complete, listed, opened>>

Next ==
  \/ \E S \in SUBSET Snapshots : Arrive(S)
  \/ \E p \in Paths :
       \/ \E s \in Snapshots : Publish(p, s)
       \/ List(p) \/ Unlist(p)
  \/ \E r \in Readers : Open(r) \/ Prune(r)

Spec == Init /\ [][Next]_vars

-----------------------------------------------------------------------------

(***************************************************************************)
(* What a client of a reader relies on: the snapshot that is served is the *)
(* one at the path, for as long as it is served, and one that is served    *)
(* through an index has all its data files.                                *)
(***************************************************************************)
Promise ==
  \A r \in Readers :
    /\ opened[r] # None => opened[r] = catalog[PathOf[r]]
    /\ r \in pruning => opened[r] \in complete

=============================================================================
