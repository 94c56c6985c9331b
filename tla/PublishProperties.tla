------------------------- MODULE PublishProperties --------------------------
(* What publication promises to the readers of a snapshot. *)
EXTENDS Publish

(* The type of every variable. *)
TypeOK ==
  /\ pc \in [Jobs \cup Readers -> JobLabels \cup ReaderLabels]
  /\ pos \in [Builds -> Nat]
  /\ \A b \in Builds : pos[b] \in 1 .. Len(Tree[b]) + 1
  /\ file \in [Names -> {"absent", "torn", "whole"}]
  /\ catalog \in [Outs -> Builds \cup {None}]
  /\ manifest \in [Outs -> Builds \cup {None, "torn"}]
  /\ index \in [Outs -> Builds \cup {None, "torn"}]
  /\ seen \in [Jobs \cup Readers -> Builds \cup {None}]
  /\ pinned \in [Readers -> Nat]
  /\ served \in [Readers -> Builds \cup {None}]

(* No two builds produce a file of the same name (UUID names). *)
Unshared ==
  \A a, b \in Builds : a # b =>
    \A i \in DOMAIN Tree[a], j \in DOMAIN Tree[b] : Tree[a][i] # Tree[b][j]

(* The builds of one catalog path run one after another (a single writer). *)
Serial ==
  \A a, b \in Builds : a # b /\ Out[a] = Out[b] => a \in After[b] \/ b \in After[a]

Shared(a, b) ==
  \E i \in DOMAIN Tree[a], j \in DOMAIN Tree[b] : Tree[a][i] = Tree[b][j]

(* Builds with a file in common run one after another (content hashes).    *)
Ordered ==
  \A a, b \in Builds : a # b /\ Shared(a, b) => a \in After[b] \/ b \in After[a]

-----------------------------------------------------------------------------

(***************************************************************************)
(* The order of publication: a catalog that can be opened, and one that a  *)
(* reader has open even if it was replaced since, refers to data files     *)
(* that are all there in full, wherever builds failed or died.             *)
(***************************************************************************)
PublishedWhole ==
  /\ \A o \in Outs : catalog[o] # None => Whole(catalog[o])
  /\ \A r \in Readers : seen[r] # None => Whole(seen[r])

(***************************************************************************)
(* A reader prunes with an index only if it lists exactly the files of the *)
(* snapshot the reader pinned, although number, catalog and sidecar are    *)
(* read at different times and replaced by different builds.               *)
(***************************************************************************)
ServedIndexMatches ==
  \A r \in Readers :
    served[r] # None =>
      /\ served[r] \in Builds /\ seen[r] # None
      /\ Files[served[r]] = FilesAt(seen[r], pinned[r])

(***************************************************************************)
(* A sidecar is only ever about files whose footers exist, even when a     *)
(* retried build skips files that an earlier one left torn.                *)
(***************************************************************************)
IndexedIsWhole ==
  \A o \in Outs : index[o] \in Builds => Readable(index[o])

(* The sidecar at the path of a build is its own; the `index` command may  *)
(* be writing the same index again, or have died there.                    *)
Indexed(b) ==
  \/ index[Out[b]] = b
  \/ /\ index[Out[b]] = "torn"
     /\ \E x \in Reindexes : Out[x] = Out[b] /\ pc[x] \in {"fillIndex", "failed"}

(* The path of a build has its catalog, its manifest and its index. *)
Visible(b) == catalog[Out[b]] = b /\ manifest[Out[b]] = b /\ Indexed(b)

(* What publishTree takes for published though it is not: os.Stat failed,  *)
(* or a build that died left half of it under its name.                    *)
Unnoticed(b, n) ==
  \/ n \in StatFails
  \/ \E a \in After[b] : pc[a] = "failed" /\ \E i \in DOMAIN Tree[a] : Tree[a][i] = n

(***************************************************************************)
(* A build that exits with success has its own catalog, manifest and index *)
(* on its path and all files of its features, whatever failed builds left  *)
(* behind and whichever os.Stat failed.  Of the file of `collections`, in  *)
(* which GenerateIndex does not look, less is true: it is whole unless     *)
(* one of these two kept it from being written.                            *)
(***************************************************************************)
SuccessIsComplete ==
  \A b \in Builds :
    pc[b] = "done" =>
      /\ Visible(b) /\ Readable(b)
      /\ \A i \in DOMAIN Tree[b] :
           file[Tree[b][i]] # "whole" => Unnoticed(b, Tree[b][i])

(* The path has a catalog, and no build that has found it free is left.    *)
Settled(o) ==
  /\ catalog[o] # None
  /\ \A b \in Builds :
       Out[b] = o => pc[b] \notin {"stage", "stat", "create", "fill", "rename"}

(***************************************************************************)
(* Open pins the last snapshot of the catalog it serves (comment: "pinned  *)
(* to max(snapshot_id)"), although it reads the number in one attachment   *)
(* of the path and serves from another: whoever starts when the builds     *)
(* that found the path free are through does so, for good, whatever builds *)
(* of that path are started afterwards.  One that starts before may pin    *)
(* the number of the catalog that was there first.                         *)
(***************************************************************************)
PinsLast ==
  \A r \in Readers :
    [](Settled(Out[r]) /\ pc[r] = "start"
         => [](seen[r] # None => pinned[r] = Last[seen[r]]))

(* The catalog paths, the data files of `features` (those an index is of)  *)
(* and the sidecars are a SnapshotStore.                                   *)
Store == INSTANCE SnapshotStore WITH
           Paths <- Outs,
           Snapshots <- Builds,
           PathOf <- [r \in Readers |-> Out[r]],
           DataFirst <- Unshared /\ StatFails = {},
           complete <- {b \in Builds : Readable(b)},
           listed <- [o \in Outs |-> IF index[o] \in Builds THEN index[o] ELSE None],
           opened <- [r \in Readers |-> seen[r]],
           pruning <- {r \in Readers : served[r] # None}

(***************************************************************************)
(* Publication is what its readers take it for (README: "refuses to        *)
(* overwrite an existing catalog", "additive copy only"): through retries  *)
(* over torn files, failing calls and crashes, a path never changes its    *)
(* snapshot, an index is of the snapshot at its path with all files of its *)
(* features, and whoever opens a path and prunes has that snapshot.        *)
(***************************************************************************)
ImplementsStore == Store!Spec

(* A catalog path never changes its snapshot (a part of ImplementsStore).  *)
NeverOverwritten ==
  [][\A o \in Outs : catalog[o] # None => catalog'[o] = catalog[o]]_vars

(* A published data file stays as it is (README: "additive copy only").    *)
AdditiveOnly ==
  [][\A n \in Names : file[n] = "whole" => file'[n] = "whole"]_vars

=============================================================================
