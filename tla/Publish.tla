------------------------------ MODULE Publish -------------------------------
(***************************************************************************)
(* How a snapshot reaches the disk and a reader: materialize.Run with      *)
(* publishTree and GenerateIndex, the `index` command, and the part of     *)
(* store.Open that reads a published catalog with its sidecar.             *)
(*                                                                         *)
(* Every build is a process of its own.  Its staging directory is private  *)
(* (os.MkdirTemp), so all it does there is one step; each call that        *)
(* touches a published path is a step, and the process may die, or the     *)
(* call may fail, between any two of them.                                 *)
(***************************************************************************)
EXTENDS Integers, Sequences, FiniteSets

CONSTANTS
  Builds,    \* runs of the `build` command
  Reindexes, \* runs of the `index` command
  Readers,   \* runs of the `serve` command
  Outs,      \* catalog paths
  Names,     \* Parquet file names below the data directory
  Tree,      \* the data files of each build, in the order of its directories
  Files,     \* those of the table `features`, in the order of the catalog
  Out,       \* the catalog path each process was given
  After,     \* the builds that are over when a build is started
  Inserted,  \* the snapshot of a build that inserts its features
  Last,      \* the last snapshot of a build (DuckLake numbers from the same
             \* start; a sorted build has one more than an unsorted one)
  StatFails, \* file names whose os.Stat may fail for another reason
             \* than that they do not exist
  None       \* "no catalog", "no sidecar"

Jobs == Builds \cup Reindexes

(***************************************************************************)
(* A file name stands for its content: it is a content hash or a UUID of   *)
(* DuckLake's.  A tree holds a name once.  What a tree has besides the     *)
(* files of `features` is the file of `collections`.                       *)
(***************************************************************************)
ASSUME PublishAssumption ==
  /\ Builds \cap Reindexes = {} /\ Jobs \cap Readers = {}
  /\ Tree \in [Builds -> Seq(Names)] /\ Files \in [Builds -> Seq(Names)]
  /\ \A b \in Builds : \A i, j \in DOMAIN Tree[b] :
       Tree[b][i] = Tree[b][j] => i = j
  /\ \A b \in Builds : \A i \in DOMAIN Files[b] :
       \E k \in DOMAIN Tree[b] : Tree[b][k] = Files[b][i]
  /\ Out \in [Jobs \cup Readers -> Outs]
  /\ After \in [Builds -> SUBSET Builds]
  /\ Inserted \in [Builds -> Nat] /\ Last \in [Builds -> Nat]
  /\ \A b \in Builds : 0 < Inserted[b] /\ Inserted[b] <= Last[b]
  /\ StatFails \subseteq Names
  /\ None \notin Builds
  /\ "torn" \notin Builds /\ None # "torn"

VARIABLES
  pc,       \* where each process is
  pos,      \* the next file publishTree looks at, per build
  file,     \* the data files: "absent", "torn" (being written) or "whole"
  catalog,  \* the build whose catalog each catalog path holds
  manifest, \* the build whose manifest is beside it, or "torn"
  index,    \* the build whose files the serving index lists, or "torn"
  seen,     \* the catalog a process has attached
  pinned,   \* the snapshot number each reader has read
  served    \* the serving index each reader trusts

vars == <<pc, pos, file, catalog, manifest, index, seen, pinned, served>>

JobLabels == {"check", "stage", "stat", "create", "fill", "rename",
              "manifest", "fillManifest", "resolve", "footers",
              "index", "fillIndex", "done", "refused", "failed"}
ReaderLabels ==
  {"start", "detached", "attached", "loaded", "serving", "failed"}
Over == {"done", "refused", "failed"}

(* All that a build publishes is there, and all that its features are in.  *)
Whole(b) == \A i \in DOMAIN Tree[b] : file[Tree[b][i]] = "whole"
Readable(b) == \A i \in DOMAIN Files[b] : file[Files[b][i]] = "whole"

Goto(p, label) == pc' = [pc EXCEPT ![p] = label]

(* The live files of a catalog at one of its snapshots, in order. *)
FilesAt(b, snapshot) == IF snapshot >= Inserted[b] THEN Files[b] ELSE <<>>

(* The file publishTree of build b is at. *)
Current(b) == Tree[b][pos[b]]
Left(b) == pos[b] \in DOMAIN Tree[b]

Init ==
  /\ pc = [p \in Jobs \cup Readers |->
             IF p \in Builds THEN "check"
             ELSE IF p \in Reindexes THEN "resolve" ELSE "start"]
  /\ pos = [b \in Builds |-> 1]
  /\ file = [n \in Names |-> "absent"]
  /\ catalog = [o \in Outs |-> None]
  /\ manifest = [o \in Outs |-> None]
  /\ index = [o \in Outs |-> None]
  /\ seen = [p \in Jobs \cup Readers |-> None]
  /\ pinned = [r \in Readers |-> 0]
  /\ served = [r \in Readers |-> None]

-----------------------------------------------------------------------------
(* materialize.Run *)

Check_Blind(b) ==
  /\ pc[b] = "check"
  /\ \A a \in After[b] : pc[a] \in Over
  /\ Goto(b, "stage")
  /\ UNCHANGED <<pos, file, catalog, manifest, index, seen, pinned, served>>

(* os.Stat(spec.Out): a catalog that exists is never built again. *)
Check(b) ==
  /\ pc[b] = "check"
  /\ \A a \in After[b] : pc[a] \in Over
  /\ Goto(b, IF catalog[Out[b]] = None THEN "stage" ELSE "refused")
  /\ UNCHANGED <<pos, file, catalog, manifest, index, seen, pinned, served>>

Stage_CatalogFirst(b) ==
  /\ pc[b] = "stage"
  /\ Goto(b, "rename")
  /\ UNCHANGED <<pos, file, catalog, manifest, index, seen, pinned, served>>

(* write, repoint, verify and content-address, all below the staging dir. *)
Stage(b) ==
  /\ pc[b] = "stage"
  /\ Goto(b, IF Left(b) THEN "stat" ELSE "rename")
  /\ UNCHANGED <<pos, file, catalog, manifest, index, seen, pinned, served>>

(* The next file of the tree, or the catalog when none is left. *)
Advance(b) ==
  /\ pos' = [pos EXCEPT ![b] = @ + 1]
  /\ Goto(b, IF pos[b] + 1 \in DOMAIN Tree[b] THEN "stat" ELSE "rename")

StatFile_Never(b) ==
  /\ pc[b] = "stat"
  /\ Goto(b, "create")
  /\ UNCHANGED <<pos, file, catalog, manifest, index, seen, pinned, served>>

(***************************************************************************)
(* publishTree copies a file only when os.Stat says that there is none of  *)
(* that name; on any other error it goes on as if the file were there.     *)
(***************************************************************************)
StatFile(b) ==
  /\ pc[b] = "stat"
  /\ \/ /\ file[Current(b)] = "absent"
        /\ Goto(b, "create")
        /\ UNCHANGED pos
     \/ /\ file[Current(b)] # "absent" \/ Current(b) \in StatFails
        /\ Advance(b)
  /\ UNCHANGED <<file, catalog, manifest, index, seen, pinned, served>>

(* os.WriteFile first creates or truncates its target... *)
Create(b) ==
  /\ pc[b] = "create"
  /\ file' = [file EXCEPT ![Current(b)] = "torn"]
  /\ Goto(b, "fill")
  /\ UNCHANGED <<pos, catalog, manifest, index, seen, pinned, served>>

(* ...and then writes it. *)
Fill(b) ==
  /\ pc[b] = "fill"
  /\ file' = [file EXCEPT ![Current(b)] = "whole"]
  /\ Advance(b)
  /\ UNCHANGED <<catalog, manifest, index, seen, pinned, served>>

(* os.Rename replaces whatever catalog has that path by now. *)
Rename(b) ==
  /\ pc[b] = "rename"
  /\ catalog' = [catalog EXCEPT ![Out[b]] = b]
  /\ Goto(b, "manifest")
  /\ UNCHANGED <<pos, file, manifest, index, seen, pinned, served>>

CreateManifest(b) ==
  /\ pc[b] = "manifest"
  /\ manifest' = [manifest EXCEPT ![Out[b]] = "torn"]
  /\ Goto(b, "fillManifest")
  /\ UNCHANGED <<pos, file, catalog, index, seen, pinned, served>>

FillManifest(b) ==
  /\ pc[b] = "fillManifest"
  /\ manifest' = [manifest EXCEPT ![Out[b]] = b]
  /\ Goto(b, "resolve")
  /\ UNCHANGED <<pos, file, catalog, index, seen, pinned, served>>

-----------------------------------------------------------------------------
(* GenerateIndex, of a build or of the `index` command *)

(* Attach the catalog found at the path and list its live files. *)
Resolve(j) ==
  /\ pc[j] = "resolve"
  /\ LET c == catalog[Out[j]]
     IN  IF c # None /\ Files[c] # <<>>
         THEN seen' = [seen EXCEPT ![j] = c] /\ Goto(j, "footers")
         ELSE UNCHANGED seen /\ Goto(j, "failed")
  /\ UNCHANGED <<pos, file, catalog, manifest, index, pinned, served>>

ReadFooters_Tolerant(j) ==
  /\ pc[j] = "footers"
  /\ Goto(j, "index")
  /\ UNCHANGED <<pos, file, catalog, manifest, index, seen, pinned, served>>

(* The footers of the features are read, and no other; a torn file has none. *)
ReadFooters(j) ==
  /\ pc[j] = "footers"
  /\ Goto(j, IF Readable(seen[j]) THEN "index" ELSE "failed")
  /\ UNCHANGED <<pos, file, catalog, manifest, index, seen, pinned, served>>

CreateIndex(j) ==
  /\ pc[j] = "index"
  /\ index' = [index EXCEPT ![Out[j]] = "torn"]
  /\ Goto(j, "fillIndex")
  /\ UNCHANGED <<pos, file, catalog, manifest, seen, pinned, served>>

FillIndex(j) ==
  /\ pc[j] = "fillIndex"
  /\ index' = [index EXCEPT ![Out[j]] = seen[j]]
  /\ Goto(j, "done")
  /\ UNCHANGED <<pos, file, catalog, manifest, seen, pinned, served>>

(***************************************************************************)
(* A call returns an error and Run with it, or the process is killed: what *)
(* it has published stays.                                                 *)
(***************************************************************************)
Fail(j) ==
  /\ pc[j] \notin Over \cup {"check"}
  /\ Goto(j, "failed")
  /\ UNCHANGED <<pos, file, catalog, manifest, index, seen, pinned, served>>

-----------------------------------------------------------------------------
(* store.Open *)

(* Attach the catalog, read its last snapshot number, and detach it. *)
ReadLast(r) ==
  /\ pc[r] = "start"
  /\ LET c == catalog[Out[r]]
     IN  IF c # None
         THEN pinned' = [pinned EXCEPT ![r] = Last[c]] /\ Goto(r, "detached")
         ELSE UNCHANGED pinned /\ Goto(r, "failed")
  /\ UNCHANGED <<pos, file, catalog, manifest, index, seen, served>>

(***************************************************************************)
(* Attach what the path holds now, pinned to that number; DuckLake refuses *)
(* a snapshot that the catalog does not have.                              *)
(***************************************************************************)
Attach(r) ==
  /\ pc[r] = "detached"
  /\ LET c == catalog[Out[r]]
     IN  IF pinned[r] <= Last[c]
         THEN seen' = [seen EXCEPT ![r] = c] /\ Goto(r, "attached")
         ELSE UNCHANGED seen /\ Goto(r, "failed")
  /\ UNCHANGED <<pos, file, catalog, manifest, index, pinned, served>>

LoadIndex_CommitOnly(r) ==
  /\ pc[r] = "attached"
  /\ LET d == index[Out[r]]
         Agrees == d \in Builds /\ Last[d] = pinned[r]
     IN  served' = [served EXCEPT ![r] = IF Agrees THEN d ELSE None]
  /\ Goto(r, "loaded")
  /\ UNCHANGED <<pos, file, catalog, manifest, index, seen, pinned>>

(***************************************************************************)
(* Read the sidecar.  One that does not parse, that was made at a snapshot *)
(* of another number, or whose paths are not the live files of the pinned  *)
(* snapshot in their order, is not used.                                   *)
(***************************************************************************)
LoadIndex(r) ==
  /\ pc[r] = "attached"
  /\ LET d == index[Out[r]]
         Agrees == /\ d \in Builds
                   /\ Last[d] = pinned[r]
                   /\ Files[d] = FilesAt(seen[r], pinned[r])
     IN  served' = [served EXCEPT ![r] = IF Agrees THEN d ELSE None]
  /\ Goto(r, "loaded")
  /\ UNCHANGED <<pos, file, catalog, manifest, index, seen, pinned>>

(***************************************************************************)
(* List the collections, from the file of that table.  They are inserted   *)
(* last: at a number below the last snapshot's there is no such file yet.  *)
(***************************************************************************)
ReadCollections(r) ==
  /\ pc[r] = "loaded"
  /\ LET c == seen[r]
         Needed == {Tree[c][i] : i \in DOMAIN Tree[c]}
                     \ {Files[c][i] : i \in DOMAIN Files[c]}
     IN  Goto(r, IF \/ pinned[r] < Last[c]
                    \/ \A n \in Needed : file[n] = "whole"
                 THEN "serving" ELSE "failed")
  /\ UNCHANGED <<pos, file, catalog, manifest, index, seen, pinned, served>>

-----------------------------------------------------------------------------

BuildStep(b) ==
  \/ Check(b) \/ Stage(b) \/ StatFile(b) \/ Create(b) \/ Fill(b)
  \/ Rename(b) \/ CreateManifest(b) \/ FillManifest(b)

IndexStep(j) ==
  Resolve(j) \/ ReadFooters(j) \/ CreateIndex(j) \/ FillIndex(j)

OpenStep(r) ==
  ReadLast(r) \/ Attach(r) \/ LoadIndex(r) \/ ReadCollections(r)

Next ==
  \/ \E b \in Builds : BuildStep(b)
  \/ \E j \in Jobs : IndexStep(j) \/ Fail(j)
  \/ \E r \in Readers : OpenStep(r)

Spec == Init /\ [][Next]_vars

=============================================================================
