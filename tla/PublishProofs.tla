--------------------------- MODULE PublishProofs ---------------------------
(***************************************************************************)
(* What publication guarantees for any number of builds, `index` runs,     *)
(* readers, paths and files.                                               *)
(*                                                                         *)
(* That the catalog comes after all its files is an invariant only while   *)
(* every name belongs to one build and os.Stat tells the truth: a retry    *)
(* under content-hashed names skips what a dead build left torn.  What     *)
(* survives such retries is that files are only added and that an index is *)
(* of whole files, as long as builds with files in common run one after    *)
(* another; with one writer per path, that makes publication a             *)
(* SnapshotStore, and success means catalog, manifest, index and features. *)
(* That a reader prunes only with the index of the files it pinned, and    *)
(* pins the last snapshot of a path that is settled, needs none of this.   *)
(***************************************************************************)
EXTENDS PublishProperties, TLAPS

-----------------------------------------------------------------------------
(* Types *)

(* The files of a build are a sequence of names. *)
LEMMA FilesType ==
  ASSUME NEW b \in Builds
  PROVE  /\ Tree[b] \in Seq(Names)
         /\ Len(Tree[b]) \in Nat
         /\ DOMAIN Tree[b] = 1 .. Len(Tree[b])
         /\ \A i \in DOMAIN Tree[b] : Tree[b][i] \in Names
BY PublishAssumption DEF PublishAssumption

(* The files of its features are among them. *)
LEMMA FeatureFiles ==
  ASSUME NEW b \in Builds
  PROVE  /\ \A i \in DOMAIN Files[b] : Files[b][i] \in Names
         /\ Whole(b) => Readable(b)
<1>1. \A i \in DOMAIN Files[b] : \E k \in DOMAIN Tree[b] : Tree[b][k] = Files[b][i]
  BY PublishAssumption DEF PublishAssumption
<1> QED
  BY <1>1, FilesType DEF Whole, Readable

(* Where the next file of a build is, and what Advance leaves. *)
LEMMA AdvanceType ==
  ASSUME TypeOK, NEW b \in Builds, Left(b), Advance(b)
  PROVE  /\ pos' = [pos EXCEPT ![b] = pos[b] + 1]
         /\ pos' \in [Builds -> Nat]
         /\ \A a \in Builds : pos'[a] \in 1 .. Len(Tree[a]) + 1
         /\ pc' \in [Jobs \cup Readers -> JobLabels \cup ReaderLabels]
<1>1. b \in Jobs \cup Readers
  BY DEF Jobs
<1>2. pos[b] \in 1 .. Len(Tree[b]) /\ Len(Tree[b]) \in Nat
  BY FilesType DEF Left
<1>3. pos' = [pos EXCEPT ![b] = pos[b] + 1]
  BY DEF Advance
<1>4. pos' \in [Builds -> Nat]
  BY <1>2, <1>3 DEF TypeOK
<1>5. ASSUME NEW a \in Builds PROVE pos'[a] \in 1 .. Len(Tree[a]) + 1
  BY <1>2, <1>3, <1>4, FilesType DEF TypeOK
<1>6. pc' \in [Jobs \cup Readers -> JobLabels \cup ReaderLabels]
  BY <1>1 DEF Advance, Goto, TypeOK, JobLabels
<1> QED
  BY <1>3, <1>4, <1>5, <1>6

(* The counter of publishTree stays inside the list while a file is left. *)
Positions ==
  \A b \in Builds : pc[b] \in {"stat", "create", "fill"} => Left(b)

(* A catalog that a job works on, or a reader has open, is a build's. *)
Attached ==
  /\ \A j \in Jobs : pc[j] \in {"footers", "index", "fillIndex", "done"}
                       => seen[j] \in Builds
  /\ \A r \in Readers :
       /\ pc[r] \in {"attached", "loaded", "serving"} => seen[r] \in Builds
       /\ pc[r] \in {"start", "detached"} => seen[r] = None /\ served[r] = None
       /\ pc[r] = "detached" => catalog[Out[r]] \in Builds
       /\ pc[r] = "attached" => served[r] = None

TypeInv == TypeOK /\ Positions /\ Attached

(* The names, paths and process classes that an action mentions. *)
LEMMA Places ==
  /\ \A b \in Builds : b \in Jobs
  /\ \A j \in Jobs : j \in Jobs \cup Readers /\ j \notin Readers /\ Out[j] \in Outs
  /\ \A r \in Readers : /\ r \in Jobs \cup Readers
                        /\ r \notin Jobs /\ r \notin Builds
                        /\ Out[r] \in Outs
BY PublishAssumption DEF PublishAssumption, Jobs

(* Every variable keeps its type, in every step of every process. *)
LEMMA TypeOKStep == TypeInv /\ [Next]_vars => TypeOK'
<1> SUFFICES ASSUME TypeInv, [Next]_vars PROVE TypeOK'
  OBVIOUS
<1> USE DEF TypeInv, TypeOK
<1>0. CASE UNCHANGED vars
  BY <1>0 DEF vars
<1>1. ASSUME NEW b \in Builds, BuildStep(b) PROVE TypeOK'
  <2>1. b \in Jobs \cup Readers /\ Out[b] \in Outs
    BY Places
  <2>2. pc[b] \in {"stat", "create", "fill"} => Left(b) /\ Current(b) \in Names
    BY FilesType DEF Positions, Left, Current
  <2>3. CASE Check(b) \/ Stage(b)
    BY <2>1, <2>3 DEF Check, Stage, Goto, JobLabels
  <2>4. CASE CreateManifest(b) \/ FillManifest(b)
    BY <2>1, <2>4 DEF CreateManifest, FillManifest, Goto, JobLabels
  <2>5. CASE StatFile(b) /\ Goto(b, "create") /\ UNCHANGED pos
    BY <2>1, <2>5 DEF StatFile, Goto, JobLabels
  <2>6. CASE StatFile(b) /\ Advance(b)
    <3>1. Left(b)
      BY <2>2, <2>6 DEF StatFile
    <3> QED
      BY <2>6, <3>1, AdvanceType DEF StatFile
  <2>7. CASE Create(b)
    BY <2>1, <2>2, <2>7 DEF Create, Goto, JobLabels
  <2>8. CASE Fill(b)
    <3>1. Left(b) /\ Current(b) \in Names
      BY <2>2, <2>8 DEF Fill
    <3>2. file' \in [Names -> {"absent", "torn", "whole"}]
      BY <2>8, <3>1 DEF Fill
    <3> QED
      BY <2>8, <3>1, <3>2, AdvanceType DEF Fill
  <2>9. CASE Rename(b)
    BY <2>1, <2>9 DEF Rename, Goto, JobLabels
  <2> QED
    BY <1>1, <2>3, <2>4, <2>5, <2>6, <2>7, <2>8, <2>9 DEF BuildStep, StatFile
<1>2. ASSUME NEW j \in Jobs, IndexStep(j) \/ Fail(j) PROVE TypeOK'
  <2>1. j \in Jobs \cup Readers /\ Out[j] \in Outs
    BY Places
  <2>2. CASE Resolve(j)
    <3>1. seen' \in [Jobs \cup Readers -> Builds \cup {None}]
      BY <2>1, <2>2 DEF Resolve
    <3>2. pc' \in [Jobs \cup Readers -> JobLabels \cup ReaderLabels]
      BY <2>1, <2>2 DEF Resolve, Goto, JobLabels
    <3> QED
      BY <2>2, <3>1, <3>2 DEF Resolve
  <2>3. CASE ReadFooters(j) \/ CreateIndex(j) \/ Fail(j)
    BY <2>1, <2>3 DEF ReadFooters, CreateIndex, Fail, Goto, JobLabels
  <2>4. CASE FillIndex(j)
    BY <2>1, <2>4 DEF FillIndex, Goto, JobLabels
  <2> QED
    BY <1>2, <2>2, <2>3, <2>4 DEF IndexStep
<1>3. ASSUME NEW r \in Readers, OpenStep(r) PROVE TypeOK'
  <2>1. r \in Jobs \cup Readers /\ Out[r] \in Outs
    BY Places
  <2>2. CASE Attach(r)
    <3>1. seen' \in [Jobs \cup Readers -> Builds \cup {None}]
      BY <2>1, <2>2 DEF Attach, Attached
    <3>2. pc' \in [Jobs \cup Readers -> JobLabels \cup ReaderLabels]
      BY <2>1, <2>2 DEF Attach, Goto, ReaderLabels
    <3> QED
      BY <2>2, <3>1, <3>2 DEF Attach
  <2>3. CASE LoadIndex(r)
    BY <2>1, <2>3 DEF LoadIndex, Goto, ReaderLabels
  <2>4. CASE ReadLast(r)
    <3>1. pinned' \in [Readers -> Nat]
      BY <2>1, <2>4, PublishAssumption DEF ReadLast, PublishAssumption
    <3>2. pc' \in [Jobs \cup Readers -> JobLabels \cup ReaderLabels]
      BY <2>1, <2>4 DEF ReadLast, Goto, ReaderLabels
    <3> QED
      BY <2>4, <3>1, <3>2 DEF ReadLast
  <2>5. CASE ReadCollections(r)
    BY <2>1, <2>5 DEF ReadCollections, Goto, ReaderLabels
  <2> QED
    BY <1>3, <2>2, <2>3, <2>4, <2>5 DEF OpenStep
<1> QED
  BY <1>0, <1>1, <1>2, <1>3 DEF Next

(* publishTree never runs past the last file of the tree. *)
LEMMA PositionsStep == TypeInv /\ [Next]_vars => Positions'
<1> SUFFICES ASSUME TypeInv, [Next]_vars PROVE Positions'
  OBVIOUS
<1> USE DEF TypeInv, Positions, Left
<1>0. CASE UNCHANGED vars
  BY <1>0 DEF vars
<1>1. ASSUME NEW b \in Builds, BuildStep(b) PROVE Positions'
  <2>1. CASE UNCHANGED pos
    BY <1>1, <2>1, Places DEF BuildStep, Check, Stage, StatFile, Create, Rename,
         CreateManifest, FillManifest, Fill, Advance, Goto, TypeOK
  <2>2. CASE Advance(b)
    BY <2>2, Places DEF Advance, Goto, TypeOK
  <2> QED
    BY <1>1, <2>1, <2>2 DEF BuildStep, Check, Stage, StatFile, Create, Fill,
         Rename, CreateManifest, FillManifest
<1>2. ASSUME NEW j \in Jobs, IndexStep(j) \/ Fail(j) PROVE Positions'
  BY <1>2, Places DEF IndexStep, Fail, Resolve, ReadFooters, CreateIndex,
       FillIndex, Goto, TypeOK
<1>3. ASSUME NEW r \in Readers, OpenStep(r) PROVE Positions'
  BY <1>3, Places DEF OpenStep, ReadLast, Attach, LoadIndex, ReadCollections, Goto, TypeOK
<1> QED
  BY <1>0, <1>1, <1>2, <1>3 DEF Next

(* A catalog path that has a catalog never loses it. *)
LEMMA CatalogStays ==
  ASSUME TypeOK, [Next]_vars, NEW o \in Outs, catalog[o] \in Builds
  PROVE  catalog'[o] \in Builds
<1>1. ASSUME NEW b \in Builds, Rename(b) PROVE catalog'[o] \in Builds
  BY <1>1, Places DEF Rename, TypeOK
<1>2. (\E b \in Builds : Rename(b)) \/ UNCHANGED catalog
  BY DEF Next, vars, BuildStep, Check, Stage, StatFile, Create, Fill,
     CreateManifest, FillManifest, IndexStep, Fail, Resolve, ReadFooters,
     CreateIndex, FillIndex, OpenStep, ReadLast, Attach, LoadIndex, ReadCollections
<1> QED
  BY <1>1, <1>2

(* A job reads files, and a reader serves, with a catalog attached. *)
LEMMA AttachedStep == TypeInv /\ [Next]_vars => Attached'
<1> SUFFICES ASSUME TypeInv, [Next]_vars PROVE Attached'
  OBVIOUS
<1> USE DEF TypeInv, Attached
<1>c. \A r \in Readers : catalog[Out[r]] \in Builds => catalog'[Out[r]] \in Builds
  BY CatalogStays, Places
<1>0. CASE UNCHANGED vars
  BY <1>0 DEF vars
<1>1. ASSUME NEW b \in Builds, BuildStep(b) PROVE Attached'
  <2>1. UNCHANGED <<seen, served>>
    BY <1>1 DEF BuildStep, Check, Stage, StatFile, Create, Fill, Rename,
         CreateManifest, FillManifest
  <2>2. \E label \in {"stage", "refused", "stat", "create", "fill", "rename",
                      "manifest", "fillManifest", "resolve"} : Goto(b, label)
    BY <1>1 DEF BuildStep, Check, Stage, StatFile, Create, Fill, Rename,
         CreateManifest, FillManifest, Advance, Goto
  <2> QED
    BY <1>c, <2>1, <2>2, Places DEF Goto, TypeOK
<1>2. ASSUME NEW j \in Jobs, IndexStep(j) \/ Fail(j) PROVE Attached'
  <2>1. CASE Resolve(j)
    <3>1. /\ \A p \in Jobs \cup Readers : p # j => seen'[p] = seen[p] /\ pc'[p] = pc[p]
          /\ pc'[j] = "failed" \/ seen'[j] \in Builds
      BY <2>1, Places DEF Resolve, Goto, TypeOK
    <3>2. served' = served
      BY <2>1 DEF Resolve
    <3> QED
      BY <1>c, <3>1, <3>2, Places
  <2>2. CASE ReadFooters(j) \/ CreateIndex(j) \/ FillIndex(j) \/ Fail(j)
    <3>1. UNCHANGED <<seen, served>>
      BY <2>2 DEF ReadFooters, CreateIndex, FillIndex, Fail
    <3>2. /\ \A p \in Jobs \cup Readers : p # j => pc'[p] = pc[p]
          /\ pc'[j] = "failed" \/ pc[j] \in {"footers", "index", "fillIndex"}
      BY <2>2, Places DEF ReadFooters, CreateIndex, FillIndex, Fail, Goto, TypeOK
    <3> QED
      BY <1>c, <3>1, <3>2, Places
  <2> QED
    BY <1>2, <2>1, <2>2 DEF IndexStep
<1>3. ASSUME NEW r \in Readers, OpenStep(r) PROVE Attached'
  <2>1. /\ UNCHANGED catalog
        /\ \A p \in Jobs \cup Readers : p # r => seen'[p] = seen[p] /\ pc'[p] = pc[p]
        /\ \A q \in Readers : q # r => served'[q] = served[q]
    BY <1>3, Places DEF OpenStep, ReadLast, Attach, LoadIndex, ReadCollections, Goto, TypeOK
  <2>2. CASE ReadLast(r)
    <3>1. /\ UNCHANGED <<seen, served>> /\ pc[r] = "start"
          /\ pc'[r] \in {"detached", "failed"}
          /\ pc'[r] = "detached" => catalog[Out[r]] \in Builds
      BY <2>2, Places DEF ReadLast, Goto, TypeOK
    <3> QED
      BY <2>1, <3>1, Places
  <2>3. CASE Attach(r)
    <3>1. /\ pc'[r] \in {"attached", "failed"}
          /\ pc'[r] = "failed" \/ seen'[r] \in Builds
          /\ pc[r] = "detached" /\ served'[r] = served[r]
      BY <2>3, Places DEF Attach, Goto, TypeOK
    <3> QED
      BY <2>1, <3>1, Places
  <2>4. CASE LoadIndex(r)
    <3>1. pc[r] = "attached" /\ UNCHANGED seen /\ pc'[r] = "loaded"
      BY <2>4, Places DEF LoadIndex, Goto, TypeOK
    <3> QED
      BY <2>1, <3>1, Places
  <2>5. CASE ReadCollections(r)
    <3>1. /\ pc[r] = "loaded" /\ UNCHANGED <<seen, served>>
          /\ pc'[r] \in {"serving", "failed"}
      BY <2>5, Places DEF ReadCollections, Goto, TypeOK
    <3> QED
      BY <2>1, <3>1, Places
  <2> QED
    BY <1>3, <2>2, <2>3, <2>4, <2>5 DEF OpenStep
<1> QED
  BY <1>0, <1>1, <1>2, <1>3 DEF Next

(* The typing invariant is inductive. *)
LEMMA TypeStep == TypeInv /\ [Next]_vars => TypeInv'
BY TypeOKStep, PositionsStep, AttachedStep DEF TypeInv

(* The invariant of the types holds at the start. *)
LEMMA TypeInit == Init => TypeInv
<1> SUFFICES ASSUME Init PROVE TypeInv
  OBVIOUS
<1> USE DEF Init
<1>1. pc \in [Jobs \cup Readers -> JobLabels \cup ReaderLabels]
  BY DEF JobLabels, ReaderLabels
<1>2. \A b \in Builds : pos[b] \in 1 .. Len(Tree[b]) + 1
  BY FilesType
<1>3. TypeOK
  BY <1>1, <1>2 DEF TypeOK
<1>4. Positions /\ Attached
  BY PublishAssumption DEF PublishAssumption, Positions, Attached, Jobs
<1> QED
  BY <1>3, <1>4 DEF TypeInv

(* Every variable of the publication keeps its type. *)
THEOREM TypeCorrect == Spec => []TypeOK
<1>1. TypeInv => TypeOK
  BY DEF TypeInv
<1> QED
  BY <1>1, TypeInit, TypeStep, PTL DEF Spec

(* The invariant of the types, for the theorems below. *)
LEMMA SpecTypes == Spec => []TypeInv
BY TypeInit, TypeStep, PTL DEF Spec

-----------------------------------------------------------------------------
(* What a reader prunes with *)

(***************************************************************************)
(* A reader never prunes with an index that does not list exactly the      *)
(* files of the catalog it pinned, whoever replaces the catalog or the     *)
(* sidecar while it opens them (the path check of store.Open).             *)
(***************************************************************************)
THEOREM ServedIndexIsRight == Spec => []ServedIndexMatches
<1>1. Init => ServedIndexMatches
  BY DEF Init, ServedIndexMatches
<1>2. TypeInv /\ ServedIndexMatches /\ [Next]_vars => ServedIndexMatches'
  <2> SUFFICES ASSUME TypeInv, ServedIndexMatches, [Next]_vars,
                      NEW r \in Readers, served'[r] # None
               PROVE  /\ served'[r] \in Builds /\ seen'[r] # None
                      /\ Files[served'[r]] = FilesAt(seen'[r], pinned'[r])
    BY DEF ServedIndexMatches
  <2> USE DEF TypeInv, TypeOK
  <2>1. CASE UNCHANGED <<served[r], seen[r], pinned[r]>>
    BY <2>1 DEF ServedIndexMatches, FilesAt
  <2>2. CASE LoadIndex(r)
    <3>1. seen[r] \in Builds /\ seen' = seen /\ pinned' = pinned
      BY <2>2 DEF LoadIndex, Attached
    <3>2. served'[r] \in Builds /\ Files[served'[r]] = FilesAt(seen[r], pinned[r])
      BY <2>2 DEF LoadIndex
    <3> QED
      BY <3>1, <3>2, PublishAssumption DEF PublishAssumption
  <2>3. CASE ReadLast(r) \/ Attach(r)
    BY <2>3 DEF ReadLast, Attach, Attached
  <2>7. CASE ReadCollections(r)
    BY <2>1, <2>7 DEF ReadCollections
  <2>4. ASSUME NEW q \in Readers, q # r, OpenStep(q)
        PROVE  UNCHANGED <<served[r], seen[r], pinned[r]>>
    BY <2>4, Places DEF OpenStep, ReadLast, Attach, LoadIndex, ReadCollections
  <2>5. ASSUME NEW b \in Builds, BuildStep(b)
        PROVE  UNCHANGED <<served[r], seen[r], pinned[r]>>
    BY <2>5 DEF BuildStep, Check, Stage, StatFile, Create, Fill, Rename,
         CreateManifest, FillManifest
  <2>6. ASSUME NEW j \in Jobs, IndexStep(j) \/ Fail(j)
        PROVE  UNCHANGED <<served[r], seen[r], pinned[r]>>
    BY <2>6, Places DEF IndexStep, Fail, Resolve, ReadFooters, CreateIndex,
         FillIndex
  <2> QED
    BY <2>1, <2>2, <2>3, <2>4, <2>5, <2>6, <2>7 DEF Next, vars, OpenStep
<1> QED
  BY <1>1, <1>2, SpecTypes, PTL DEF Spec

-----------------------------------------------------------------------------
(* The order of publication *)

(***************************************************************************)
(* How far each build is: the files before the one it looks at are whole,  *)
(* the ones after it do not exist, and that one does not exist before      *)
(* os.WriteFile has created it.                                            *)
(***************************************************************************)
Copied ==
  \A b \in Builds : \A i \in DOMAIN Tree[b] :
    /\ i < pos[b] => file[Tree[b][i]] = "whole"
    /\ i > pos[b] => file[Tree[b][i]] = "absent"
    /\ i = pos[b] /\ pc[b] \in {"check", "stage", "stat", "create"}
         => file[Tree[b][i]] = "absent"

(* Copying a file is a change of that file only, and no other build has it. *)
LEMMA OnlyMine ==
  ASSUME Unshared, NEW b \in Builds, Left(b),
         NEW a \in Builds, NEW i \in DOMAIN Tree[a],
         a # b \/ i # pos[b]
  PROVE  Tree[a][i] # Current(b)
BY PublishAssumption DEF PublishAssumption, Unshared, Left, Current

(* No step copies out of order, when names are unique and os.Stat is right. *)
LEMMA CopiedStep ==
  ASSUME Unshared, StatFails = {}
  PROVE  TypeInv /\ Copied /\ [Next]_vars => Copied'
<1> SUFFICES ASSUME TypeInv, Copied, [Next]_vars PROVE Copied'
  OBVIOUS
<1> USE DEF TypeInv
<1>0. CASE UNCHANGED vars
  BY <1>0 DEF vars, Copied
<1>1. ASSUME NEW b \in Builds, BuildStep(b) PROVE Copied'
  <2>1. b \in Jobs \cup Readers
    BY Places
  <2>2. /\ pos[b] \in Nat
        /\ pc[b] \in {"stat", "create", "fill"} => Left(b) /\ Current(b) \in Names
    BY FilesType DEF Positions, Left, Current, TypeOK
  <2>3. CASE Check(b) \/ Stage(b) \/ CreateManifest(b) \/ FillManifest(b) \/ Rename(b)
    <3>1. /\ UNCHANGED <<pos, file>>
          /\ \A a \in Builds : a # b => pc'[a] = pc[a]
          /\ pc'[b] \in {"check", "stage", "stat", "create"}
               => pc[b] \in {"check", "stage"}
      BY <2>1, <2>3, Places DEF Check, Stage, CreateManifest, FillManifest, Rename,
           Goto, TypeOK
    <3> QED
      BY <3>1 DEF Copied
  <2>4. CASE StatFile(b)
    <3>1. pc[b] = "stat" /\ Left(b) /\ file[Current(b)] = "absent"
      BY <2>2, <2>4 DEF StatFile, Copied, Left, Current
    <3>2. UNCHANGED <<pos, file>> /\ Goto(b, "create")
      BY <2>4, <3>1 DEF StatFile
    <3>3. \A a \in Builds : a # b => pc'[a] = pc[a]
      BY <3>2, Places DEF Goto, TypeOK
    <3> QED
      BY <3>1, <3>2, <3>3 DEF Copied
  <2>5. CASE Create(b)
    <3>1. /\ UNCHANGED pos /\ Goto(b, "fill") /\ Left(b)
          /\ \A n \in Names : n # Current(b) => file'[n] = file[n]
      BY <2>2, <2>5 DEF Create, TypeOK
    <3>2. ASSUME NEW a \in Builds, NEW i \in DOMAIN Tree[a], a # b \/ i # pos[b]
          PROVE  file'[Tree[a][i]] = file[Tree[a][i]]
      BY <3>1, <3>2, OnlyMine, FilesType
    <3>3. /\ pos' = pos /\ pc'[b] = "fill"
          /\ \A a \in Builds : a # b => pc'[a] = pc[a]
      BY <2>1, <3>1, Places DEF Goto, TypeOK
    <3>4. ASSUME NEW a \in Builds, NEW i \in DOMAIN Tree[a], a # b
          PROVE  /\ i < pos'[a] => file'[Tree[a][i]] = "whole"
                 /\ i > pos'[a] => file'[Tree[a][i]] = "absent"
                 /\ i = pos'[a] /\ pc'[a] \in {"check", "stage", "stat", "create"}
                      => file'[Tree[a][i]] = "absent"
      BY <3>2, <3>3, <3>4 DEF Copied
    <3>5. ASSUME NEW i \in DOMAIN Tree[b]
          PROVE  /\ i < pos'[b] => file'[Tree[b][i]] = "whole"
                 /\ i > pos'[b] => file'[Tree[b][i]] = "absent"
      <4>1. i \in Nat
        BY FilesType
      <4>2. i # pos[b] => file'[Tree[b][i]] = file[Tree[b][i]]
        BY <3>2
      <4> QED
        BY <2>2, <3>3, <4>1, <4>2 DEF Copied
    <3> QED
      BY <3>3, <3>4, <3>5 DEF Copied
  <2>6. CASE Fill(b)
    <3>1. /\ Left(b) /\ file'[Current(b)] = "whole"
          /\ \A n \in Names : n # Current(b) => file'[n] = file[n]
      BY <2>2, <2>6 DEF Fill, TypeOK
    <3>2. /\ pos'[b] = pos[b] + 1
          /\ \A a \in Builds : a # b => pos'[a] = pos[a] /\ pc'[a] = pc[a]
      BY <2>1, <2>6, Places DEF Fill, Advance, Goto, TypeOK
    <3>3. ASSUME NEW a \in Builds, NEW i \in DOMAIN Tree[a], a # b \/ i # pos[b]
          PROVE  file'[Tree[a][i]] = file[Tree[a][i]]
      BY <3>1, <3>3, OnlyMine, FilesType
    <3>4. ASSUME NEW a \in Builds, NEW i \in DOMAIN Tree[a], a # b
          PROVE  /\ i < pos'[a] => file'[Tree[a][i]] = "whole"
                 /\ i > pos'[a] => file'[Tree[a][i]] = "absent"
                 /\ i = pos'[a] /\ pc'[a] \in {"check", "stage", "stat", "create"}
                      => file'[Tree[a][i]] = "absent"
      BY <3>2, <3>3, <3>4 DEF Copied
    <3>5. ASSUME NEW i \in DOMAIN Tree[b]
          PROVE  /\ i < pos'[b] => file'[Tree[b][i]] = "whole"
                 /\ i >= pos'[b] => file'[Tree[b][i]] = "absent"
      <4>1. i \in Nat
        BY FilesType
      <4>2. CASE i = pos[b]
        BY <2>2, <3>1, <3>2, <4>2 DEF Current
      <4>3. CASE i # pos[b]
        BY <2>2, <3>2, <3>3, <4>1, <4>3 DEF Copied
      <4> QED
        BY <4>2, <4>3
    <3>6. \A i \in DOMAIN Tree[b] : i \in Nat /\ pos'[b] \in Nat
      BY <2>2, <3>2, FilesType
    <3> QED
      BY <3>4, <3>5, <3>6 DEF Copied
  <2> QED
    BY <1>1, <2>3, <2>4, <2>5, <2>6 DEF BuildStep
<1>2. ASSUME NEW j \in Jobs, IndexStep(j) \/ Fail(j) PROVE Copied'
  BY <1>2, Places DEF IndexStep, Fail, Resolve, ReadFooters, CreateIndex,
       FillIndex, Goto, TypeOK, Copied
<1>3. ASSUME NEW r \in Readers, OpenStep(r) PROVE Copied'
  <2>1. /\ UNCHANGED <<pos, file>>
        /\ \A b \in Builds : pc'[b] = pc[b]
    BY <1>3, Places DEF OpenStep, ReadLast, Attach, LoadIndex, ReadCollections,
         Goto, TypeOK
  <2> QED
    BY <2>1 DEF Copied
<1> QED
  BY <1>0, <1>1, <1>2, <1>3 DEF Next

(***************************************************************************)
(* A catalog is published, opened and indexed after the last file of its   *)
(* build: the position of publishTree is then past the list, for good.     *)
(***************************************************************************)
CatalogLast ==
  /\ \A b \in Builds :
       pc[b] \in {"rename", "manifest", "fillManifest", "resolve", "footers",
                  "index", "fillIndex", "done"} => ~Left(b)
  /\ \A b \in Builds :
       pc[b] \in {"manifest", "fillManifest", "resolve", "footers", "index",
                  "fillIndex", "done"} => catalog[Out[b]] # None
  /\ \A o \in Outs : catalog[o] \in Builds => ~Left(catalog[o])
  /\ \A p \in Jobs \cup Readers : seen[p] \in Builds => ~Left(seen[p])
  /\ \A o \in Outs : index[o] \in Builds => ~Left(index[o])

(* A build that is through with its files stays so. *)
LEMMA LeftStep ==
  ASSUME TypeInv, [Next]_vars, NEW b \in Builds, ~Left(b)
  PROVE  ~Left(b)'
<1> USE DEF TypeInv, TypeOK
<1>1. pos[b] = Len(Tree[b]) + 1
  BY FilesType DEF Left
<1>2. CASE UNCHANGED pos
  BY <1>2 DEF Left
<1>3. ASSUME NEW a \in Builds, StatFile(a) \/ Fill(a), Advance(a)
      PROVE  ~Left(b)'
  <2>1. Left(a)
    BY <1>3 DEF StatFile, Fill, Positions
  <2>2. a # b
    BY <2>1
  <2> QED
    BY <1>3, <2>2 DEF Advance, Left
<1>4. ASSUME NEW a \in Builds, BuildStep(a)
      PROVE  UNCHANGED pos \/ ((StatFile(a) \/ Fill(a)) /\ Advance(a))
  BY <1>4 DEF BuildStep, Check, Stage, StatFile, Create, Fill, Rename,
       CreateManifest, FillManifest
<1>5. ASSUME NEW j \in Jobs, IndexStep(j) \/ Fail(j) PROVE UNCHANGED pos
  BY <1>5 DEF IndexStep, Fail, Resolve, ReadFooters, CreateIndex, FillIndex
<1>6. ASSUME NEW r \in Readers, OpenStep(r) PROVE UNCHANGED pos
  BY <1>6 DEF OpenStep, ReadLast, Attach, LoadIndex, ReadCollections
<1> QED
  BY <1>2, <1>3, <1>4, <1>5, <1>6 DEF Next, vars

(* Every step publishes, opens and indexes finished builds only. *)
LEMMA CatalogLastStep == TypeInv /\ CatalogLast /\ [Next]_vars => CatalogLast'
<1> SUFFICES ASSUME TypeInv, CatalogLast, [Next]_vars PROVE CatalogLast'
  OBVIOUS
<1> USE DEF TypeInv
<1>0. CASE UNCHANGED vars
  BY <1>0 DEF vars, CatalogLast, Left
<1>l. \A b \in Builds : ~Left(b) => ~Left(b)'
  BY LeftStep
<1>n. \A b \in Builds : b # None /\ b # "torn"
  BY PublishAssumption DEF PublishAssumption
<1>1. ASSUME NEW b \in Builds, BuildStep(b) PROVE CatalogLast'
  <2>1. b \in Jobs \cup Readers /\ Out[b] \in Outs
    BY Places
  <2>2. /\ pc' \in [Jobs \cup Readers -> JobLabels \cup ReaderLabels]
        /\ \A a \in Builds : a # b => pc'[a] = pc[a]
        /\ UNCHANGED <<seen, index>>
    BY <1>1, <2>1, TypeOKStep, Places DEF BuildStep, Check, Stage, StatFile,
         Create, Fill, Rename, CreateManifest, FillManifest, Advance, Goto, TypeOK
  <2>3. CASE Rename(b)
    <3>1. /\ pc[b] = "rename" /\ pc'[b] = "manifest"
          /\ catalog' = [catalog EXCEPT ![Out[b]] = b]
      BY <2>1, <2>3 DEF Rename, Goto, TypeOK
    <3> QED
      BY <1>l, <1>n, <2>1, <2>2, <3>1, Places DEF CatalogLast, TypeOK
  <2>4. CASE \/ Check(b) \/ Stage(b) \/ StatFile(b) \/ Create(b) \/ Fill(b)
             \/ CreateManifest(b) \/ FillManifest(b)
    <3>1. UNCHANGED catalog
      BY <2>4 DEF Check, Stage, StatFile, Create, Fill, CreateManifest, FillManifest
    <3>2. pc'[b] = "rename" => ~Left(b)'
      BY <2>1, <2>4 DEF Check, Stage, StatFile, Create, Fill, CreateManifest,
           FillManifest, Advance, Goto, TypeOK, Left
    <3>3. pc'[b] \in {"manifest", "fillManifest", "resolve"}
               => pc[b] \in {"manifest", "fillManifest"}
      BY <2>1, <2>4 DEF Check, Stage, StatFile, Create, Fill, CreateManifest,
           FillManifest, Advance, Goto, TypeOK
    <3>4. pc'[b] \notin {"footers", "index", "fillIndex", "done"}
      BY <2>1, <2>4 DEF Check, Stage, StatFile, Create, Fill, CreateManifest,
           FillManifest, Advance, Goto, TypeOK
    <3>5. pc'[b] \in {"manifest", "fillManifest", "resolve"} => ~Left(b)'
      BY <1>l, <3>3 DEF CatalogLast
    <3>6. \A a \in Builds :
            pc'[a] \in {"rename", "manifest", "fillManifest", "resolve",
                        "footers", "index", "fillIndex", "done"} => ~Left(a)'
      BY <1>l, <2>2, <3>2, <3>4, <3>5 DEF CatalogLast
    <3>7. \A a \in Builds :
            pc'[a] \in {"manifest", "fillManifest", "resolve", "footers", "index",
                        "fillIndex", "done"} => catalog'[Out[a]] # None
      BY <2>2, <3>1, <3>3, <3>4 DEF CatalogLast
    <3> QED
      BY <1>l, <2>2, <3>1, <3>6, <3>7 DEF CatalogLast
  <2> QED
    BY <1>1, <2>3, <2>4 DEF BuildStep
<1>2. ASSUME NEW j \in Jobs, IndexStep(j) \/ Fail(j) PROVE CatalogLast'
  <2>1. j \in Jobs \cup Readers /\ Out[j] \in Outs
    BY Places
  <2>2. /\ UNCHANGED catalog
        /\ \A a \in Builds : a # j => pc'[a] = pc[a]
        /\ pc'[j] \in {"footers", "index", "fillIndex", "done"}
             => pc[j] \in {"resolve", "footers", "index", "fillIndex"}
        /\ pc'[j] \in {"footers", "index", "fillIndex", "done", "failed"}
    BY <1>2, <2>1, Places DEF IndexStep, Fail, Resolve, ReadFooters, CreateIndex,
         FillIndex, Goto, TypeOK
  <2>3. \A p \in Jobs \cup Readers : seen'[p] \in Builds => ~Left(seen'[p])
    BY <1>2, <2>1 DEF IndexStep, Fail, Resolve, ReadFooters, CreateIndex,
         FillIndex, TypeOK, CatalogLast
  <2>4. \A o \in Outs : index'[o] \in Builds => ~Left(index'[o])
    BY <1>2, <1>n, <2>1 DEF IndexStep, Fail, Resolve, ReadFooters, CreateIndex,
         FillIndex, TypeOK, CatalogLast
  <2>5. UNCHANGED pos
    BY <1>2 DEF IndexStep, Fail, Resolve, ReadFooters, CreateIndex, FillIndex
  <2> QED
    BY <2>2, <2>3, <2>4, <2>5, Places DEF CatalogLast, Left
<1>3. ASSUME NEW r \in Readers, OpenStep(r) PROVE CatalogLast'
  <2>1. r \in Jobs \cup Readers /\ Out[r] \in Outs
    BY Places
  <2>2. /\ UNCHANGED <<pos, catalog, index>>
        /\ \A b \in Builds : pc'[b] = pc[b]
    BY <1>3, Places DEF OpenStep, ReadLast, Attach, LoadIndex, ReadCollections, Goto, TypeOK
  <2>3. \A p \in Jobs \cup Readers : seen'[p] \in Builds => ~Left(seen'[p])
    BY <1>3, <2>1 DEF OpenStep, ReadLast, Attach, LoadIndex, ReadCollections, TypeOK, CatalogLast
  <2> QED
    BY <2>2, <2>3 DEF CatalogLast, Left
<1> QED
  BY <1>0, <1>1, <1>2, <1>3 DEF Next

(* What the theorems below rest on: types, finished copies, catalog last. *)
Inv == TypeInv /\ Copied /\ CatalogLast

(* The invariant holds when nothing has been published... *)
LEMMA InitInv == Init => Inv
<1> SUFFICES ASSUME Init PROVE Inv
  OBVIOUS
<1>1. Copied
  <2>1. \A b \in Builds : \A i \in DOMAIN Tree[b] : i \in Nat \ {0} /\ Tree[b][i] \in Names
    BY FilesType
  <2> QED
    BY <2>1 DEF Init, Copied
<1>2. CatalogLast
  BY PublishAssumption, Places DEF PublishAssumption, Init, CatalogLast
<1> QED
  BY <1>1, <1>2, TypeInit DEF Inv

(* ...and ever after. *)
LEMMA SpecInv ==
  ASSUME Unshared, StatFails = {}
  PROVE  Spec => []Inv
<1>1. Inv /\ [Next]_vars => Inv'
  BY TypeStep, CopiedStep, CatalogLastStep DEF Inv
<1> QED
  BY <1>1, InitInv, PTL DEF Spec

(* All files of a build that is past its list are whole. *)
LEMMA PastIsWhole ==
  ASSUME Inv, NEW b \in Builds, ~Left(b)
  PROVE  Whole(b)
<1>1. \A i \in DOMAIN Tree[b] : i < pos[b]
  BY FilesType DEF Inv, TypeInv, TypeOK, Left
<1> QED
  BY <1>1 DEF Inv, Copied, Whole

(***************************************************************************)
(* The catalog comes last: with unique names, no failure, crash or race    *)
(* makes a published or opened catalog refer to a file that is not there   *)
(* in full.                                                                *)
(***************************************************************************)
THEOREM CatalogComesLast ==
  ASSUME Unshared, StatFails = {}
  PROVE  Spec => []PublishedWhole
<1>1. Inv => PublishedWhole
  BY PastIsWhole, Places DEF Inv, TypeInv, TypeOK, CatalogLast, PublishedWhole
<1> QED
  BY <1>1, SpecInv, PTL

-----------------------------------------------------------------------------
(* A catalog path has one snapshot *)

(***************************************************************************)
(* A build that has passed os.Stat and not yet renamed its catalog finds   *)
(* the path free; the builds before it are over when it starts.            *)
(***************************************************************************)
PathIsFree ==
  /\ \A b \in Builds : pc[b] \in {"stage", "stat", "create", "fill", "rename"}
                         => catalog[Out[b]] = None
  /\ \A b \in Builds : \A a \in After[b] : pc[b] # "check" => pc[a] \in Over

(* How the label of one build moves. *)
LEMMA BuildMoves ==
  ASSUME TypeInv, [Next]_vars, NEW b \in Builds
  PROVE  /\ pc[b] \in Over => pc'[b] = pc[b]
         /\ pc'[b] = "check" => pc[b] = "check"
         /\ pc[b] = "check" /\ pc'[b] # "check" =>
              /\ \A a \in After[b] : pc[a] \in Over
              /\ pc'[b] = "refused" \/ catalog[Out[b]] = None
              /\ UNCHANGED catalog
         /\ pc'[b] \in {"stat", "create", "fill", "rename"} =>
              pc[b] \in {"stage", "stat", "create", "fill", "rename"}
         /\ pc'[b] = "stage" => pc[b] \in {"check", "stage"}
         /\ Rename(b) => pc'[b] = "manifest"
<1> USE DEF TypeInv, TypeOK, Over
<1>1. CASE UNCHANGED vars
  BY <1>1, Places DEF vars, Rename, Goto
<1>2. ASSUME NEW c \in Builds, c # b, BuildStep(c) PROVE pc'[b] = pc[b]
  BY <1>2, Places DEF BuildStep, Check, Stage, StatFile, Create, Fill, Rename,
       CreateManifest, FillManifest, Advance, Goto
<1>3. ASSUME NEW c \in Jobs, c # b, IndexStep(c) \/ Fail(c) PROVE pc'[b] = pc[b]
  BY <1>3, Places DEF IndexStep, Fail, Resolve, ReadFooters, CreateIndex,
       FillIndex, Goto
<1>4. ASSUME NEW r \in Readers, OpenStep(r) PROVE pc'[b] = pc[b]
  BY <1>4, Places DEF OpenStep, ReadLast, Attach, LoadIndex, ReadCollections, Goto
<1>5. CASE pc'[b] = pc[b]
  BY <1>5, Places DEF Rename, Goto
<1>6. CASE BuildStep(b)
  BY <1>6, Places DEF BuildStep, Check, Stage, StatFile, Create, Fill, Rename,
       CreateManifest, FillManifest, Advance, Goto
<1>7. CASE IndexStep(b) \/ Fail(b)
  BY <1>7, Places DEF IndexStep, Fail, Resolve, ReadFooters, CreateIndex,
       FillIndex, Goto, Rename
<1> QED
  BY <1>1, <1>2, <1>3, <1>4, <1>5, <1>6, <1>7, Places DEF Next

(* At most one build of a path is past its check and not over. *)
LEMMA OneAtWork ==
  ASSUME Serial, PathIsFree, NEW a \in Builds, NEW b \in Builds,
         a # b, Out[a] = Out[b], pc[a] # "check", pc[b] # "check"
  PROVE  pc[a] \in Over \/ pc[b] \in Over
BY DEF Serial, PathIsFree

(* No step makes a path taken under a build that found it free. *)
LEMMA PathIsFreeStep ==
  ASSUME Serial
  PROVE  TypeInv /\ PathIsFree /\ [Next]_vars => PathIsFree'
<1> SUFFICES ASSUME TypeInv, PathIsFree, [Next]_vars PROVE PathIsFree'
  OBVIOUS
<1> DEFINE AtWork == {"stage", "stat", "create", "fill", "rename"}
<1>1. ASSUME NEW b \in Builds, NEW a \in After[b], pc'[b] # "check"
      PROVE  pc'[a] \in Over
  <2>1. a \in Builds
    BY PublishAssumption DEF PublishAssumption
  <2>2. pc[a] \in Over
    BY <1>1, BuildMoves DEF PathIsFree
  <2> QED
    BY <2>1, <2>2, BuildMoves
<1>2. (\E c \in Builds : Rename(c)) \/ UNCHANGED catalog
  BY DEF Next, vars, BuildStep, Check, Stage, StatFile, Create, Fill,
     CreateManifest, FillManifest, IndexStep, Fail, Resolve, ReadFooters,
     CreateIndex, FillIndex, OpenStep, ReadLast, Attach, LoadIndex, ReadCollections
<1>3. ASSUME NEW b \in Builds, pc'[b] \in AtWork PROVE catalog'[Out[b]] = None
  <2>1. CASE pc[b] = "check"
    BY <1>3, <2>1, BuildMoves
  <2>2. CASE pc[b] # "check"
    <3>1. pc[b] \in AtWork
      BY <1>3, <2>2, BuildMoves
    <3>2. catalog[Out[b]] = None
      BY <3>1 DEF PathIsFree
    <3>3. ASSUME NEW c \in Builds, Rename(c) PROVE Out[c] # Out[b]
      <4>1. c # b
        BY <1>3, <3>3, BuildMoves
      <4>2. pc[c] = "rename"
        BY <3>3 DEF Rename
      <4> QED
        BY <3>1, <4>1, <4>2, OneAtWork DEF Over
    <3> QED
      BY <1>2, <3>2, <3>3, Places DEF Rename, TypeInv, TypeOK
  <2> QED
    BY <2>1, <2>2
<1> QED
  BY <1>1, <1>3 DEF PathIsFree

(* The invariant of a path with a single writer. *)
LEMMA SpecPathIsFree ==
  ASSUME Serial
  PROVE  Spec => [](TypeInv /\ PathIsFree)
<1>1. Init => PathIsFree
  <2>1. \A b \in Builds : b \in Jobs \cup Readers /\ After[b] \subseteq Builds
    BY Places, PublishAssumption DEF PublishAssumption
  <2> QED
    BY <2>1 DEF Init, PathIsFree
<1> QED
  BY <1>1, TypeInit, TypeStep, PathIsFreeStep, PTL DEF Spec

(* Then a step leaves every published catalog alone... *)
LEMMA CatalogKept ==
  ASSUME TypeInv, PathIsFree, [Next]_vars, NEW o \in Outs, catalog[o] # None
  PROVE  catalog'[o] = catalog[o]
<1>1. ASSUME NEW c \in Builds, Rename(c) PROVE catalog'[o] = catalog[o]
  BY <1>1, Places DEF Rename, PathIsFree, TypeInv, TypeOK
<1>2. (\E c \in Builds : Rename(c)) \/ UNCHANGED catalog
  BY DEF Next, vars, BuildStep, Check, Stage, StatFile, Create, Fill,
     CreateManifest, FillManifest, IndexStep, Fail, Resolve, ReadFooters,
     CreateIndex, FillIndex, OpenStep, ReadLast, Attach, LoadIndex, ReadCollections
<1> QED
  BY <1>1, <1>2

(***************************************************************************)
(* ...which is what the README says.  os.Stat and os.Rename are two calls, *)
(* and nothing locks the path between them: with a single writer per path  *)
(* that is enough, and a published snapshot is never replaced.             *)
(***************************************************************************)
THEOREM OneWriterNeverOverwrites ==
  ASSUME Serial
  PROVE  Spec => NeverOverwritten
<1>1. TypeInv /\ PathIsFree /\ [Next]_vars =>
        [\A o \in Outs : catalog[o] # None => catalog'[o] = catalog[o]]_vars
  BY CatalogKept
<1> QED
  BY <1>1, SpecPathIsFree, PTL DEF Spec, NeverOverwritten

(* A path that is settled has one catalog for good. *)
LEMMA SettledStep ==
  ASSUME TypeInv, [Next]_vars, NEW o \in Outs, Settled(o)
  PROVE  Settled(o)' /\ catalog'[o] = catalog[o]
<1>1. ASSUME NEW c \in Builds, Rename(c) PROVE catalog'[o] = catalog[o]
  BY <1>1, Places DEF Rename, Settled, TypeInv, TypeOK
<1>2. (\E c \in Builds : Rename(c)) \/ UNCHANGED catalog
  BY DEF Next, vars, BuildStep, Check, Stage, StatFile, Create, Fill,
     CreateManifest, FillManifest, IndexStep, Fail, Resolve, ReadFooters,
     CreateIndex, FillIndex, OpenStep, ReadLast, Attach, LoadIndex, ReadCollections
<1>3. ASSUME NEW b \in Builds, Out[b] = o
      PROVE  pc'[b] \notin {"stage", "stat", "create", "fill", "rename"}
  BY <1>3, BuildMoves DEF Settled
<1> QED
  BY <1>1, <1>2, <1>3 DEF Settled

(* The number that a reader of a settled path has read is still the right  *)
(* one when it attaches, and ever after.                                   *)
RightNumber(r) ==
  /\ Settled(Out[r])
  /\ pc[r] = "detached" => pinned[r] = Last[catalog[Out[r]]]
  /\ seen[r] # None => pinned[r] = Last[seen[r]]

(* No step of a build, an `index` run or a reader parts the two. *)
LEMMA RightNumberStep ==
  ASSUME TypeInv, [Next]_vars, NEW r \in Readers, RightNumber(r)
  PROVE  RightNumber(r)'
<1> USE DEF TypeInv, TypeOK
<1>s. Settled(Out[r])' /\ catalog'[Out[r]] = catalog[Out[r]]
  BY SettledStep, Places DEF RightNumber
<1> SUFFICES /\ pc'[r] = "detached" => pinned'[r] = Last[catalog[Out[r]]]
             /\ seen'[r] # None => pinned'[r] = Last[seen'[r]]
  BY <1>s DEF RightNumber
<1>1. CASE UNCHANGED <<pc[r], seen[r], pinned[r]>>
  BY <1>1 DEF RightNumber
<1>2. CASE ReadLast(r)
  <2>1. seen'[r] = None
    BY <1>2 DEF ReadLast, Attached
  <2>2. pc'[r] = "detached" => pinned'[r] = Last[catalog[Out[r]]]
    BY <1>2, Places DEF ReadLast, Goto
  <2> QED
    BY <2>1, <2>2
<1>3. CASE Attach(r)
  <2>1. pinned[r] = Last[catalog[Out[r]]] /\ pinned' = pinned
    BY <1>3 DEF Attach, RightNumber
  <2>2. /\ pc'[r] \in {"attached", "failed"}
        /\ seen'[r] \in {seen[r], catalog[Out[r]]}
    BY <1>3, Places DEF Attach, Goto
  <2>3. seen[r] = None
    BY <1>3 DEF Attach, Attached
  <2> QED
    BY <2>1, <2>2, <2>3
<1>4. CASE LoadIndex(r) \/ ReadCollections(r)
  <2>1. pc'[r] # "detached" /\ UNCHANGED <<seen, pinned>>
    BY <1>4, Places DEF LoadIndex, ReadCollections, Goto
  <2> QED
    BY <2>1 DEF RightNumber
<1>5. ASSUME NEW q \in Readers, q # r, OpenStep(q)
      PROVE  UNCHANGED <<pc[r], seen[r], pinned[r]>>
  BY <1>5, Places DEF OpenStep, ReadLast, Attach, LoadIndex, ReadCollections, Goto
<1>6. ASSUME NEW b \in Builds, BuildStep(b)
      PROVE  UNCHANGED <<pc[r], seen[r], pinned[r]>>
  BY <1>6, Places DEF BuildStep, Check, Stage, StatFile, Create, Fill, Rename,
       CreateManifest, FillManifest, Advance, Goto
<1>7. ASSUME NEW j \in Jobs, IndexStep(j) \/ Fail(j)
      PROVE  UNCHANGED <<pc[r], seen[r], pinned[r]>>
  BY <1>7, Places DEF IndexStep, Fail, Resolve, ReadFooters, CreateIndex,
       FillIndex, Goto
<1> QED
  BY <1>1, <1>2, <1>3, <1>4, <1>5, <1>6, <1>7 DEF Next, vars, OpenStep

(***************************************************************************)
(* Whoever opens a path that has a catalog, with no build of it past its   *)
(* check, pins the last snapshot of the catalog it serves, for good,       *)
(* although Open attaches the path twice and other builds are started in   *)
(* between.                                                                *)
(***************************************************************************)
THEOREM SettledPathsPinLast == Spec => PinsLast
<1>1. ASSUME NEW r \in Readers
      PROVE  Spec => [](Settled(Out[r]) /\ pc[r] = "start"
                          => [](seen[r] # None => pinned[r] = Last[seen[r]]))
  <2>1. TypeInv /\ RightNumber(r) /\ [Next]_vars => RightNumber(r)'
    BY RightNumberStep
  <2>2. TypeInv /\ Settled(Out[r]) /\ pc[r] = "start" => RightNumber(r)
    BY DEF RightNumber, TypeInv, Attached
  <2>3. RightNumber(r) => (seen[r] # None => pinned[r] = Last[seen[r]])
    BY DEF RightNumber
  <2> QED
    BY <2>1, <2>2, <2>3, SpecTypes, PTL DEF Spec
<1> QED
  BY <1>1 DEF PinsLast

-----------------------------------------------------------------------------
(* Files in common, one build after another *)

(* A build is not started before those it waits for are over. *)
InTurn == \A b \in Builds : \A a \in After[b] : pc[b] # "check" => pc[a] \in Over

(* Between os.Stat and os.WriteFile nobody else makes the file. *)
Unwritten == \A b \in Builds : pc[b] = "create" => file[Current(b)] = "absent"

(* Builds stay in turn, whatever they share. *)
LEMMA InTurnStep == TypeInv /\ InTurn /\ [Next]_vars => InTurn'
<1> SUFFICES ASSUME TypeInv, InTurn, [Next]_vars,
                    NEW b \in Builds, NEW a \in After[b], pc'[b] # "check"
             PROVE  pc'[a] \in Over
  BY DEF InTurn
<1>1. a \in Builds
  BY PublishAssumption DEF PublishAssumption
<1>2. pc[a] \in Over
  BY BuildMoves DEF InTurn
<1> QED
  BY <1>1, <1>2, BuildMoves

(* Of two builds with a file in common, one is over while the other works. *)
LEMMA OneSharerAtWork ==
  ASSUME Ordered, InTurn, NEW a \in Builds, NEW b \in Builds, a # b,
         Shared(a, b), pc[a] # "check", pc[b] # "check"
  PROVE  pc[a] \in Over \/ pc[b] \in Over
BY DEF Ordered, InTurn

(* Only publishTree touches data files. *)
LEMMA FileSteps ==
  ASSUME [Next]_vars
  PROVE  UNCHANGED file \/ \E b \in Builds : Create(b) \/ Fill(b)
BY DEF Next, vars, BuildStep, Check, Stage, StatFile, Rename, CreateManifest,
   FillManifest, IndexStep, Fail, Resolve, ReadFooters, CreateIndex, FillIndex,
   OpenStep, ReadLast, Attach, LoadIndex, ReadCollections

(* A build that is about to write has just looked, or has not moved. *)
LEMMA BeforeCreate ==
  ASSUME TypeInv, [Next]_vars, NEW b \in Builds, pc'[b] = "create"
  PROVE  /\ pos'[b] = pos[b]
         /\ \/ pc[b] = "create"
            \/ pc[b] = "stat" /\ file[Current(b)] = "absent" /\ UNCHANGED file
<1> USE DEF TypeInv, TypeOK
<1>1. CASE UNCHANGED vars
  BY <1>1 DEF vars
<1>2. ASSUME NEW c \in Builds, c # b, BuildStep(c)
      PROVE  pc'[b] = pc[b] /\ pos'[b] = pos[b]
  BY <1>2, Places DEF BuildStep, Check, Stage, StatFile, Create, Fill, Rename,
       CreateManifest, FillManifest, Advance, Goto
<1>3. ASSUME NEW j \in Jobs, IndexStep(j) \/ Fail(j)
      PROVE  pc'[b] = pc[b] /\ pos'[b] = pos[b]
  BY <1>3, Places DEF IndexStep, Fail, Resolve, ReadFooters, CreateIndex,
       FillIndex, Goto
<1>4. ASSUME NEW r \in Readers, OpenStep(r) PROVE pc'[b] = pc[b] /\ pos'[b] = pos[b]
  BY <1>4, Places DEF OpenStep, ReadLast, Attach, LoadIndex, ReadCollections, Goto
<1>5. CASE BuildStep(b)
  BY <1>5, Places DEF BuildStep, Check, Stage, StatFile, Create, Fill, Rename,
       CreateManifest, FillManifest, Advance, Goto
<1> QED
  BY <1>1, <1>2, <1>3, <1>4, <1>5 DEF Next

(* What os.Stat has found absent is still absent when it is created. *)
LEMMA UnwrittenStep ==
  ASSUME Ordered
  PROVE  TypeInv /\ InTurn /\ Unwritten /\ [Next]_vars => Unwritten'
<1> SUFFICES ASSUME TypeInv, InTurn, Unwritten, [Next]_vars,
                    NEW b \in Builds, pc'[b] = "create"
             PROVE  file'[Tree[b][pos'[b]]] = "absent"
  BY DEF Unwritten, Current
<1> USE DEF TypeInv
<1>1. pos'[b] = pos[b] /\ pc[b] \in {"stat", "create"}
  BY BeforeCreate
<1>2. file[Current(b)] = "absent" /\ Current(b) \in Names /\ Left(b)
  BY <1>1, BeforeCreate, FilesType DEF Unwritten, Positions, Left, Current
<1>3. ASSUME NEW c \in Builds, Create(c) \/ Fill(c)
      PROVE  file'[Current(b)] = file[Current(b)]
  <2>1. pc[c] \in {"create", "fill"} /\ Left(c)
    BY <1>3 DEF Create, Fill, Positions
  <2>2. pc'[c] # "create"
    BY <1>3, Places DEF Create, Fill, Advance, Goto, TypeOK
  <2>3. c # b
    BY <2>2
  <2>4. ~Shared(b, c)
    BY <1>1, <2>1, <2>3, OneSharerAtWork DEF Over
  <2>5. Current(c) # Current(b)
    BY <1>2, <2>1, <2>4 DEF Shared, Left, Current
  <2> QED
    BY <1>2, <1>3, <2>5 DEF Create, Fill, TypeOK
<1> QED
  BY <1>1, <1>2, <1>3, FileSteps DEF Current

(* Published files stay, if each is found absent before it is created. *)
LEMMA WholeStays ==
  ASSUME TypeInv, Unwritten, [Next]_vars, NEW n \in Names, file[n] = "whole"
  PROVE  file'[n] = "whole"
<1>1. ASSUME NEW b \in Builds, Create(b) PROVE file'[n] = "whole"
  BY <1>1 DEF Create, Unwritten, TypeInv, TypeOK
<1>2. ASSUME NEW b \in Builds, Fill(b) PROVE file'[n] = "whole"
  BY <1>2 DEF Fill, TypeInv, TypeOK
<1> QED
  BY <1>1, <1>2, FileSteps

(* ...and so do the snapshots they make up. *)
LEMMA SnapshotStays ==
  ASSUME TypeInv, Unwritten, [Next]_vars, NEW b \in Builds, Readable(b)
  PROVE  Readable(b)'
BY WholeStays, FeatureFiles DEF Readable

(* The invariant of builds that run one after another. *)
LEMMA SpecUnwritten ==
  ASSUME Ordered
  PROVE  Spec => [](TypeInv /\ InTurn /\ Unwritten)
<1>1. Init => InTurn /\ Unwritten
  <2>1. \A b \in Builds : b \in Jobs \cup Readers /\ After[b] \subseteq Builds
    BY Places, PublishAssumption DEF PublishAssumption
  <2> QED
    BY <2>1 DEF Init, InTurn, Unwritten
<1> QED
  BY <1>1, TypeInit, TypeStep, InTurnStep, UnwrittenStep, PTL DEF Spec

(***************************************************************************)
(* Publication only adds: as long as builds with files in common run one   *)
(* after another (or have none, as with UUID names), no step touches a     *)
(* data file that has been published, even if os.Stat may fail and builds  *)
(* died in the middle of a file before.                                    *)
(***************************************************************************)
THEOREM OnlyAdds ==
  ASSUME Ordered
  PROVE  Spec => AdditiveOnly
<1>1. TypeInv /\ InTurn /\ Unwritten /\ [Next]_vars =>
        [\A n \in Names : file[n] = "whole" => file'[n] = "whole"]_vars
  BY WholeStays
<1> QED
  BY <1>1, SpecUnwritten, PTL DEF Spec, AdditiveOnly

(* What jobs have read, and what sidecars list, is whole. *)
IndexedWhole ==
  /\ \A j \in Jobs : pc[j] \in {"index", "fillIndex", "done"} => Readable(seen[j])
  /\ IndexedIsWhole

(* A job that is past the footers has read all of them. *)
LEMMA AfterFooters ==
  ASSUME TypeInv, [Next]_vars, NEW j \in Jobs,
         pc'[j] \in {"index", "fillIndex", "done"}
  PROVE  /\ seen'[j] = seen[j] /\ seen[j] \in Builds
         /\ \/ pc[j] \in {"index", "fillIndex", "done"}
            \/ Readable(seen[j])
<1> USE DEF TypeInv, TypeOK, Attached
<1>1. CASE UNCHANGED vars
  BY <1>1 DEF vars
<1>2. ASSUME NEW b \in Builds, BuildStep(b)
      PROVE  pc'[j] \in {pc[j], "stage", "refused", "stat", "create", "fill",
                         "rename", "manifest", "fillManifest", "resolve"}
             /\ seen' = seen
  BY <1>2, Places DEF BuildStep, Check, Stage, StatFile, Create, Fill, Rename,
       CreateManifest, FillManifest, Advance, Goto
<1>3. ASSUME NEW i \in Jobs, i # j, IndexStep(i) \/ Fail(i)
      PROVE  pc'[j] = pc[j] /\ seen'[j] = seen[j]
  BY <1>3, Places DEF IndexStep, Fail, Resolve, ReadFooters, CreateIndex,
       FillIndex, Goto
<1>4. ASSUME NEW r \in Readers, OpenStep(r) PROVE pc'[j] = pc[j] /\ seen'[j] = seen[j]
  BY <1>4, Places DEF OpenStep, ReadLast, Attach, LoadIndex, ReadCollections, Goto
<1>5. CASE IndexStep(j) \/ Fail(j)
  BY <1>5, Places DEF IndexStep, Fail, Resolve, ReadFooters, CreateIndex,
       FillIndex, Goto
<1> QED
  BY <1>1, <1>2, <1>3, <1>4, <1>5 DEF Next

(* How the sidecar of a path changes. *)
LEMMA IndexMoves ==
  ASSUME TypeInv, [Next]_vars, NEW o \in Outs
  PROVE  \/ index'[o] = index[o]
         \/ index'[o] = "torn"
         \/ \E j \in Jobs : FillIndex(j) /\ Out[j] = o /\ index'[o] = seen[j]
<1>1. ASSUME NEW j \in Jobs, FillIndex(j)
      PROVE  index'[o] = index[o] \/ (Out[j] = o /\ index'[o] = seen[j])
  BY <1>1 DEF FillIndex, TypeInv, TypeOK
<1>2. ASSUME NEW j \in Jobs, CreateIndex(j)
      PROVE  index'[o] = index[o] \/ index'[o] = "torn"
  BY <1>2 DEF CreateIndex, TypeInv, TypeOK
<1>3. \/ UNCHANGED index
      \/ \E j \in Jobs : CreateIndex(j) \/ FillIndex(j)
  BY DEF Next, vars, BuildStep, Check, Stage, StatFile, Create, Fill, Rename,
     CreateManifest, FillManifest, IndexStep, Fail, Resolve, ReadFooters,
     OpenStep, ReadLast, Attach, LoadIndex, ReadCollections
<1> QED
  BY <1>1, <1>2, <1>3

(* No step makes a sidecar list a file that is not there in full. *)
LEMMA IndexedWholeStep ==
  TypeInv /\ Unwritten /\ IndexedWhole /\ [Next]_vars => IndexedWhole'
<1> SUFFICES ASSUME TypeInv, Unwritten, IndexedWhole, [Next]_vars
             PROVE  IndexedWhole'
  OBVIOUS
<1>1. ASSUME NEW j \in Jobs, pc'[j] \in {"index", "fillIndex", "done"}
      PROVE  Readable(seen[j])' /\ seen'[j] = seen[j]
  <2>1. seen'[j] = seen[j] /\ seen[j] \in Builds /\ Readable(seen[j])
    BY <1>1, AfterFooters DEF IndexedWhole
  <2>2. \A b \in Builds : Readable(b) => Readable(b)'
    BY SnapshotStays
  <2> QED
    BY <2>1, <2>2 DEF Readable
<1>2. ASSUME NEW o \in Outs, index'[o] \in Builds PROVE Readable(index[o])'
  <2>1. CASE index'[o] = index[o]
    <3>1. Readable(index[o])
      BY <1>2, <2>1 DEF IndexedWhole, IndexedIsWhole
    <3>2. \A b \in Builds : Readable(b) => Readable(b)'
      BY SnapshotStays
    <3> QED
      BY <1>2, <2>1, <3>1, <3>2 DEF Readable
  <2>2. ASSUME NEW j \in Jobs, FillIndex(j), Out[j] = o, index'[o] = seen[j]
        PROVE  Readable(index[o])'
    <3>1. pc[j] = "fillIndex" /\ file' = file
      BY <2>2 DEF FillIndex
    <3>2. Readable(seen[j])
      BY <3>1 DEF IndexedWhole
    <3> QED
      BY <2>2, <3>1, <3>2 DEF Readable
  <2>3. index'[o] # "torn"
    BY <1>2, PublishAssumption DEF PublishAssumption
  <2> QED
    BY <2>1, <2>2, <2>3, IndexMoves
<1> QED
  BY <1>1, <1>2 DEF IndexedWhole, IndexedIsWhole

(* The invariant of shared files, with what is listed of them. *)
LEMMA SpecIndexed ==
  ASSUME Ordered
  PROVE  Spec => [](TypeInv /\ InTurn /\ Unwritten /\ IndexedWhole)
<1>1. Init => IndexedWhole
  BY PublishAssumption, Places DEF PublishAssumption, Init, IndexedWhole, IndexedIsWhole
<1> QED
  BY <1>1, IndexedWholeStep, SpecUnwritten, PTL DEF Spec

(***************************************************************************)
(* A sidecar that parses is about files that are all there, in full, also  *)
(* when a retry skipped what a build before it left torn: the footers of   *)
(* all files are read first, and what is whole stays whole.                *)
(***************************************************************************)
THEOREM IndexComesLast ==
  ASSUME Ordered
  PROVE  Spec => []IndexedIsWhole
<1>1. IndexedWhole => IndexedIsWhole
  BY DEF IndexedWhole
<1> QED
  BY <1>1, SpecIndexed, PTL

-----------------------------------------------------------------------------
(* A path as a snapshot store *)

Published == {"manifest", "fillManifest", "resolve", "footers", "index",
              "fillIndex", "done"}

(***************************************************************************)
(* With one writer at a time, what was ever read of a path, what its       *)
(* sidecar lists and what its build published are one and the same.        *)
(***************************************************************************)
SamePath ==
  /\ \A p \in Jobs \cup Readers : seen[p] \in Builds => catalog[Out[p]] = seen[p]
  /\ \A o \in Outs : index[o] \in Builds => catalog[o] = index[o]
  /\ \A b \in Builds : pc[b] \in Published => catalog[Out[b]] = b

(* A process attaches what its path holds. *)
LEMMA SeenMoves ==
  ASSUME TypeInv, [Next]_vars, NEW p \in Jobs \cup Readers
  PROVE  \/ seen'[p] = seen[p]
         \/ seen'[p] = catalog[Out[p]] /\ catalog' = catalog
<1> USE DEF TypeInv, TypeOK
<1>1. ASSUME NEW j \in Jobs, Resolve(j)
      PROVE  seen'[p] = seen[p] \/ (seen'[p] = catalog[Out[p]] /\ catalog' = catalog)
  BY <1>1 DEF Resolve
<1>2. ASSUME NEW r \in Readers, Attach(r)
      PROVE  seen'[p] = seen[p] \/ (seen'[p] = catalog[Out[p]] /\ catalog' = catalog)
  BY <1>2 DEF Attach
<1>3. \/ UNCHANGED seen
      \/ \E j \in Jobs : Resolve(j)
      \/ \E r \in Readers : Attach(r)
  BY DEF Next, vars, BuildStep, Check, Stage, StatFile, Create, Fill, Rename,
     CreateManifest, FillManifest, IndexStep, Fail, ReadFooters, CreateIndex,
     FillIndex, OpenStep, ReadLast, LoadIndex, ReadCollections
<1> QED
  BY <1>1, <1>2, <1>3

(* A build publishes by renaming its catalog. *)
LEMMA PublishedMoves ==
  ASSUME TypeInv, [Next]_vars, NEW b \in Builds, pc'[b] \in Published
  PROVE  pc[b] \in Published \/ Rename(b)
<1> USE DEF TypeInv, TypeOK, Published
<1>1. CASE UNCHANGED vars
  BY <1>1 DEF vars
<1>2. ASSUME NEW c \in Builds, c # b, BuildStep(c) PROVE pc'[b] = pc[b]
  BY <1>2, Places DEF BuildStep, Check, Stage, StatFile, Create, Fill, Rename,
       CreateManifest, FillManifest, Advance, Goto
<1>3. ASSUME NEW c \in Jobs, c # b, IndexStep(c) \/ Fail(c) PROVE pc'[b] = pc[b]
  BY <1>3, Places DEF IndexStep, Fail, Resolve, ReadFooters, CreateIndex,
       FillIndex, Goto
<1>4. ASSUME NEW r \in Readers, OpenStep(r) PROVE pc'[b] = pc[b]
  BY <1>4, Places DEF OpenStep, ReadLast, Attach, LoadIndex, ReadCollections, Goto
<1>5. CASE BuildStep(b)
  BY <1>5, Places DEF BuildStep, Check, Stage, StatFile, Create, Fill,
       CreateManifest, FillManifest, Advance, Goto
<1>6. CASE IndexStep(b) \/ Fail(b)
  BY <1>6, Places DEF IndexStep, Fail, Resolve, ReadFooters, CreateIndex,
       FillIndex, Goto
<1> QED
  BY <1>1, <1>2, <1>3, <1>4, <1>5, <1>6, Places DEF Next

(* No step parts a path from what was read of it. *)
LEMMA SamePathStep ==
  TypeInv /\ PathIsFree /\ SamePath /\ [Next]_vars => SamePath'
<1> SUFFICES ASSUME TypeInv, PathIsFree, SamePath, [Next]_vars
             PROVE  SamePath'
  OBVIOUS
<1>n. None \notin Builds /\ "torn" \notin Builds
  BY PublishAssumption DEF PublishAssumption
<1>c. \A o \in Outs : catalog[o] # None => catalog'[o] = catalog[o]
  BY CatalogKept
<1>1. ASSUME NEW p \in Jobs \cup Readers, seen'[p] \in Builds
      PROVE  catalog'[Out[p]] = seen'[p]
  <2>1. Out[p] \in Outs
    BY PublishAssumption DEF PublishAssumption
  <2> QED
    BY <1>1, <1>n, <1>c, <2>1, SeenMoves DEF SamePath
<1>2. ASSUME NEW o \in Outs, index'[o] \in Builds
      PROVE  catalog'[o] = index'[o]
  <2>1. ASSUME NEW j \in Jobs, FillIndex(j), Out[j] = o, index'[o] = seen[j]
        PROVE  catalog[o] = index'[o] /\ catalog' = catalog
    BY <1>2, <2>1 DEF FillIndex, SamePath
  <2> QED
    BY <1>2, <1>n, <1>c, <2>1, IndexMoves DEF SamePath
<1>3. ASSUME NEW b \in Builds, pc'[b] \in Published
      PROVE  catalog'[Out[b]] = b
  <2>1. CASE pc[b] \in Published
    BY <1>n, <1>c, <2>1, Places DEF SamePath
  <2>2. CASE Rename(b)
    BY <2>2, Places DEF Rename, TypeInv, TypeOK
  <2> QED
    BY <1>3, <2>1, <2>2, PublishedMoves
<1> QED
  BY <1>1, <1>2, <1>3 DEF SamePath

(* A snapshot that a reader prunes files of has all of them. *)
PrunedWhole == \A r \in Readers : served[r] # None => seen[r] \in Builds /\ Readable(seen[r])

(* Everything the histories of one writer per path, one build of a file at *)
(* a time, have in common.                                                 *)
StoreInv ==
  /\ TypeInv /\ PathIsFree /\ InTurn /\ Unwritten
  /\ IndexedWhole /\ SamePath /\ PrunedWhole

(* A reader trusts the sidecar it has loaded, and keeps what it has open. *)
LEMMA ServedMoves ==
  ASSUME TypeInv, [Next]_vars, NEW r \in Readers, served'[r] # None
  PROVE  \/ served'[r] = served[r] /\ seen'[r] \in {seen[r], catalog[Out[r]]}
         \/ /\ LoadIndex(r) /\ seen' = seen /\ file' = file
            /\ served'[r] = index[Out[r]] /\ index[Out[r]] \in Builds
            /\ seen[r] \in Builds
<1> USE DEF TypeInv, TypeOK
<1>1. CASE LoadIndex(r)
  BY <1>1 DEF LoadIndex, Attached
<1>2. ASSUME NEW q \in Readers, LoadIndex(q), q # r PROVE served'[r] = served[r]
  BY <1>2 DEF LoadIndex
<1>3. UNCHANGED served \/ \E q \in Readers : LoadIndex(q)
  BY DEF Next, vars, BuildStep, Check, Stage, StatFile, Create, Fill, Rename,
     CreateManifest, FillManifest, IndexStep, Fail, Resolve, ReadFooters,
     CreateIndex, FillIndex, OpenStep, ReadLast, Attach, ReadCollections
<1>4. seen'[r] \in {seen[r], catalog[Out[r]]}
  BY SeenMoves
<1> QED
  BY <1>1, <1>2, <1>3, <1>4

(* A path under one writer has one snapshot, so pruning stays sound. *)
LEMMA PrunedWholeStep == StoreInv /\ [Next]_vars => PrunedWhole'
<1> SUFFICES ASSUME StoreInv, [Next]_vars, NEW r \in Readers, served'[r] # None
             PROVE  seen'[r] \in Builds /\ Readable(seen[r])'
  BY DEF PrunedWhole
<1> USE DEF StoreInv
<1>1. \A b \in Builds : Readable(b) => Readable(b)'
  BY SnapshotStays
<1>2. CASE served'[r] = served[r] /\ seen'[r] \in {seen[r], catalog[Out[r]]}
  <2>1. seen[r] \in Builds /\ Readable(seen[r]) /\ catalog[Out[r]] = seen[r]
    BY <1>2 DEF PrunedWhole, SamePath
  <2> QED
    BY <1>1, <1>2, <2>1 DEF Readable
<1>3. CASE /\ LoadIndex(r) /\ seen' = seen /\ file' = file
           /\ index[Out[r]] \in Builds /\ seen[r] \in Builds
  <2>1. Out[r] \in Outs
    BY Places
  <2>2. seen[r] = index[Out[r]]
    BY <1>3, <2>1 DEF SamePath
  <2>3. Readable(seen[r])
    BY <1>3, <2>1, <2>2 DEF IndexedWhole, IndexedIsWhole
  <2> QED
    BY <1>3, <2>3 DEF Readable
<1> QED
  BY <1>2, <1>3, ServedMoves

(* The whole of it is inductive. *)
LEMMA SpecStore ==
  ASSUME Serial, Ordered
  PROVE  Spec => []StoreInv
<1>1. Init => SamePath /\ PrunedWhole
  BY PublishAssumption DEF PublishAssumption, Init, SamePath, PrunedWhole, Published, Jobs
<1>2. StoreInv /\ [Next]_vars => SamePath' /\ PrunedWhole'
  BY SamePathStep, PrunedWholeStep DEF StoreInv
<1>3. StoreInv <=> /\ TypeInv /\ PathIsFree /\ InTurn /\ Unwritten
                   /\ IndexedWhole /\ SamePath /\ PrunedWhole
  BY DEF StoreInv
<1> QED
  BY <1>1, <1>2, <1>3, SpecIndexed, SpecPathIsFree, PTL DEF Spec


(* With unique names and a working os.Stat, data comes before the catalog. *)
DataComesFirst == Unshared /\ StatFails = {} => Inv

(* The paths start as an empty store. *)
LEMMA StoreInit == Init => Store!Init
<1> SUFFICES ASSUME Init PROVE Store!Init
  OBVIOUS
<1>1. [o \in Outs |-> IF index[o] \in Builds THEN index[o] ELSE None]
        = [o \in Outs |-> None]
  BY PublishAssumption DEF PublishAssumption, Init
<1>2. [r \in Readers |-> seen[r]] = [r \in Readers |-> None]
  BY DEF Init
<1>3. {r \in Readers : served[r] # None} = {}
  BY DEF Init
<1> QED
  BY <1>1, <1>2, <1>3 DEF Init, Store!Init

(* Copying, failing, reading footers and the like: data files may arrive.  *)
LEMMA QuietStep ==
  ASSUME StoreInv, [Next]_vars, UNCHANGED <<catalog, index, served>>,
         \A r \in Readers : seen'[r] = seen[r]
  PROVE  Store!Next
<1> DEFINE S == {b \in Builds : Readable(b)'}
<1>1. {b \in Builds : Readable(b)'} = {b \in Builds : Readable(b)} \cup S
  BY SnapshotStays DEF StoreInv
<1>2. [r \in Readers |-> seen'[r]] = [r \in Readers |-> seen[r]]
  OBVIOUS
<1>3. Store!Arrive(S)
  BY <1>1, <1>2 DEF Store!Arrive
<1>4. S \in SUBSET Builds
  OBVIOUS
<1> QED
  BY <1>3, <1>4 DEF Store!Next

(* os.Rename publishes a build at a path that is free. *)
LEMMA RenamePublishes ==
  ASSUME StoreInv, DataComesFirst, NEW b \in Builds, Rename(b)
  PROVE  Store!Next
<1> USE DEF StoreInv, TypeInv, TypeOK
<1>1. Out[b] \in Outs
  BY Places
<1>2. catalog[Out[b]] = None
  BY DEF Rename, PathIsFree
<1>3. Unshared /\ StatFails = {} => b \in {a \in Builds : Readable(a)}
  BY PastIsWhole, FeatureFiles DEF Rename, DataComesFirst, Inv, CatalogLast
<1>4. UNCHANGED <<file, index, seen, served>>
  BY DEF Rename
<1>5. catalog' = [catalog EXCEPT ![Out[b]] = b]
  BY DEF Rename
<1>6. {a \in Builds : Readable(a)'} = {a \in Builds : Readable(a)}
  BY <1>4 DEF Readable
<1>7. Store!Publish(Out[b], b)
  BY <1>2, <1>3, <1>4, <1>5, <1>6 DEF Store!Publish
<1> QED
  BY <1>1, <1>7 DEF Store!Next

(* Writing the sidecar takes the old one away, then lists the snapshot. *)
LEMMA IndexLists ==
  ASSUME StoreInv, NEW j \in Jobs, CreateIndex(j) \/ FillIndex(j)
  PROVE  Store!Next
<1> USE DEF StoreInv, TypeInv, TypeOK
<1> DEFINE Listed(idx) == [o \in Outs |-> IF idx[o] \in Builds THEN idx[o] ELSE None]
<1>1. Out[j] \in Outs
  BY Places
<1>2. UNCHANGED <<file, catalog, seen, served>>
  BY DEF CreateIndex, FillIndex
<1>3. {b \in Builds : Readable(b)'} = {b \in Builds : Readable(b)}
  BY <1>2 DEF Readable
<1>4. CASE CreateIndex(j)
  <2>1. index' = [index EXCEPT ![Out[j]] = "torn"] /\ "torn" \notin Builds
    BY <1>4, PublishAssumption DEF PublishAssumption, CreateIndex
  <2>2. Listed(index') = [Listed(index) EXCEPT ![Out[j]] = None]
    BY <1>1, <2>1
  <2>3. Store!Unlist(Out[j])
    BY <1>2, <1>3, <2>2 DEF Store!Unlist
  <2> QED
    BY <1>1, <2>3 DEF Store!Next
<1>5. CASE FillIndex(j)
  <2>1. index' = [index EXCEPT ![Out[j]] = seen[j]] /\ pc[j] = "fillIndex"
    BY <1>5 DEF FillIndex
  <2>2. seen[j] \in Builds /\ Readable(seen[j])
    BY <2>1 DEF Attached, IndexedWhole
  <2>3. catalog[Out[j]] = seen[j]
    BY <2>2 DEF SamePath
  <2>4. Listed(index') = [Listed(index) EXCEPT ![Out[j]] = catalog[Out[j]]]
    BY <1>1, <2>1, <2>2, <2>3
  <2>5. Store!List(Out[j])
    BY <1>2, <1>3, <2>2, <2>3, <2>4 DEF Store!List
  <2> QED
    BY <1>1, <2>5 DEF Store!Next
<1> QED
  BY <1>4, <1>5

(* Attaching opens the snapshot of the path... *)
LEMMA AttachOpens ==
  ASSUME StoreInv, [Next]_vars, NEW r \in Readers, Attach(r)
  PROVE  Store!Next
<1> USE DEF StoreInv, TypeInv, TypeOK
<1> DEFINE Opened(s) == [q \in Readers |-> s[q]]
<1>1. /\ seen[r] = None /\ catalog[Out[r]] \in Builds /\ None \notin Builds
      /\ UNCHANGED <<file, catalog, index, served>>
  BY PublishAssumption DEF PublishAssumption, Attach, Attached
<1>2. CASE seen' = [seen EXCEPT ![r] = catalog[Out[r]]]
  <2>1. {b \in Builds : Readable(b)'} = {b \in Builds : Readable(b)}
    BY <1>1 DEF Readable
  <2>2. Opened(seen') = [Opened(seen) EXCEPT ![r] = catalog[Out[r]]]
    BY <1>2, Places
  <2>3. Store!Open(r)
    BY <1>1, <2>1, <2>2 DEF Store!Open
  <2> QED
    BY <2>3 DEF Store!Next
<1>3. CASE seen' = seen
  BY <1>1, <1>3, QuietStep
<1> QED
  BY <1>2, <1>3 DEF Attach

(* ...and a sidecar that agrees is the one of that snapshot. *)
LEMMA LoadPrunes ==
  ASSUME StoreInv, [Next]_vars, NEW r \in Readers, LoadIndex(r)
  PROVE  Store!Next
<1> USE DEF StoreInv, TypeInv, TypeOK
<1>1. /\ served[r] = None /\ seen[r] \in Builds /\ Out[r] \in Outs
      /\ None \notin Builds
      /\ UNCHANGED <<file, catalog, index, seen>>
  BY Places, PublishAssumption DEF PublishAssumption, LoadIndex, Attached
<1>2. CASE served'[r] = None
  <2>1. served' = served
    BY <1>1, <1>2 DEF LoadIndex
  <2> QED
    BY <1>1, <2>1, QuietStep
<1>3. CASE served'[r] # None
  <2>1. /\ served' = [served EXCEPT ![r] = index[Out[r]]]
        /\ index[Out[r]] \in Builds
    BY <1>3 DEF LoadIndex
  <2>2. index[Out[r]] = seen[r]
    BY <1>1, <2>1 DEF SamePath
  <2>3. {b \in Builds : Readable(b)'} = {b \in Builds : Readable(b)}
    BY <1>1 DEF Readable
  <2>4. {q \in Readers : served'[q] # None} = {q \in Readers : served[q] # None} \cup {r}
    BY <1>1, <2>1
  <2>5. Store!Prune(r)
    BY <1>1, <2>1, <2>2, <2>3, <2>4 DEF Store!Prune
  <2> QED
    BY <2>5 DEF Store!Next
<1> QED
  BY <1>2, <1>3

(* Every step of publication is one of the store, or none. *)
LEMMA StoreStep ==
  StoreInv /\ DataComesFirst /\ [Next]_vars => [Store!Next]_(Store!vars)
<1> SUFFICES ASSUME StoreInv, DataComesFirst, [Next]_vars
             PROVE  Store!Next
  OBVIOUS
<1>0. CASE UNCHANGED vars
  BY <1>0, QuietStep DEF vars
<1>1. ASSUME NEW b \in Builds, BuildStep(b), ~Rename(b) PROVE Store!Next
  <2>1. UNCHANGED <<catalog, index, served, seen>>
    BY <1>1 DEF BuildStep, Check, Stage, StatFile, Create, Fill, CreateManifest,
         FillManifest
  <2> QED
    BY <2>1, QuietStep
<1>2. ASSUME NEW j \in Jobs, Resolve(j) \/ ReadFooters(j) \/ Fail(j) PROVE Store!Next
  <2>1. /\ UNCHANGED <<catalog, index, served>>
        /\ \A r \in Readers : seen'[r] = seen[r]
    BY <1>2, Places DEF Resolve, ReadFooters, Fail, StoreInv, TypeInv, TypeOK
  <2> QED
    BY <2>1, QuietStep
<1>3. ASSUME NEW r \in Readers, ReadLast(r) \/ ReadCollections(r) PROVE Store!Next
  BY <1>3, QuietStep DEF ReadLast, ReadCollections
<1> QED
  BY <1>0, <1>1, <1>2, <1>3, RenamePublishes, IndexLists, AttachOpens, LoadPrunes
  DEF Next, IndexStep, OpenStep

(***************************************************************************)
(* Publication implements the store: with one writer at a time per path,   *)
(* and builds with files in common one after another, whatever fails, dies *)
(* or is retried, a path that holds a snapshot holds it for good, no data  *)
(* file that is there goes, an index lists the whole snapshot of its path, *)
(* and readers open and prune that snapshot only.  With unique names no    *)
(* catalog is published before its data.                                   *)
(***************************************************************************)
THEOREM PublishImplementsStore ==
  ASSUME Serial, Ordered
  PROVE  Spec => ImplementsStore
<1>1. Spec => []DataComesFirst
  <2>1. CASE Unshared /\ StatFails = {}
    <3>1. Inv => DataComesFirst
      BY DEF DataComesFirst
    <3> QED
      BY <2>1, <3>1, SpecInv, PTL
  <2>2. CASE ~(Unshared /\ StatFails = {})
    <3>1. DataComesFirst
      BY <2>2 DEF DataComesFirst
    <3> QED
      BY <3>1, PTL
  <2> QED
    BY <2>1, <2>2
<1> QED
  BY <1>1, StoreInit, StoreStep, SpecStore, PTL DEF Spec, ImplementsStore, Store!Spec

(***************************************************************************)
(* What a server has open is the snapshot at its path for as long as it    *)
(* serves, and one that it serves through an index has all its files.      *)
(***************************************************************************)
THEOREM ReadersArePromised ==
  ASSUME Serial, Ordered
  PROVE  Spec => []Store!Promise
<1>1. StoreInv => Store!Promise
  <2> SUFFICES ASSUME StoreInv, NEW r \in Readers
               PROVE  /\ seen[r] # None => seen[r] = catalog[Out[r]]
                      /\ served[r] # None => seen[r] \in {b \in Builds : Readable(b)}
    BY DEF Store!Promise
  <2>1. seen[r] # None => seen[r] \in Builds
    BY Places DEF StoreInv, TypeInv, TypeOK
  <2> QED
    BY <2>1, Places DEF StoreInv, SamePath, PrunedWhole
<1> QED
  BY <1>1, SpecStore, PTL

-----------------------------------------------------------------------------
(* What a build that succeeds leaves *)

AfterManifest == {"resolve", "footers", "index", "fillIndex", "done"}

(* A build that is past its manifest has it on its path, and one that is   *)
(* done its index.                                                         *)
Beside ==
  \A b \in Builds : /\ pc[b] \in AfterManifest => manifest[Out[b]] = b
                    /\ pc[b] = "done" => Indexed(b)

(* How manifests change. *)
LEMMA ManifestMoves ==
  ASSUME TypeInv, [Next]_vars, NEW o \in Outs
  PROVE  \/ manifest'[o] = manifest[o]
         \/ \E b \in Builds : Out[b] = o /\ pc[b] \in {"manifest", "fillManifest"}
<1>1. ASSUME NEW b \in Builds, CreateManifest(b) \/ FillManifest(b)
      PROVE  \/ manifest'[o] = manifest[o]
             \/ Out[b] = o /\ pc[b] \in {"manifest", "fillManifest"}
  BY <1>1 DEF CreateManifest, FillManifest, TypeInv, TypeOK
<1>2. \/ UNCHANGED manifest
      \/ \E b \in Builds : CreateManifest(b) \/ FillManifest(b)
  BY DEF Next, vars, BuildStep, Check, Stage, StatFile, Create, Fill, Rename,
     IndexStep, Fail, Resolve, ReadFooters, CreateIndex, FillIndex, OpenStep,
     ReadLast, Attach, LoadIndex, ReadCollections
<1> QED
  BY <1>1, <1>2

(* A job writes its manifest, and then its index, and is done. *)
LEMMA LabelMoves ==
  ASSUME TypeInv, [Next]_vars, NEW j \in Jobs
  PROVE  /\ j \in Builds /\ pc'[j] \in AfterManifest =>
              pc[j] \in AfterManifest \/ FillManifest(j)
         /\ pc'[j] = "done" => pc[j] = "done" \/ FillIndex(j)
         /\ pc[j] \in {"fillIndex", "failed"} =>
              pc'[j] \in {"fillIndex", "failed"} \/ FillIndex(j)
         /\ CreateIndex(j) => pc'[j] = "fillIndex"
<1> USE DEF TypeInv, TypeOK, AfterManifest
<1>0. CreateIndex(j) => pc'[j] = "fillIndex"
  BY Places DEF CreateIndex, Goto
<1>1. CASE pc'[j] = pc[j]
  BY <1>0, <1>1
<1>2. ASSUME NEW c \in Builds, c # j, BuildStep(c) PROVE pc'[j] = pc[j]
  BY <1>2, Places DEF BuildStep, Check, Stage, StatFile, Create, Fill, Rename,
       CreateManifest, FillManifest, Advance, Goto
<1>3. ASSUME NEW c \in Jobs, c # j, IndexStep(c) \/ Fail(c) PROVE pc'[j] = pc[j]
  BY <1>3, Places DEF IndexStep, Fail, Resolve, ReadFooters, CreateIndex,
       FillIndex, Goto
<1>4. ASSUME NEW r \in Readers, OpenStep(r) PROVE pc'[j] = pc[j]
  BY <1>4, Places DEF OpenStep, ReadLast, Attach, LoadIndex, ReadCollections, Goto
<1>5. CASE BuildStep(j)
  BY <1>0, <1>5, Places DEF BuildStep, Check, Stage, StatFile, Create, Fill,
       Rename, CreateManifest, FillManifest, Advance, Goto
<1>6. CASE IndexStep(j) \/ Fail(j)
  BY <1>0, <1>6, Places DEF IndexStep, Fail, Resolve, ReadFooters, CreateIndex,
       FillIndex, Goto, Over
<1> QED
  BY <1>1, <1>2, <1>3, <1>4, <1>5, <1>6, Places DEF Next, vars

(* Of the builds of a path only one gets as far as its manifest. *)
LEMMA OnePublishes ==
  ASSUME SamePath, NEW a \in Builds, NEW b \in Builds, Out[a] = Out[b],
         pc[a] \in Published, pc[b] \in Published
  PROVE  a = b
BY DEF SamePath

(* No step takes manifest or index from a build that has succeeded. *)
LEMMA BesideStep == StoreInv /\ Beside /\ [Next]_vars => Beside'
<1> SUFFICES ASSUME StoreInv, Beside, [Next]_vars, NEW b \in Builds
             PROVE  /\ pc'[b] \in AfterManifest => manifest'[Out[b]] = b
                    /\ pc'[b] = "done" => Indexed(b)'
  BY DEF Beside
<1> USE DEF StoreInv
<1>p. b \in Jobs /\ b \in Jobs \cup Readers /\ Out[b] \in Outs
  BY Places
<1>1. ASSUME pc'[b] \in AfterManifest PROVE manifest'[Out[b]] = b
  <2>1. CASE FillManifest(b)
    BY <1>p, <2>1 DEF FillManifest, TypeInv, TypeOK
  <2>2. CASE pc[b] \in AfterManifest
    <3>1. ASSUME NEW a \in Builds, Out[a] = Out[b],
                 pc[a] \in {"manifest", "fillManifest"}
          PROVE  FALSE
      BY <2>2, <3>1, OnePublishes DEF Published, AfterManifest
    <3> QED
      BY <1>p, <2>2, <3>1, ManifestMoves DEF Beside
  <2> QED
    BY <1>1, <1>p, <2>1, <2>2, LabelMoves
<1>2. ASSUME pc'[b] = "done" PROVE Indexed(b)'
  <2>1. CASE FillIndex(b)
    <3>1. seen[b] = b
      BY <1>p, <2>1 DEF FillIndex, SamePath, Published, TypeInv, Attached
    <3>2. index'[Out[b]] = seen[b]
      BY <1>p, <2>1 DEF FillIndex, TypeInv, TypeOK
    <3> QED
      BY <3>1, <3>2 DEF Indexed
  <2>2. CASE pc[b] = "done" /\ UNCHANGED index
    <3>1. CASE index[Out[b]] = b
      BY <2>2, <3>1 DEF Indexed
    <3>2. CASE index[Out[b]] # b
      <4>1. PICK x \in Reindexes : Out[x] = Out[b] /\ pc[x] \in {"fillIndex", "failed"}
        BY <2>2, <3>2 DEF Beside, Indexed
      <4>2. x \in Jobs
        BY DEF Jobs
      <4>3. CASE FillIndex(x)
        <5>1. seen[x] = b /\ Out[x] \in Outs
          BY <2>2, <4>1, <4>2, <4>3, <1>p, Places
          DEF FillIndex, SamePath, Published, TypeInv, Attached
        <5>2. index'[Out[b]] = b
          BY <4>1, <4>3, <5>1 DEF FillIndex, TypeInv, TypeOK
        <5> QED
          BY <5>2 DEF Indexed
      <4>4. CASE pc'[x] \in {"fillIndex", "failed"}
        BY <2>2, <3>2, <4>1, <4>4 DEF Beside, Indexed
      <4> QED
        BY <4>1, <4>2, <4>3, <4>4, LabelMoves
    <3> QED
      BY <3>1, <3>2
  <2>3. ASSUME pc[b] = "done", NEW j \in Jobs, CreateIndex(j) PROVE Indexed(b)'
    <3>1. CASE Out[j] = Out[b]
      <4>1. j \in Reindexes
        BY <2>3, <3>1, OnePublishes DEF CreateIndex, Published, Jobs
      <4>2. index'[Out[b]] = "torn" /\ pc'[j] = "fillIndex"
        BY <1>p, <2>3, <3>1, LabelMoves DEF CreateIndex, TypeInv, TypeOK
      <4> QED
        BY <3>1, <4>1, <4>2 DEF Indexed
    <3>2. CASE Out[j] # Out[b]
      <4>1. index'[Out[b]] = index[Out[b]]
        BY <2>3, <3>2 DEF CreateIndex
      <4>2. \A x \in Reindexes : pc[x] \in {"fillIndex", "failed"} => pc'[x] = pc[x]
        BY <2>3, Places DEF CreateIndex, Goto, TypeInv, TypeOK, Jobs
      <4> QED
        BY <2>3, <4>1, <4>2 DEF Beside, Indexed
    <3> QED
      BY <3>1, <3>2
  <2>4. ASSUME pc[b] = "done", NEW j \in Jobs, FillIndex(j) PROVE Indexed(b)'
    <3>1. CASE Out[j] = Out[b]
      <4>1. seen[j] = b
        BY <1>p, <2>4, <3>1, Places
        DEF FillIndex, SamePath, Published, TypeInv, Attached
      <4>2. index'[Out[b]] = b
        BY <1>p, <2>4, <3>1, <4>1 DEF FillIndex, TypeInv, TypeOK
      <4> QED
        BY <4>2 DEF Indexed
    <3>2. CASE Out[j] # Out[b]
      <4>1. index'[Out[b]] = index[Out[b]]
        BY <2>4, <3>2 DEF FillIndex
      <4>2. \A x \in Reindexes : Out[x] = Out[b] => pc'[x] = pc[x]
        BY <2>4, <3>2, Places DEF FillIndex, Goto, TypeInv, TypeOK, Jobs
      <4> QED
        BY <2>4, <4>1, <4>2 DEF Beside, Indexed
    <3> QED
      BY <3>1, <3>2
  <2>5. UNCHANGED index \/ \E j \in Jobs : CreateIndex(j) \/ FillIndex(j)
    BY DEF Next, vars, BuildStep, Check, Stage, StatFile, Create, Fill, Rename,
       CreateManifest, FillManifest, IndexStep, Fail, Resolve, ReadFooters,
       OpenStep, ReadLast, Attach, LoadIndex, ReadCollections
  <2> QED
    BY <1>2, <1>p, <2>1, <2>2, <2>3, <2>4, <2>5, LabelMoves
<1> QED
  BY <1>1, <1>2

(* Half a file is one that a build is writing, or that a dead one left. *)
TornByBuild ==
  \A n \in Names : file[n] = "torn" =>
    \E a \in Builds : /\ \E i \in DOMAIN Tree[a] : Tree[a][i] = n
                      /\ \/ pc[a] = "failed"
                         \/ pc[a] = "fill" /\ Current(a) = n

(* publishTree passes a file that is whole, or does not notice. *)
Passed ==
  \A b \in Builds : \A i \in DOMAIN Tree[b] :
    i < pos[b] => file[Tree[b][i]] = "whole" \/ Unnoticed(b, Tree[b][i])

(* A build that is filling a file stays there, fills it or fails. *)
LEMMA FillMoves ==
  ASSUME TypeInv, [Next]_vars, NEW a \in Builds, pc[a] = "fill"
  PROVE  \/ pc'[a] = "fill" /\ pos'[a] = pos[a]
         \/ pc'[a] = "failed"
         \/ Fill(a)
<1> USE DEF TypeInv, TypeOK
<1>1. CASE UNCHANGED vars
  BY <1>1 DEF vars
<1>2. ASSUME NEW c \in Builds, c # a, BuildStep(c)
      PROVE  pc'[a] = pc[a] /\ pos'[a] = pos[a]
  BY <1>2, Places DEF BuildStep, Check, Stage, StatFile, Create, Fill, Rename,
       CreateManifest, FillManifest, Advance, Goto
<1>3. ASSUME NEW c \in Jobs, c # a, IndexStep(c) \/ Fail(c)
      PROVE  pc'[a] = pc[a] /\ pos'[a] = pos[a]
  BY <1>3, Places DEF IndexStep, Fail, Resolve, ReadFooters, CreateIndex,
       FillIndex, Goto
<1>4. ASSUME NEW r \in Readers, OpenStep(r) PROVE pc'[a] = pc[a] /\ pos'[a] = pos[a]
  BY <1>4, Places DEF OpenStep, ReadLast, Attach, LoadIndex, ReadCollections, Goto
<1>5. CASE BuildStep(a)
  BY <1>5 DEF BuildStep, Check, Stage, StatFile, Create, Rename,
       CreateManifest, FillManifest
<1>6. CASE IndexStep(a) \/ Fail(a)
  BY <1>6, Places DEF IndexStep, Fail, Resolve, ReadFooters, CreateIndex,
       FillIndex, Goto
<1> QED
  BY <1>1, <1>2, <1>3, <1>4, <1>5, <1>6, Places DEF Next

(* Only os.WriteFile tears a file. *)
LEMMA TornByBuildStep == TypeInv /\ TornByBuild /\ [Next]_vars => TornByBuild'
<1> SUFFICES ASSUME TypeInv, TornByBuild, [Next]_vars,
                    NEW n \in Names, file'[n] = "torn"
             PROVE  \E a \in Builds :
                      /\ \E i \in DOMAIN Tree[a] : Tree[a][i] = n
                      /\ \/ pc'[a] = "failed"
                         \/ pc'[a] = "fill" /\ Tree[a][pos'[a]] = n
  BY DEF TornByBuild, Current
<1> USE DEF TypeInv
<1>1. CASE file[n] = "torn"
  <2>1. PICK a \in Builds : /\ \E i \in DOMAIN Tree[a] : Tree[a][i] = n
                            /\ \/ pc[a] = "failed"
                               \/ pc[a] = "fill" /\ Current(a) = n
    BY <1>1 DEF TornByBuild
  <2>2. CASE pc[a] = "failed"
    BY <2>1, <2>2, BuildMoves DEF Over
  <2>3. CASE pc[a] = "fill" /\ Current(a) = n
    <3>1. ~Fill(a)
      BY <2>3 DEF Fill, TypeOK
    <3> QED
      BY <2>1, <2>3, <3>1, FillMoves DEF Current
  <2> QED
    BY <2>1, <2>2, <2>3
<1>2. CASE file[n] # "torn"
  <2>1. PICK b \in Builds : Create(b)
    BY <1>2, FileSteps DEF Fill, TypeOK
  <2>2. Current(b) = n /\ pc'[b] = "fill" /\ pos' = pos
    BY <1>2, <2>1, Places DEF Create, Goto, TypeOK
  <2>3. Left(b)
    BY <2>1 DEF Create, Positions
  <2> QED
    BY <2>2, <2>3 DEF Left, Current
<1> QED
  BY <1>1, <1>2

(* The file that publishTree moves past is whole, or goes unnoticed. *)
LEMMA PassedStep ==
  ASSUME Ordered
  PROVE  TypeInv /\ InTurn /\ Unwritten /\ TornByBuild /\ Passed /\ [Next]_vars
           => Passed'
<1> SUFFICES ASSUME TypeInv, InTurn, Unwritten, TornByBuild, Passed, [Next]_vars,
                    NEW b \in Builds, NEW i \in DOMAIN Tree[b], i < pos'[b]
             PROVE  file'[Tree[b][i]] = "whole" \/ Unnoticed(b, Tree[b][i])'
  BY DEF Passed
<1> USE DEF TypeInv
<1> DEFINE n == Tree[b][i]
<1>n. n \in Names /\ i \in Nat /\ pos[b] \in Nat
  BY FilesType DEF TypeOK
<1>u. Unnoticed(b, n) => Unnoticed(b, n)'
  <2>1. \A a \in After[b] : a \in Builds
    BY PublishAssumption DEF PublishAssumption
  <2>2. \A a \in After[b] : pc[a] = "failed" => pc'[a] = "failed"
    BY <2>1, BuildMoves DEF Over
  <2> QED
    BY <2>2 DEF Unnoticed
<1>1. CASE i < pos[b]
  BY <1>1, <1>n, <1>u, WholeStays DEF Passed
<1>2. CASE ~(i < pos[b])
  <2>1. i = pos[b] /\ Advance(b) /\ (StatFile(b) \/ Fill(b))
    <3>1. ASSUME NEW c \in Builds, BuildStep(c)
          PROVE  \/ pos'[b] = pos[b]
                 \/ c = b /\ Advance(b) /\ (StatFile(b) \/ Fill(b))
      BY <3>1 DEF BuildStep, Check, Stage, StatFile, Create, Fill, Rename,
           CreateManifest, FillManifest, Advance, TypeOK
    <3>2. ASSUME NEW j \in Jobs, IndexStep(j) \/ Fail(j) PROVE pos'[b] = pos[b]
      BY <3>2 DEF IndexStep, Fail, Resolve, ReadFooters, CreateIndex, FillIndex
    <3>3. ASSUME NEW r \in Readers, OpenStep(r) PROVE pos'[b] = pos[b]
      BY <3>3 DEF OpenStep, ReadLast, Attach, LoadIndex, ReadCollections
    <3>4. Advance(b) => pos'[b] = pos[b] + 1
      BY DEF Advance, TypeOK
    <3> QED
      BY <1>2, <1>n, <3>1, <3>2, <3>3, <3>4 DEF Next, vars
  <2>2. Current(b) = n
    BY <2>1 DEF Current
  <2>3. CASE Fill(b)
    BY <1>n, <2>2, <2>3 DEF Fill, TypeOK
  <2>4. CASE StatFile(b)
    <3>1. /\ pc[b] = "stat" /\ file' = file
          /\ file[n] # "absent" \/ n \in StatFails
      <4>1. pos[b] # pos[b] + 1
        BY <1>n
      <4> QED
        BY <2>1, <2>2, <2>4, <4>1 DEF StatFile, Advance, TypeOK
    <3>2. CASE file[n] = "whole"
      BY <3>1, <3>2
    <3>3. CASE n \in StatFails
      BY <3>3 DEF Unnoticed
    <3>4. CASE file[n] = "torn"
      <4>1. PICK a \in Builds : /\ \E k \in DOMAIN Tree[a] : Tree[a][k] = n
                                /\ \/ pc[a] = "failed"
                                   \/ pc[a] = "fill" /\ Current(a) = n
        BY <1>n, <3>4 DEF TornByBuild
      <4>2. a # b /\ Shared(a, b) /\ pc[a] \in {"failed", "fill"}
        BY <3>1, <4>1 DEF Shared
      <4>3. a \in After[b]
        <5>1. a \in After[b] \/ b \in After[a]
          BY <4>2 DEF Ordered
        <5>2. b \notin After[a]
          BY <3>1, <4>2 DEF InTurn, Over
        <5> QED
          BY <5>1, <5>2
      <4>4. pc[a] = "failed"
        BY <3>1, <4>2, <4>3 DEF InTurn, Over
      <4> QED
        BY <1>u, <4>1, <4>3, <4>4 DEF Unnoticed
    <3> QED
      BY <1>n, <3>1, <3>2, <3>3, <3>4 DEF TypeOK
  <2> QED
    BY <2>1, <2>3, <2>4
<1> QED
  BY <1>1, <1>2

(* All that success rests on, in every history of builds in turn. *)
LEMMA SpecSuccess ==
  ASSUME Serial, Ordered
  PROVE  Spec => [](StoreInv /\ Beside /\ CatalogLast /\ Passed)
<1>1. Init => Beside /\ TornByBuild /\ Passed
  <2> SUFFICES ASSUME Init PROVE Beside /\ TornByBuild /\ Passed
    OBVIOUS
  <2>1. Beside
    BY Places DEF Init, Beside, AfterManifest
  <2>2. TornByBuild
    BY DEF Init, TornByBuild
  <2>3. Passed
    <3>1. \A b \in Builds : \A i \in DOMAIN Tree[b] : i \in Nat \ {0}
      BY FilesType
    <3> QED
      BY <3>1 DEF Init, Passed
  <2> QED
    BY <2>1, <2>2, <2>3
<1>2. Init => CatalogLast
  BY InitInv DEF Inv
<1>3. StoreInv => TypeInv /\ InTurn /\ Unwritten
  BY DEF StoreInv
<1> QED
  BY <1>1, <1>2, <1>3, SpecStore, BesideStep, CatalogLastStep, TornByBuildStep,
     PassedStep, PTL DEF Spec

(* A build that is done has read all that its index lists. *)
LEMMA DoneIsReadable ==
  ASSUME StoreInv, NEW b \in Builds, pc[b] = "done"
  PROVE  catalog[Out[b]] = b /\ Readable(b)
<1>1. catalog[Out[b]] = b
  BY DEF StoreInv, SamePath, Published
<1>2. seen[b] \in Builds /\ Readable(seen[b])
  BY Places DEF StoreInv, TypeInv, Attached, IndexedWhole
<1>3. seen[b] = b
  BY <1>1, <1>2, Places DEF StoreInv, SamePath
<1> QED
  BY <1>1, <1>2, <1>3

(***************************************************************************)
(* A build that reports success has its own catalog, manifest and index on *)
(* the path it was given, and its features in full, although files that it *)
(* shares with a failed build before it may have been torn.  Its file of   *)
(* `collections` is whole too, unless os.Stat failed for it or a build     *)
(* before it died that has that file.                                      *)
(***************************************************************************)
THEOREM RetriesSucceedWhole ==
  ASSUME Serial, Ordered
  PROVE  Spec => []SuccessIsComplete
<1>1. StoreInv /\ Beside /\ CatalogLast /\ Passed => SuccessIsComplete
  <2> SUFFICES ASSUME StoreInv, Beside, CatalogLast, Passed,
                      NEW b \in Builds, pc[b] = "done"
               PROVE  /\ Visible(b) /\ Readable(b)
                      /\ \A i \in DOMAIN Tree[b] :
                           file[Tree[b][i]] # "whole" => Unnoticed(b, Tree[b][i])
    BY DEF SuccessIsComplete
  <2>1. Visible(b) /\ Readable(b)
    BY DoneIsReadable DEF Visible, Beside, AfterManifest
  <2>2. ~Left(b)
    BY DEF CatalogLast
  <2>3. \A i \in DOMAIN Tree[b] : i < pos[b]
    BY <2>2, FilesType DEF StoreInv, TypeInv, TypeOK, Left
  <2> QED
    BY <2>1, <2>3 DEF Passed
<1> QED
  BY <1>1, SpecSuccess, PTL

(***************************************************************************)
(* With unique names and an os.Stat that tells the truth nothing goes      *)
(* unnoticed: a build that reports success has its own catalog, manifest   *)
(* and index on its path and every file of its tree in full, the one of    *)
(* `collections` too, whatever builds failed before it and whichever run   *)
(* for other paths meanwhile.                                              *)
(***************************************************************************)
THEOREM SuccessMeansComplete ==
  ASSUME Serial, Unshared, StatFails = {}
  PROVE  Spec => [](\A b \in Builds : pc[b] = "done" => Visible(b) /\ Whole(b))
<1>1. Ordered
  BY DEF Ordered, Shared, Unshared
<1>2. StoreInv /\ Beside /\ Inv =>
        \A b \in Builds : pc[b] = "done" => Visible(b) /\ Whole(b)
  <2> SUFFICES ASSUME StoreInv, Beside, Inv, NEW b \in Builds, pc[b] = "done"
               PROVE  Visible(b) /\ Whole(b)
    OBVIOUS
  <2>1. Visible(b)
    BY DoneIsReadable DEF Visible, Beside, AfterManifest
  <2>2. Whole(b)
    BY PastIsWhole DEF Inv, CatalogLast
  <2> QED
    BY <2>1, <2>2
<1> QED
  BY <1>1, <1>2, SpecSuccess, SpecInv, PTL

=============================================================================
