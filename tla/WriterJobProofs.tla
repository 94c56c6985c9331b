-------------------------- MODULE WriterJobProofs ---------------------------
(***************************************************************************)
(* Proofs about WriterJob, for any contents, builds and numbers of jobs,   *)
(* tries and minutes.                                                      *)
(*                                                                         *)
(* Three parts, in the order in which a job works: what the staging        *)
(* directory holds while files are renamed (Addressing), what the volume   *)
(* holds for the publish container (Volume), and what the bucket holds     *)
(* (Bucket).                                                               *)
(***************************************************************************)
EXTENDS WriterJob, TLAPS

Written == {input[k] : k \in 1..Len(input)}
Done(k) == IF k < todo THEN Hash(input[k]) ELSE Uuid(k)

Addressing ==
  pc \in {"address", "copy", "index"} =>
    /\ stored = [k \in 1..Len(input) |-> Done(k)]
    /\ dir = {File(Done(k), input[k]) : k \in 1..Len(input)}
    /\ todo \in 1..Len(input) + 1
    /\ pc # "address" => todo = Len(input) + 1

Volume ==
  /\ pc = "index" \/ Publishing => built[name] = Written
  /\ Publishing => \A c \in Written \ Unread : files[c] = "whole"
  /\ ~drifted => \A c \in Contents : files[c] # "absent" => c \in Written
  /\ \A c \in writing : files[c] # "absent"

Bucket ==
  /\ pc = "catalog" => \A c \in Written \ Unread : data[c] = "whole"
  /\ pc \in {"files", "catalog"} /\ ~blind => catalogs[name] = {}
  /\ pc \in {"serving", "ref"} => catalogs[name] # {}
  /\ pc = "ref" => name \in indexes
  /\ \A n \in indexes : catalogs[n] # {}
  /\ RefIsComplete
  /\ CatalogsComplete

Inv == TypeOK /\ Addressing /\ Volume /\ Bucket

-----------------------------------------------------------------------------
(* Names and contents *)

LEMMA Builds ==
  ASSUME NEW in \in Inputs
  PROVE  /\ Len(in) \in Nat \ {0}
         /\ \A k \in 1..Len(in) : in[k] \in Contents
<1> in \in Seq(Contents) /\ in # <<>>
  BY InputsAssumption DEF InputsAssumption
<1> QED
  OBVIOUS

LEMMA WrittenContents ==
  ASSUME TypeOK PROVE Written \subseteq Contents /\ Written # {}
<1>1. input \in Inputs
  BY DEF TypeOK
<1>2. /\ Len(input) \in Nat \ {0}
      /\ \A k \in 1..Len(input) : input[k] \in Contents
  BY <1>1, Builds
<1>3. 1 \in 1..Len(input)
  BY <1>2
<1> QED
  BY <1>2, <1>3 DEF Written

(* When all is renamed, the catalog refers to what was written. *)
LEMMA AllDone ==
  ASSUME TypeOK, Addressing, pc \in {"copy", "index"}
  PROVE  /\ stored = [k \in 1..Len(input) |-> Hash(input[k])]
         /\ dir = {File(Hash(input[k]), input[k]) : k \in 1..Len(input)}
         /\ Referenced = Written
         /\ \A f \in dir : f.content \in Written
<1>1. Len(input) \in Nat /\ todo = Len(input) + 1
  BY Builds DEF TypeOK, Addressing
<1>2. \A k \in 1..Len(input) : Done(k) = Hash(input[k])
  BY <1>1 DEF Done
<1>3. stored = [k \in 1..Len(input) |-> Hash(input[k])]
  BY <1>2 DEF Addressing
<1>4. dir = {File(Hash(input[k]), input[k]) : k \in 1..Len(input)}
  BY <1>2 DEF Addressing
<1>5. Referenced = Written
  <2>1. \A c \in Contents, k \in 1..Len(input) : stored[k] = Hash(c) <=> input[k] = c
    BY <1>3 DEF Hash
  <2>2. DOMAIN stored = 1..Len(input)
    BY <1>3
  <2> QED
    BY <2>1, <2>2, WrittenContents DEF Referenced, Written
<1> QED
  BY <1>3, <1>4, <1>5 DEF File, Written

-----------------------------------------------------------------------------
(* Types *)

LEMMA StartTypes == Init => TypeOK
<1> SUFFICES ASSUME Init PROVE TypeOK
  OBVIOUS
<1>1. tries \in 0..Tries /\ jobs \in 0..Jobs /\ minute \in Names /\ minute + jobs <= Minutes
  BY JobAssumption DEF JobAssumption, Init, Names
<1>2. /\ name \in Names /\ ref \in Names /\ indexes \subseteq Names
      /\ built \in [Names -> SUBSET Contents]
      /\ catalogs \in [Names -> SUBSET Contents]
  BY JobAssumption DEF JobAssumption, Init, Names, NoCatalogs
<1>3. files \in [Contents -> States] /\ data \in [Contents -> States]
  BY DEF Init, Empty, States
<1>4. input \in Inputs /\ todo \in Nat /\ unmatched = {} /\ dir = {} /\ writing = {}
  BY DEF Init
<1>5. pc = "idle" /\ calm \in BOOLEAN /\ blind \in BOOLEAN /\ drifted \in BOOLEAN
  BY DEF Init
<1> QED
  BY <1>1, <1>2, <1>3, <1>4, <1>5 DEF TypeOK

LEMMA FailTypes ==
  ASSUME TypeOK, pc # "idle", ContainerFails
  PROVE  tries' \in 0..Tries /\ (pc' = "idle" \/ Building' \/ Publishing')
BY JobAssumption DEF JobAssumption, TypeOK, ContainerFails, Building, Publishing

LEMMA AgainTypes ==
  ASSUME TypeOK, Again PROVE input' \in Inputs /\ drifted' \in BOOLEAN
BY DEF TypeOK, Again

LEMMA StepTypes == TypeOK /\ [Next]_vars => TypeOK'
<1> SUFFICES ASSUME TypeOK, [Next]_vars PROVE TypeOK'
  OBVIOUS
<1> USE JobAssumption DEF JobAssumption, TypeOK, Building, Publishing, States, Names,
       staging, world, stage, bucket
<1>1. CASE Schedule
  BY <1>1 DEF Schedule, NewPod, Empty, NoCatalogs
<1>2. CASE Tick
  BY <1>2 DEF Tick
<1>3. CASE Crash
  BY <1>3, FailTypes, AgainTypes DEF Crash
<1>4. CASE LosePod
  BY <1>4 DEF LosePod, NewPod, Empty, NoCatalogs
<1>5. CASE Calm
  BY <1>5 DEF Calm
<1>6. CASE Name
  <2>1. CASE built[minute] # {}
    BY <1>6, <2>1, FailTypes, AgainTypes DEF Name
  <2>2. CASE built[minute] = {}
    <3>1. Staged /\ pc' = "address" /\ name' = minute
      BY <1>6, <2>2 DEF Name
    <3>2. Len(input) \in Nat /\ \A k \in 1..Len(input) : input[k] \in Contents
      BY Builds
    <3>3. /\ todo' \in Nat
          /\ unmatched' \subseteq {Uuid(k) : k \in DOMAIN stored'}
          /\ \A f \in dir' : f.content \in Contents
      <4>1. todo' = 1 /\ DOMAIN stored' = 1..Len(input)
        BY <3>1 DEF Staged
      <4>2. unmatched' = {Uuid(k) : k \in 1..Len(input)}
        BY <3>1 DEF Staged
      <4>3. dir' = {File(Uuid(k), input[k]) : k \in 1..Len(input)}
        BY <3>1 DEF Staged
      <4>4. \A f \in dir' : f.content \in Contents
        BY <3>2, <4>3 DEF File
      <4> QED
        BY <4>1, <4>2, <4>4
    <3> QED
      BY <1>6, <2>2, <3>1, <3>3 DEF Name
  <2> QED
    BY <2>1, <2>2
<1>7. CASE AddressFile
  <2>1. /\ todo' \in Nat
        /\ DOMAIN stored' = DOMAIN stored
        /\ unmatched' \subseteq unmatched
        /\ \A f \in dir' : f.content \in Contents
    BY <1>7 DEF AddressFile, Address, File
  <2> QED
    BY <1>7, <2>1 DEF AddressFile, Address
<1>8. CASE AddressedAll
  BY <1>8 DEF AddressedAll
<1>9. ASSUME NEW f \in dir, Create(f) PROVE TypeOK'
  BY <1>9 DEF Create
<1>10. CASE Fill
  BY <1>10 DEF Fill
<1>11. CASE RenameCatalog
  BY <1>11 DEF RenameCatalog, Referenced
<1>12. CASE Index
  BY <1>12, FailTypes, AgainTypes DEF Index
<1>13. CASE Check
  BY <1>13, FailTypes DEF Check
<1>14. ASSUME NEW c \in Contents, Upload(c) PROVE TypeOK'
  BY <1>14 DEF Upload
<1>15. CASE UploadedAll
  BY <1>15 DEF UploadedAll
<1>16. CASE UploadCatalog
  BY <1>16 DEF UploadCatalog
<1>17. CASE UploadIndex
  BY <1>17 DEF UploadIndex
<1>18. CASE MoveRef
  BY <1>18 DEF MoveRef
<1>19. CASE UNCHANGED vars
  BY <1>19 DEF vars
<1> QED
  BY <1>1, <1>2, <1>3, <1>4, <1>5, <1>6, <1>7, <1>8, <1>9, <1>10, <1>11, <1>12,
     <1>13, <1>14, <1>15, <1>16, <1>17, <1>18, <1>19 DEF Next, Build, Publish

-----------------------------------------------------------------------------
(* The staging directory *)

(* A container that fails leaves the phases that Addressing is about. *)
LEMMA FailLeaves ==
  ASSUME ContainerFails PROVE pc' \in {"build", "check", "idle"}
BY DEF ContainerFails

(* One file: its row and its name change, and nothing else. *)
LEMMA OneFile ==
  ASSUME TypeOK, Addressing, AddressFile PROVE Addressing'
<1> DEFINE n == Len(input)
<1>1. /\ pc = "address" /\ pc' = "address" /\ input' = input
      /\ todo \in 1..n /\ todo' = todo + 1 /\ n \in Nat
  BY Builds DEF AddressFile, Address, Addressing, TypeOK
<1>2. /\ stored = [k \in 1..n |-> Done(k)]
      /\ dir = {File(Done(k), input[k]) : k \in 1..n}
  BY <1>1 DEF Addressing
<1>3. PICK f \in dir :
        /\ f.name = Uuid(todo)
        /\ stored' = [k \in DOMAIN stored |->
                        IF stored[k] = f.name THEN Hash(f.content) ELSE stored[k]]
        /\ dir' = (dir \ {f}) \cup {File(Hash(f.content), f.content)}
  BY DEF AddressFile, Address
<1>4. \A k \in 1..n : Done(k) = Uuid(todo) <=> k = todo
  BY <1>1 DEF Done, Uuid, Hash
<1>5. f = File(Uuid(todo), input[todo]) /\ f.content = input[todo]
  BY <1>1, <1>2, <1>3, <1>4 DEF File
<1>6. \A k \in 1..n : Done(k)' = IF k = todo THEN Hash(input[todo]) ELSE Done(k)
  BY <1>1 DEF Done
<1>7. stored' = [k \in 1..n |-> Done(k)']
  BY <1>2, <1>3, <1>4, <1>5, <1>6
<1>8. dir' = {File(Done(k)', input[k]) : k \in 1..n}
  <2>1. \A k \in 1..n : File(Done(k), input[k]) = f <=> k = todo
    BY <1>4, <1>5 DEF File
  <2> QED
    BY <1>1, <1>2, <1>3, <1>5, <1>6, <2>1
<1> QED
  BY <1>1, <1>7, <1>8 DEF Addressing

LEMMA StepAddresses == TypeOK /\ Addressing /\ [Next]_vars => Addressing'
<1> SUFFICES ASSUME TypeOK, Addressing, [Next]_vars PROVE Addressing'
  OBVIOUS
<1>1. CASE Schedule \/ LosePod
  BY <1>1 DEF Schedule, LosePod, NewPod, Addressing
<1>2. CASE Crash
  BY <1>2, FailLeaves DEF Crash, Addressing
<1>3. CASE Name
  <2>1. CASE built[minute] # {}
    BY <1>3, <2>1, FailLeaves DEF Name, Addressing
  <2>2. CASE built[minute] = {}
    <3>1. Staged /\ pc' = "address" /\ input' = input
      BY <1>3, <2>2 DEF Name
    <3>2. Len(input) \in Nat
      BY Builds DEF TypeOK
    <3>3. \A k \in 1..Len(input) : Done(k)' = Uuid(k)
      BY <3>1, <3>2 DEF Staged, Done
    <3> QED
      BY <3>1, <3>2, <3>3 DEF Staged, Addressing
  <2> QED
    BY <2>1, <2>2
<1>4. CASE AddressFile
  BY <1>4, OneFile
<1>5. CASE AddressedAll
  <2>1. Len(input) \in Nat
    BY Builds DEF TypeOK
  <2> QED
    BY <1>5, <2>1 DEF AddressedAll, AllAddressed, staging, Addressing, Done
<1>6. CASE RenameCatalog
  BY <1>6 DEF RenameCatalog, staging, Addressing, Done
<1>7. CASE Index
  BY <1>7, FailLeaves DEF Index, staging, Addressing, Done
<1>8. CASE Check
  BY <1>8, FailLeaves DEF Check, staging, Addressing, Done
<1>9. ASSUME UNCHANGED staging, pc' = pc \/ pc' \notin {"address", "copy", "index"}
      PROVE  Addressing'
  BY <1>9 DEF staging, Addressing, Done
<1>10. Tick \/ Calm \/ (\E f \in dir : Create(f)) \/ Fill => UNCHANGED staging /\ pc' = pc
  BY DEF Tick, Calm, Create, Fill
<1>11. (\E c \in Contents : Upload(c)) \/ UploadedAll \/ UploadCatalog \/ UploadIndex \/ MoveRef
       => UNCHANGED staging /\ (pc' = pc \/ pc' \notin {"address", "copy", "index"})
  BY DEF Upload, UploadedAll, UploadCatalog, UploadIndex, MoveRef
<1>12. UNCHANGED vars => UNCHANGED staging /\ pc' = pc
  BY DEF vars
<1> QED
  BY <1>1, <1>2, <1>3, <1>4, <1>5, <1>6, <1>7, <1>8, <1>9, <1>10, <1>11, <1>12
  DEF Next, Build, Publish

-----------------------------------------------------------------------------
(* The volume *)

(* A build that has not drifted writes what it wrote before. *)
LEMMA NotDrifted ==
  ASSUME TypeOK, Again, ~drifted' PROVE ~drifted /\ input' = input
BY DEF Again, TypeOK

LEMMA FailedVolume ==
  ASSUME TypeOK, Volume, ContainerFails, Again, pc # "idle",
         UNCHANGED <<files, built>>, writing' \subseteq writing, Building \/ name' = name
  PROVE  Volume'
<1>1. ~drifted' => ~drifted /\ Written' = Written
  BY NotDrifted DEF Written
<1>2. CASE Building
  <2>1. pc' \in {"build", "idle"}
    BY <1>2 DEF ContainerFails
  <2> QED
    BY <1>1, <2>1 DEF Volume, Publishing
<1>3. CASE ~Building
  <2>1. Publishing /\ pc' \in {"check", "idle"} /\ Written' = Written /\ name' = name
    BY <1>3 DEF TypeOK, ContainerFails, Again, Written
  <2> QED
    BY <1>1, <2>1 DEF Volume, Publishing
<1> QED
  BY <1>2, <1>3

(* What the publish container does leaves the volume alone. *)
LEMMA PublishVolume ==
  ASSUME Volume, UNCHANGED <<input, drifted, stage>>,
         pc' = pc \/ Publishing \/ pc' \notin {"index", "check", "files", "catalog", "serving", "ref"},
         Publishing' => Publishing
  PROVE  Volume'
BY DEF Volume, Publishing, stage, Written

LEMMA StepVolumes == TypeOK /\ Addressing /\ Volume /\ [Next]_vars => Volume'
<1> SUFFICES ASSUME TypeOK, Addressing, Volume, [Next]_vars PROVE Volume'
  OBVIOUS
<1>1. CASE Schedule \/ LosePod
  BY <1>1 DEF Schedule, LosePod, NewPod, Empty, Volume, Publishing
<1>2. CASE Crash
  BY <1>2, FailedVolume DEF Crash
<1>3. CASE Name
  <2>1. CASE built[minute] # {}
    BY <1>3, <2>1, FailedVolume DEF Name, Building
  <2>2. CASE built[minute] = {}
    BY <1>3, <2>2 DEF Name, Volume, Publishing, Written
  <2> QED
    BY <2>1, <2>2
<1>4. CASE AddressFile \/ AddressedAll
  BY <1>4 DEF AddressFile, Address, AddressedAll, stage, staging, world, Volume, Publishing, Written
<1>5. ASSUME NEW f \in dir, Create(f) PROVE Volume'
  <2>1. f.content \in Written
    BY <1>5, AllDone DEF Create
  <2>2. /\ \A c \in Contents : c # f.content => files'[c] = files[c]
        /\ files'[f.content] = "torn" /\ writing' = {f.content}
    BY <1>5 DEF Create, TypeOK
  <2>3. pc = "copy" /\ pc' = "copy" /\ Written' = Written /\ drifted' = drifted
    BY <1>5 DEF Create, staging, world, Written
  <2> QED
    BY <2>1, <2>2, <2>3 DEF Volume, Publishing
<1>6. CASE Fill
  <2>1. \A c \in Contents : files'[c] # "absent" => files[c] # "absent"
    BY <1>6 DEF Fill, Volume
  <2> QED
    BY <1>6, <2>1 DEF Fill, staging, world, Volume, Publishing, Written
<1>7. CASE RenameCatalog
  <2>1. built'[name] = Written
    BY <1>7, AllDone DEF RenameCatalog, TypeOK
  <2> QED
    BY <1>7, <2>1 DEF RenameCatalog, staging, world, Volume, Publishing, Written
<1>8. CASE Index
  <2>1. CASE \A c \in Referenced \ Unread : files[c] = "whole"
    <3>1. Referenced = Written
      BY <1>8, AllDone DEF Index
    <3> QED
      BY <1>8, <2>1, <3>1 DEF Index, stage, Volume, Publishing, Written
  <2>2. CASE ~ \A c \in Referenced \ Unread : files[c] = "whole"
    <3>1. ContainerFails /\ Again /\ pc = "index" /\ UNCHANGED stage
      BY <1>8, <2>2 DEF Index
    <3> QED
      BY <3>1, FailedVolume DEF stage
  <2> QED
    BY <2>1, <2>2
<1>9. CASE Check
  BY <1>9, PublishVolume DEF Check, ContainerFails, staging, Publishing, Building
<1>10. CASE Publish /\ ~Check
  BY <1>10, PublishVolume
  DEF Publish, Upload, UploadedAll, UploadCatalog, UploadIndex, MoveRef, staging, world, Publishing
<1>11. CASE Tick \/ Calm \/ UNCHANGED vars
  BY <1>11, PublishVolume DEF Tick, Calm, vars, staging, world, Publishing
<1> QED
  BY <1>1, <1>2, <1>3, <1>4, <1>5, <1>6, <1>7, <1>8, <1>9, <1>10, <1>11 DEF Next, Build

-----------------------------------------------------------------------------
(* The bucket *)

LEMMA UploadWhole ==
  ASSUME TypeOK, Volume, ~drifted, NEW c \in Contents \ Unread, Upload(c)
  PROVE  data' = [data EXCEPT ![c] = "whole"]
<1>1. Publishing /\ files[c] # "absent"
  BY DEF Upload, Publishing
<1>2. files[c] = "whole"
  BY <1>1 DEF Volume
<1> QED
  BY <1>2 DEF Upload

LEMMA StepBuckets == TypeOK /\ Volume /\ Bucket /\ [Next]_vars => Bucket'
<1> SUFFICES ASSUME TypeOK, Volume, Bucket, [Next]_vars PROVE Bucket'
  OBVIOUS
<1> USE DEF Bucket, RefIsComplete, CatalogsComplete
(* Outside of the publish container the bucket does not change. *)
<1>1. ASSUME UNCHANGED bucket, drifted => drifted',
             pc' \in {"idle", "build", "address", "copy", "index", "check"}
      PROVE  Bucket'
  BY <1>1 DEF bucket
<1>2. ASSUME UNCHANGED <<bucket, name, input, blind, drifted>>, pc' = pc PROVE Bucket'
  BY <1>2 DEF bucket, Written
<1>3. CASE Schedule \/ LosePod
  BY <1>1, <1>3 DEF Schedule, LosePod, NewPod, world
<1>4. CASE Crash
  BY <1>1, <1>4, FailLeaves DEF Crash, Again
<1>5. CASE Build
  <2>1. CASE Name \/ Index
    BY <1>1, <2>1, FailLeaves DEF Name, Index, Again
  <2>2. CASE Build /\ ~Name /\ ~Index
    BY <1>1, <2>2 DEF Build, AddressFile, AddressedAll, Create, Fill, RenameCatalog, world
  <2> QED
    BY <1>5, <2>1, <2>2
<1>6. CASE Check
  <2>1. UNCHANGED <<bucket, drifted>> /\ name' = name /\ (blind => blind')
    BY <1>6 DEF Check, stage, TypeOK
  <2>2. CASE pc' = "files"
    <3>1. ~blind' => catalogs[name] = {}
      BY <1>6, <2>2 DEF Check, ContainerFails, Building
    <3> QED
      BY <2>1, <2>2, <3>1 DEF bucket
  <2>3. CASE pc' # "files"
    BY <1>1, <1>6, <2>1, <2>3, FailLeaves DEF Check
  <2> QED
    BY <2>2, <2>3
<1>7. ASSUME NEW c \in Contents, Upload(c) PROVE Bucket'
  <2>1. ~drifted => \A d \in Contents \ Unread : data[d] = "whole" => data'[d] = "whole"
    <3>1. data \in [Contents -> States] /\ \A d \in Contents : d # c => data'[d] = data[d]
      BY <1>7 DEF Upload, TypeOK
    <3>2. c \notin Unread /\ ~drifted => data'[c] = "whole"
      BY <1>7, <3>1, UploadWhole
    <3> QED
      BY <3>1, <3>2
  <2>2. \A n \in Names : catalogs[n] \subseteq Contents
    BY DEF TypeOK
  <2> QED
    BY <1>7, <2>1, <2>2 DEF Upload, world, stage
<1>8. CASE UploadedAll
  <2>1. \A c \in Written \ Unread : data[c] = "whole"
    <3>1. \A c \in Written \ Unread : c \in Contents /\ files[c] = "whole"
      BY <1>8, WrittenContents DEF UploadedAll, Volume, Publishing
    <3> QED
      BY <1>8, <3>1 DEF UploadedAll
  <2> QED
    BY <1>8, <2>1 DEF UploadedAll, staging, world, stage, bucket, Written
<1>9. CASE UploadCatalog
  <2>1. built[name] = Written /\ Written # {} /\ name \in Names
    BY <1>9, WrittenContents DEF UploadCatalog, Volume, Publishing, TypeOK
  <2>2. catalogs' = [catalogs EXCEPT ![name] = Written]
    BY <1>9, <2>1 DEF UploadCatalog
  <2>3. \A n \in Names : catalogs'[n] = IF n = name THEN Written ELSE catalogs[n]
    BY <2>2 DEF TypeOK
  <2>4. /\ pc = "catalog" /\ pc' = "serving"
        /\ UNCHANGED <<name, drifted, data, indexes, ref>>
    BY <1>9 DEF UploadCatalog, world, stage
  <2> QED
    BY <2>1, <2>3, <2>4 DEF TypeOK
<1>10. CASE UploadIndex
  BY <1>10 DEF UploadIndex, world, stage
<1>11. CASE MoveRef
  BY <1>11 DEF MoveRef, world, stage
<1>12. CASE Tick \/ Calm \/ UNCHANGED vars
  BY <1>2, <1>12 DEF Tick, Calm, vars, staging, world, stage
<1> QED
  BY <1>3, <1>4, <1>5, <1>6, <1>7, <1>8, <1>9, <1>10, <1>11, <1>12 DEF Next, Publish

-----------------------------------------------------------------------------
(* The theorems *)

LEMMA Starts == Init => Inv
<1> SUFFICES ASSUME Init PROVE Inv
  OBVIOUS
<1>1. Addressing /\ Volume /\ Bucket
  BY DEF Init, Addressing, Volume, Bucket, Publishing, Empty, NoCatalogs, RefIsComplete,
         CatalogsComplete
<1> QED
  BY <1>1, StartTypes DEF Inv

LEMMA Invariance == Spec => []Inv
<1>1. Inv /\ [Next]_vars => Inv'
  BY StepTypes, StepAddresses, StepVolumes, StepBuckets DEF Inv
<1> QED
  BY <1>1, Starts, PTL DEF Spec

(* Every variable of the job, its volume and the bucket keeps its type. *)
THEOREM TypeCorrect == Spec => []TypeOK
BY Invariance, PTL DEF Inv

(* contentAddressData leaves a catalog whose every row names the file with  *)
(* the contents written for it, whatever files share their contents.        *)
THEOREM AddressedByContent == Spec => []NamesAreContent
<1>1. Inv => NamesAreContent
  <2> SUFFICES ASSUME Inv, pc \in {"copy", "index"}
               PROVE  /\ \A k \in DOMAIN input : File(stored[k], input[k]) \in dir
                      /\ \A f \in dir : f.name = Hash(f.content)
    BY DEF NamesAreContent
  <2>1. /\ stored = [k \in 1..Len(input) |-> Hash(input[k])]
        /\ dir = {File(Hash(input[k]), input[k]) : k \in 1..Len(input)}
    BY AllDone DEF Inv
  <2>2. DOMAIN input = 1..Len(input)
    BY InputsAssumption DEF Inv, TypeOK, InputsAssumption
  <2> QED
    BY <2>1, <2>2 DEF File
<1> QED
  BY <1>1, Invariance, PTL

(* A published catalog's files stay whole, if builds do not drift. *)
THEOREM CatalogsStayComplete == Spec => []CatalogsComplete
BY Invariance, PTL DEF Inv, Bucket

(* refs/latest names a snapshot with its catalog and its index. *)
THEOREM RefComplete == Spec => []RefIsComplete
BY Invariance, PTL DEF Inv, Bucket

LEMMA OneCatalog ==
  ASSUME TypeOK, [Next]_vars
  PROVE  \/ catalogs' = catalogs
         \/ UploadCatalog /\ \A n \in Names :
              catalogs'[n] = IF n = name THEN built[name] ELSE catalogs[n]
<1>1. CASE UploadCatalog
  BY <1>1 DEF UploadCatalog, TypeOK
<1>2. CASE ~UploadCatalog
  BY <1>2
  DEF Next, Build, Publish, vars, bucket, Schedule, Tick, Crash, LosePod, Calm, Name,
      AddressFile, AddressedAll, Create, Fill, RenameCatalog, Index, Check, Upload,
      UploadedAll, UploadIndex, MoveRef
<1> QED
  BY <1>1, <1>2

(* A catalog appears when its files are there and whole. *)
THEOREM PublishesWhole == Spec => PublishedWhole
<1>1. Inv /\ [Next]_vars =>
        [\A n \in Names :
           catalogs'[n] # catalogs[n] =>
             \A c \in catalogs'[n] \ Unread : data'[c] = "whole"]_vars
  <2> SUFFICES ASSUME Inv, [Next]_vars, NEW n \in Names, catalogs'[n] # catalogs[n],
                      NEW c \in catalogs'[n] \ Unread
               PROVE  data'[c] = "whole"
    OBVIOUS
  <2>1. UploadCatalog /\ catalogs'[n] = built[name]
    BY OneCatalog DEF Inv
  <2> QED
    BY <2>1 DEF Inv, Volume, Bucket, UploadCatalog, Publishing
<1> QED
  BY <1>1, Invariance, PTL DEF Spec, PublishedWhole

(* A published catalog is not overwritten while the lists succeed. *)
THEOREM KeepsCatalogs == Spec => CatalogsAreKept
<1>1. Inv /\ [Next]_vars =>
        [\A n \in Names : catalogs[n] # {} /\ ~blind' => catalogs'[n] = catalogs[n]]_vars
  <2> SUFFICES ASSUME Inv, [Next]_vars, NEW n \in Names, catalogs[n] # {}, ~blind',
                      catalogs'[n] # catalogs[n]
               PROVE  FALSE
    OBVIOUS
  <2>1. UploadCatalog /\ n = name
    BY OneCatalog DEF Inv
  <2> QED
    BY <2>1 DEF Inv, Bucket, UploadCatalog, world
<1> QED
  BY <1>1, Invariance, PTL DEF Spec, CatalogsAreKept

-----------------------------------------------------------------------------
(* The bucket as a snapshot store *)

LEMMA StoreStarts == Init => Store!Init
<1> SUFFICES ASSUME Init PROVE Store!Init
  OBVIOUS
<1>1. [n \in Names |-> IF n \in indexes THEN catalogs[n] ELSE {}] = [n \in Names |-> {}]
  BY DEF Init
<1> QED
  BY <1>1 DEF Init, NoCatalogs, Store!Init

(* Data may arrive; what is whole stays whole while builds do not drift. *)
LEMMA UploadArrives ==
  ASSUME Inv, ~drifted, NEW c \in Contents, Upload(c) PROVE Store!Next
<1> DEFINE Complete(d) == {S \in Snapshots : \A x \in S \ Unread : d[x] = "whole"}
<1>1. \A x \in Contents \ Unread : data[x] = "whole" => data'[x] = "whole"
  <2>1. data \in [Contents -> States] /\ \A x \in Contents : x # c => data'[x] = data[x]
    BY DEF Upload, Inv, TypeOK
  <2>2. c \notin Unread => data'[c] = "whole"
    BY <2>1, UploadWhole DEF Inv
  <2> QED
    BY <2>1, <2>2
<1>2. Complete(data') = Complete(data) \cup Complete(data')
  BY <1>1 DEF Snapshots
<1>3. UNCHANGED <<catalogs, indexes>>
  BY DEF Upload
<1>4. PICK D \in SUBSET Snapshots : D = Complete(data')
  OBVIOUS
<1>5. Store!Arrive(D)
  BY <1>2, <1>3, <1>4 DEF Store!Arrive
<1> QED
  BY <1>5 DEF Store!Next

(* The catalog is uploaded after its data, under a name that is free... *)
LEMMA UploadPublishes ==
  ASSUME Inv, ~blind, UploadCatalog PROVE Store!Next
<1> DEFINE Complete == {S \in Snapshots : \A x \in S \ Unread : data[x] = "whole"}
<1>1. /\ built[name] = Written /\ name \in Names
      /\ Written \in Snapshots
      /\ catalogs[name] = {} /\ name \notin indexes
  BY WrittenContents DEF Inv, UploadCatalog, Volume, Bucket, Publishing, TypeOK, Snapshots
<1>2. Written \in Complete
  BY <1>1 DEF Inv, UploadCatalog, Bucket
<1>3. catalogs' = [catalogs EXCEPT ![name] = Written] /\ UNCHANGED <<data, indexes>>
  BY <1>1 DEF UploadCatalog
<1>4. [n \in Names |-> IF n \in indexes THEN catalogs'[n] ELSE {}]
        = [n \in Names |-> IF n \in indexes THEN catalogs[n] ELSE {}]
  BY <1>1, <1>3 DEF Inv, TypeOK
<1>5. PICK p \in Names, s \in Snapshots : p = name /\ s = Written
  BY <1>1
<1>6. Store!Publish(p, s)
  BY <1>1, <1>2, <1>3, <1>4, <1>5 DEF Store!Publish
<1> QED
  BY <1>6 DEF Store!Next

(* ...and the index after the catalog. *)
LEMMA UploadLists ==
  ASSUME Inv, ~drifted, UploadIndex PROVE Store!Next
<1> DEFINE Complete == {S \in Snapshots : \A x \in S \ Unread : data[x] = "whole"}
           Listed(s) == [n \in Names |-> IF n \in s THEN catalogs[n] ELSE {}]
<1>1. name \in Names /\ catalogs[name] \in Snapshots
  BY DEF Inv, UploadIndex, Bucket, TypeOK, Snapshots
<1>2. catalogs[name] \in Complete
  BY <1>1 DEF Inv, Bucket, CatalogsComplete
<1>3. indexes' = indexes \cup {name} /\ UNCHANGED <<data, catalogs>>
  BY DEF UploadIndex
<1>4. Listed(indexes') = [Listed(indexes) EXCEPT ![name] = catalogs[name]]
  BY <1>1, <1>3
<1>5. PICK p \in Names : p = name
  BY <1>1
<1>6. Store!List(p)
  BY <1>2, <1>3, <1>4, <1>5 DEF Store!List
<1> QED
  BY <1>6 DEF Store!Next

LEMMA StoreSteps ==
  Inv /\ [Next]_vars /\ ~drifted' /\ ~blind' => [Store!Next]_(Store!vars)
<1> SUFFICES ASSUME Inv, [Next]_vars, ~drifted', ~blind'
             PROVE  [Store!Next]_(Store!vars)
  OBVIOUS
<1>1. CASE UNCHANGED <<data, catalogs, indexes>>
  BY <1>1 DEF Store!vars
<1>2. ASSUME NEW c \in Contents, Upload(c) PROVE Store!Next
  BY <1>2, UploadArrives DEF Upload, world
<1>3. CASE UploadCatalog
  BY <1>3, UploadPublishes DEF UploadCatalog, world
<1>4. CASE UploadIndex
  BY <1>4, UploadLists DEF UploadIndex, world
<1>5. \/ UNCHANGED <<data, catalogs, indexes>>
      \/ \E c \in Contents : Upload(c)
      \/ UploadCatalog \/ UploadIndex
  BY DEF Next, Build, Publish, vars, bucket, Schedule, Tick, Crash, LosePod, Calm,
         Name, AddressFile, AddressedAll, Create, Fill, RenameCatalog, Index, Check,
         UploadedAll, MoveRef
<1> QED
  BY <1>1, <1>2, <1>3, <1>4, <1>5

(* The bucket keeps the promise of a SnapshotStore to the read pools,       *)
(* through killed containers, lost pods and any number of jobs: a key gets  *)
(* its catalog once, over whole data, its index comes after that, and the   *)
(* data stay.                                                               *)
THEOREM BucketImplementsStore == Spec => BucketIsStore
<1>1. Inv /\ [Next]_vars =>
        [~drifted' /\ ~blind' => [Store!Next]_(Store!vars)]_vars
  BY StoreSteps
<1> QED
  BY <1>1, StoreStarts, Invariance, PTL DEF Spec, BucketIsStore

-----------------------------------------------------------------------------
(* The first try of a job *)

(* Catalogs are named after minutes that have passed, so a job that starts  *)
(* later finds its name free; until a container or pod of it fails nothing  *)
(* on its volume is of another attempt.                                     *)
FirstTry ==
  /\ name <= minute
  /\ \A n \in Names : catalogs[n] # {} => n <= minute
  /\ pc # "idle" /\ tries = Tries =>
       /\ pc = "build" =>
            /\ \A n \in Names : catalogs[n] # {} => n < minute
            /\ built = NoCatalogs
       /\ pc \in {"build", "address"} => files = Empty /\ writing = {}
       /\ pc \in {"address", "copy", "index", "check", "files", "catalog"}
            => catalogs[name] = {}
       /\ pc = "copy" => \A c \in Contents : files[c] = "torn" => c \in writing
       /\ pc = "index" => \A c \in Written : files[c] = "whole"

(* A container that fails has used up a try, or ends the job. *)
LEMMA FailsOnce ==
  ASSUME TypeOK, ContainerFails PROVE pc' = "idle" \/ tries' # Tries
BY JobAssumption DEF JobAssumption, TypeOK, ContainerFails

(* Then what the new invariant says of a try is over. *)
LEMMA TriedAgain ==
  ASSUME FirstTry, UNCHANGED <<minute, catalogs>>, name' <= minute,
         pc' = "idle" \/ tries' # Tries
  PROVE  FirstTry'
BY DEF FirstTry

(* No step before the catalog is published spoils the first try. *)
LEMMA StepTries ==
  TypeOK /\ Addressing /\ Volume /\ FirstTry /\ [Next]_vars => FirstTry'
<1> SUFFICES ASSUME TypeOK, Addressing, Volume, FirstTry, [Next]_vars
             PROVE  FirstTry'
  OBVIOUS
<1>t. /\ minute \in Int /\ name \in Int /\ tries \in Int /\ Tries \in Int
      /\ Names \subseteq Int /\ minute \in Names /\ name \in Names
  BY JobAssumption DEF JobAssumption, TypeOK, Names
<1>1. CASE Schedule
  <2>1. /\ minute' = minute + 1 /\ name' = 0 /\ pc' = "build" /\ catalogs' = catalogs
        /\ built' = NoCatalogs /\ files' = Empty /\ writing' = {} /\ 0 <= minute
    BY <1>1 DEF Schedule, NewPod, bucket, TypeOK, Names
  <2> QED
    BY <1>t, <2>1 DEF FirstTry
<1>2. CASE Tick
  <2>1. minute' = minute + 1 /\ UNCHANGED <<pc, tries, name, files, writing, built, catalogs, input>>
    BY <1>2 DEF Tick, staging, stage, bucket
  <2> QED
    BY <1>t, <2>1 DEF FirstTry, Written
<1>3. CASE Crash
  BY <1>3, FailsOnce, TriedAgain DEF Crash, bucket, FirstTry
<1>4. CASE LosePod
  <2>1. tries' # Tries /\ name' <= minute /\ UNCHANGED <<minute, catalogs>>
    BY <1>4, <1>t DEF LosePod, NewPod, world, bucket, TypeOK, Names
  <2> QED
    BY <2>1, TriedAgain
<1>5. CASE Calm \/ UNCHANGED vars
  BY <1>5 DEF Calm, vars, staging, world, stage, bucket, FirstTry, Written
<1>6. CASE Name
  <2>1. CASE built[minute] # {}
    BY <1>6, <1>t, <2>1, FailsOnce, TriedAgain DEF Name, bucket, FirstTry
  <2>2. CASE built[minute] = {}
    <3>1. /\ pc = "build" /\ pc' = "address" /\ name' = minute
          /\ UNCHANGED <<tries, minute, files, writing, built, catalogs>>
      BY <1>6, <2>2 DEF Name, bucket
    <3>2. tries = Tries => catalogs[minute] = {}
      BY <1>t, <3>1 DEF FirstTry
    <3> QED
      BY <1>t, <3>1, <3>2 DEF FirstTry
  <2> QED
    BY <2>1, <2>2
<1>7. CASE AddressFile
  BY <1>7 DEF AddressFile, world, stage, bucket, FirstTry
<1>8. CASE AddressedAll
  <2>1. /\ pc = "address" /\ pc' = "copy"
        /\ UNCHANGED <<tries, minute, name, files, writing, built, catalogs>>
    BY <1>8 DEF AddressedAll, world, stage, bucket
  <2>2. tries = Tries => \A c \in Contents : files[c] # "torn"
    BY <2>1 DEF FirstTry, Empty
  <2> QED
    BY <2>1, <2>2 DEF FirstTry
<1>9. ASSUME NEW f \in dir, Create(f) PROVE FirstTry'
  <2>1. /\ pc = "copy" /\ pc' = "copy" /\ writing = {} /\ writing' = {f.content}
        /\ \A c \in Contents : c # f.content => files'[c] = files[c]
        /\ UNCHANGED <<tries, minute, name, built, catalogs>>
    BY <1>9 DEF Create, world, bucket, TypeOK
  <2> QED
    BY <2>1 DEF FirstTry
<1>10. CASE Fill
  <2>1. /\ pc = "copy" /\ pc' = "copy"
        /\ \A c \in Contents : files'[c] = IF c \in writing THEN "whole" ELSE files[c]
        /\ UNCHANGED <<tries, minute, name, built, catalogs>>
    BY <1>10 DEF Fill, world, bucket
  <2> QED
    BY <2>1 DEF FirstTry
<1>11. CASE RenameCatalog
  <2>1. /\ pc = "copy" /\ pc' = "index" /\ writing = {}
        /\ \A f \in dir : files[f.content] # "absent"
        /\ UNCHANGED <<tries, minute, name, files, writing, catalogs, input>>
    BY <1>11 DEF RenameCatalog, staging, world, bucket
  <2>2. \A c \in Written : \E f \in dir : f.content = c
    <3>1. dir = {File(Hash(input[k]), input[k]) : k \in 1..Len(input)}
      BY <2>1, AllDone
    <3>2. \A k \in 1..Len(input) :
            /\ File(Hash(input[k]), input[k]) \in dir
            /\ File(Hash(input[k]), input[k]).content = input[k]
      BY <3>1 DEF File
    <3> QED
      BY <3>2 DEF Written
  <2>3. tries = Tries => \A c \in Written : files[c] = "whole"
    BY <2>1, <2>2, WrittenContents DEF FirstTry, TypeOK, States
  <2> QED
    BY <2>1, <2>3 DEF FirstTry, Written
<1>12. CASE Index
  <2>1. CASE \A c \in Referenced \ Unread : files[c] = "whole"
    BY <1>12, <2>1 DEF Index, world, stage, bucket, FirstTry
  <2>2. CASE ~ \A c \in Referenced \ Unread : files[c] = "whole"
    BY <1>12, <2>2, FailsOnce, TriedAgain DEF Index, stage, bucket, FirstTry
  <2> QED
    BY <2>1, <2>2
<1>13. CASE Check
  <2>1. CASE pc' = "files" /\ UNCHANGED tries
    BY <1>13, <2>1 DEF Check, stage, bucket, FirstTry
  <2>2. CASE ContainerFails
    BY <1>13, <2>2, FailsOnce, TriedAgain DEF Check, stage, bucket, FirstTry
  <2> QED
    BY <1>13, <2>1, <2>2 DEF Check
<1>14. ASSUME NEW c \in Contents, Upload(c) PROVE FirstTry'
  BY <1>14 DEF Upload, staging, world, stage, FirstTry, Written
<1>15. CASE UploadedAll \/ UploadIndex \/ MoveRef
  BY <1>15 DEF UploadedAll, UploadIndex, MoveRef, world, stage, bucket, FirstTry
<1>16. CASE UploadCatalog
  <2>1. /\ pc' = "serving" /\ UNCHANGED <<minute, name>>
        /\ \A n \in Names : n # name => catalogs'[n] = catalogs[n]
    BY <1>16 DEF UploadCatalog, world, stage, TypeOK
  <2> QED
    BY <1>t, <2>1 DEF FirstTry
<1> QED
  BY <1>1, <1>2, <1>3, <1>4, <1>5, <1>6, <1>7, <1>8, <1>9, <1>10, <1>11, <1>12,
     <1>13, <1>14, <1>15, <1>16 DEF Next, Build, Publish

(* A job is not stopped by what jobs before it left: as long as no call of  *)
(* it fails and nothing is killed, Run finds its path free, all footers can *)
(* be read, and its name is not in the bucket.  The next undisturbed job    *)
(* therefore gets to its end if it goes on (NextJobRepairs).                *)
THEOREM FirstTryIsNotRefused == Spec => FirstTryRunsThrough
<1>1. Init => FirstTry
  BY JobAssumption DEF JobAssumption, Init, NoCatalogs, FirstTry, Names
<1>2. Inv /\ FirstTry /\ [Next]_vars => FirstTry'
  BY StepTries DEF Inv
<1>3. Inv /\ FirstTry /\ [Next]_vars =>
        [pc # "idle" /\ tries = Tries /\ (Build \/ Publish)
           => tries' = Tries /\ (pc' # "idle" \/ MoveRef)]_vars
  <2> SUFFICES ASSUME Inv, FirstTry, pc # "idle", tries = Tries, Build \/ Publish
               PROVE  tries' = Tries /\ (pc' # "idle" \/ MoveRef)
    OBVIOUS
  <2>1. CASE Name
    <3>1. built[minute] = {}
      BY <2>1 DEF Name, Inv, TypeOK, FirstTry, NoCatalogs
    <3> QED
      BY <2>1, <3>1 DEF Name
  <2>2. CASE Index
    <3>1. \A c \in Referenced \ Unread : files[c] = "whole"
      BY <2>2, AllDone DEF Index, Inv, FirstTry
    <3> QED
      BY <2>2, <3>1 DEF Index
  <2>3. CASE Check
    BY <2>3 DEF Check, FirstTry
  <2>4. CASE AddressFile \/ AddressedAll \/ (\E f \in dir : Create(f)) \/ Fill \/ RenameCatalog
    BY <2>4 DEF AddressFile, AddressedAll, Create, Fill, RenameCatalog
  <2>5. CASE (\E c \in Contents : Upload(c)) \/ UploadedAll \/ UploadCatalog \/ UploadIndex
    BY <2>5 DEF Upload, UploadedAll, UploadCatalog, UploadIndex
  <2>6. CASE MoveRef
    BY <2>6 DEF MoveRef
  <2> QED
    BY <2>1, <2>2, <2>3, <2>4, <2>5, <2>6 DEF Build, Publish
<1> QED
  BY <1>1, <1>2, <1>3, Invariance, PTL DEF Spec, FirstTryRunsThrough
=============================================================================
