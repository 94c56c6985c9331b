----------------------------- MODULE WriterJob ------------------------------
(***************************************************************************)
(* The hourly job that builds a snapshot and publishes it to an object     *)
(* store (charts/lakewing/templates/writer.yaml): the container `build`    *)
(* runs materialize.Run into the scratch volume /stage, then the container *)
(* `publish` uploads what is there and moves refs/latest.                  *)
(*                                                                         *)
(* A container that fails or is killed is started again on the same        *)
(* volume; a pod that is lost is replaced with an empty one; both count    *)
(* against the job's tries.  Jobs never overlap.  An upload of one object  *)
(* is atomic, as S3 makes it; a local copy is not.                         *)
(***************************************************************************)
EXTENDS ContentAddress

CONSTANTS
  Unread,   \* files of the table `collections`, which no index is about
  Minutes,  \* the clock goes up to this; catalogs are named after minutes
  Jobs,     \* how often the job is started
  Tries     \* how often a job starts a container or pod again

ASSUME JobAssumption ==
  /\ Unread \subseteq Contents
  /\ Minutes \in Nat /\ Jobs \in Nat /\ Tries \in Nat /\ Jobs < Minutes

Names == 0..Minutes

VARIABLES
  pc,       \* where the job is: "idle", or in a container
  tries, jobs, minute,
  calm,     \* nothing fails, is killed or is lost any more
  blind,    \* a list of the catalogs has failed
  drifted,  \* a build that was repeated in one pod gave other files
  name,     \* /stage/catalog-name
  files,    \* /stage/files: "absent", "torn" or "whole"
  writing,  \* of these, the one that is being written
  built,    \* /stage/<name>: the files a catalog refers to, {} for none
  data,     \* the data prefix of the bucket
  catalogs, \* catalogs/<name>
  indexes,  \* the names with a catalogs/<name>.serving.json
  ref       \* refs/latest, 0 for none

stage == <<name, files, writing, built>>
bucket == <<data, catalogs, indexes, ref>>
world == <<jobs, minute, calm, blind, drifted>>
vars == <<staging, pc, tries, world, stage, bucket>>

Empty == [c \in Contents |-> "absent"]
NoCatalogs == [n \in Names |-> {}]

Init ==
  /\ input \in Inputs /\ todo = 1 /\ dir = {} /\ stored = <<>> /\ unmatched = {}
  /\ pc = "idle" /\ tries = 0 /\ jobs = Jobs /\ minute = 0
  /\ calm = FALSE /\ blind = FALSE /\ drifted = FALSE
  /\ name = 0 /\ files = Empty /\ writing = {} /\ built = NoCatalogs
  /\ data = Empty /\ catalogs = NoCatalogs /\ indexes = {} /\ ref = 0

-----------------------------------------------------------------------------
(* Kubernetes *)

NewPod ==
  /\ pc' = "build" /\ input' \in Inputs
  /\ name' = 0 /\ files' = Empty /\ writing' = {} /\ built' = NoCatalogs

(* A job is due; between two jobs lies a minute at least, as with the hours *)
(* of the default schedule (Forbid alone would not promise it).             *)
Schedule ==
  /\ pc = "idle" /\ jobs > 0
  /\ NewPod
  /\ jobs' = jobs - 1 /\ tries' = Tries /\ minute' = minute + 1
  /\ UNCHANGED <<todo, dir, stored, unmatched, calm, blind, drifted, bucket>>

Tick ==
  /\ minute + jobs < Minutes
  /\ minute' = minute + 1
  /\ UNCHANGED <<staging, pc, tries, jobs, calm, blind, drifted, stage, bucket>>

Building == pc \in {"build", "address", "copy", "index"}
Publishing == pc \in {"check", "files", "catalog", "serving", "ref"}

(* OnFailure: the container that failed is started again, or the job fails. *)
ContainerFails ==
  IF tries > 0
  THEN /\ tries' = tries - 1
       /\ pc' = IF Building THEN "build" ELSE "check"
  ELSE tries' = tries /\ pc' = "idle"

(* A limit without an order need not select the same rows twice. *)
Again ==
  /\ input' \in IF Building THEN Inputs ELSE {input}
  /\ drifted' = (drifted \/ input' # input)

(* A call of a container fails, or the container is killed. *)
Crash ==
  /\ ~calm /\ pc # "idle"
  /\ ContainerFails /\ Again
  /\ writing' = {}
  /\ UNCHANGED <<todo, dir, stored, unmatched, jobs, minute, calm, blind, name, files, built, bucket>>

LosePod ==
  /\ ~calm /\ pc # "idle" /\ tries > 0
  /\ NewPod
  /\ tries' = tries - 1
  /\ UNCHANGED <<todo, dir, stored, unmatched, world, bucket>>

Calm ==
  /\ ~calm /\ calm' = TRUE
  /\ UNCHANGED <<staging, pc, tries, jobs, minute, blind, drifted, stage, bucket>>

-----------------------------------------------------------------------------
(* The container `build` *)

Name_Daily ==
  /\ pc = "build"
  /\ name' = 1
  /\ IF built[1] # {}
     THEN ContainerFails /\ Again /\ UNCHANGED <<todo, dir, stored, unmatched>>
     ELSE pc' = "address" /\ Staged /\ UNCHANGED <<tries, input, drifted>>
  /\ UNCHANGED <<jobs, minute, calm, blind, files, writing, built, bucket>>

(* The name is written first; materialize.Run refuses a path that exists. *)
Name ==
  /\ pc = "build"
  /\ name' = minute
  /\ IF built[minute] # {}
     THEN ContainerFails /\ Again /\ UNCHANGED <<todo, dir, stored, unmatched>>
     ELSE pc' = "address" /\ Staged /\ UNCHANGED <<tries, input, drifted>>
  /\ UNCHANGED <<jobs, minute, calm, blind, files, writing, built, bucket>>

AddressFile ==
  /\ pc = "address"
  /\ Address
  /\ UNCHANGED <<pc, tries, world, stage, bucket>>

AddressedAll ==
  /\ pc = "address" /\ AllAddressed
  /\ pc' = "copy"
  /\ UNCHANGED <<staging, tries, world, stage, bucket>>

(* publishTree leaves alone what exists. *)
Create(f) ==
  /\ pc = "copy" /\ writing = {}
  /\ f \in dir /\ files[f.content] = "absent"
  /\ files' = [files EXCEPT ![f.content] = "torn"]
  /\ writing' = {f.content}
  /\ UNCHANGED <<staging, pc, tries, world, name, built, bucket>>

Fill ==
  /\ pc = "copy" /\ writing # {}
  /\ files' = [c \in Contents |-> IF c \in writing THEN "whole" ELSE files[c]]
  /\ writing' = {}
  /\ UNCHANGED <<staging, pc, tries, world, name, built, bucket>>

RenameCatalog ==
  /\ pc = "copy" /\ writing = {}
  /\ \A f \in dir : files[f.content] # "absent"
  /\ built' = [built EXCEPT ![name] = Referenced]
  /\ pc' = "index"
  /\ UNCHANGED <<staging, tries, world, name, files, writing, bucket>>

Index_Tolerant ==
  /\ pc = "index"
  /\ pc' = "check" /\ UNCHANGED tries
  /\ UNCHANGED <<staging, world, stage, bucket>>

(* GenerateIndex reads the footers of all the files of the table `features`. *)
Index ==
  /\ pc = "index"
  /\ IF \A c \in Referenced \ Unread : files[c] = "whole"
     THEN pc' = "check" /\ UNCHANGED <<tries, input, drifted>>
     ELSE ContainerFails /\ Again
  /\ UNCHANGED <<todo, dir, stored, unmatched, jobs, minute, calm, blind, stage, bucket>>

-----------------------------------------------------------------------------
(* The container `publish` *)

Check_NoList ==
  /\ pc = "check"
  /\ pc' = "files" /\ UNCHANGED <<tries, blind>>
  /\ UNCHANGED <<staging, jobs, minute, calm, drifted, stage, bucket>>

(* A list that fails looks like one without the name. *)
Check ==
  /\ pc = "check"
  /\ \/ /\ IF catalogs[name] # {}
           THEN ContainerFails
           ELSE pc' = "files" /\ UNCHANGED tries
        /\ UNCHANGED blind
     \/ ~calm /\ blind' = TRUE /\ pc' = "files" /\ UNCHANGED tries
  /\ UNCHANGED <<staging, jobs, minute, calm, drifted, stage, bucket>>

(* rclone copy /stage/files: whatever is there, and differs. *)
Upload(c) ==
  /\ pc = "files" /\ files[c] # "absent" /\ data[c] # files[c]
  /\ data' = [data EXCEPT ![c] = files[c]]
  /\ UNCHANGED <<staging, pc, tries, world, stage, catalogs, indexes, ref>>

UploadedAll_Background ==
  /\ pc = "files"
  /\ pc' = "catalog"
  /\ UNCHANGED <<staging, tries, world, stage, bucket>>

UploadedAll ==
  /\ pc = "files"
  /\ \A c \in Contents : files[c] # "absent" => data[c] = files[c]
  /\ pc' = "catalog"
  /\ UNCHANGED <<staging, tries, world, stage, bucket>>

UploadCatalog_ThenRef ==
  /\ pc = "catalog"
  /\ catalogs' = [catalogs EXCEPT ![name] = built[name]]
  /\ ref' = name
  /\ pc' = "serving"
  /\ UNCHANGED <<staging, tries, world, stage, data, indexes>>

UploadCatalog ==
  /\ pc = "catalog"
  /\ catalogs' = [catalogs EXCEPT ![name] = built[name]]
  /\ pc' = "serving"
  /\ UNCHANGED <<staging, tries, world, stage, data, indexes, ref>>

UploadIndex ==
  /\ pc = "serving"
  /\ indexes' = indexes \cup {name}
  /\ pc' = "ref"
  /\ UNCHANGED <<staging, tries, world, stage, data, catalogs, ref>>

MoveRef ==
  /\ pc = "ref"
  /\ ref' = name
  /\ pc' = "idle"
  /\ UNCHANGED <<staging, tries, world, stage, data, catalogs, indexes>>

Build ==
  \/ Name \/ AddressFile \/ AddressedAll
  \/ (\E f \in dir : Create(f)) \/ Fill \/ RenameCatalog \/ Index
Publish ==
  \/ Check \/ (\E c \in Contents : Upload(c)) \/ UploadedAll
  \/ UploadCatalog \/ UploadIndex \/ MoveRef

Next == Schedule \/ Tick \/ Crash \/ LosePod \/ Calm \/ Build \/ Publish

Spec == Init /\ [][Next]_vars

(* Jobs are started, and containers run. *)
FairSpec == Spec /\ WF_vars(Schedule) /\ WF_vars(Build) /\ WF_vars(Publish)

-----------------------------------------------------------------------------
States == {"absent", "torn", "whole"}

(* The type of every variable. *)
TypeOK ==
  /\ input \in Inputs /\ todo \in Nat /\ unmatched \subseteq {Uuid(i) : i \in DOMAIN stored}
  /\ \A f \in dir : f.content \in Contents
  /\ pc = "idle" \/ Building \/ Publishing
  /\ tries \in 0..Tries /\ jobs \in 0..Jobs /\ minute \in Names /\ minute + jobs <= Minutes
  /\ calm \in BOOLEAN /\ blind \in BOOLEAN /\ drifted \in BOOLEAN
  /\ name \in Names /\ files \in [Contents -> States]
  /\ writing \subseteq Contents
  /\ built \in [Names -> SUBSET Contents]
  /\ data \in [Contents -> States]
  /\ catalogs \in [Names -> SUBSET Contents]
  /\ indexes \subseteq Names /\ ref \in Names

(* When contentAddressData is done, every row of the catalog names a staged *)
(* file that has the contents that were written for it, and every staged    *)
(* file has the name of its contents.                                       *)
NamesAreContent ==
  pc \in {"copy", "index"} =>
    /\ \A k \in DOMAIN input : File(stored[k], input[k]) \in dir
    /\ \A f \in dir : f.name = Hash(f.content)

(* writer.yaml copies the data before the catalog: when a catalog appears   *)
(* in the bucket, the files of its features are there and whole, although a *)
(* build that was killed may have left torn files on the volume.            *)
PublishedWhole ==
  [][\A n \in Names :
       catalogs'[n] # catalogs[n] =>
         \A c \in catalogs'[n] \ Unread : data'[c] = "whole"]_vars

(* "Additive only: never delete data another snapshot references"           *)
(* (writer.yaml:66): the features of a published catalog stay whole, unless *)
(* a build that is repeated in one pod gives other files.                   *)
CatalogsComplete ==
  \A n \in Names :
    catalogs[n] # {} /\ ~drifted => \A c \in catalogs[n] \ Unread : data[c] = "whole"

(* "Publication is atomic ...: data files publish first ..., then the       *)
(* catalog that references them" (README.md:84): what refs/latest names is  *)
(* there, all of it.  It is not: see the run doc_torn_collections.          *)
RefIsReadable == ref # 0 => \A c \in catalogs[ref] : data[c] = "whole"

(* refs/latest is moved last: the snapshot it names has its catalog and its *)
(* serving index in the bucket.                                             *)
RefIsComplete == ref # 0 => catalogs[ref] # {} /\ ref \in indexes

(* "catalog keys are never overwritten" (writer.yaml:7), unless the list of *)
(* the keys failed, whose error the job throws away.                        *)
CatalogsAreKept ==
  [][\A n \in Names : catalogs[n] # {} /\ ~blind' => catalogs'[n] = catalogs[n]]_vars

(* Whatever killed jobs have left in the bucket, the next job that runs     *)
(* undisturbed publishes its snapshot and moves refs/latest to it: its      *)
(* catalog has a name that no earlier job has used.                         *)
NextJobRepairs ==
  \A j \in 1..Jobs :
    calm /\ pc = "idle" /\ jobs = j ~> jobs = j - 1 /\ ref = name /\ ref # 0

(* The first try of a job is not stopped by its own checks, whatever the    *)
(* jobs before it left: Run finds its path free, GenerateIndex finds whole  *)
(* files, and the name is not taken (why NextJobRepairs holds).             *)
FirstTryRunsThrough ==
  [][pc # "idle" /\ tries = Tries /\ (Build \/ Publish)
       => tries' = Tries /\ (pc' # "idle" \/ MoveRef)]_vars

(* A snapshot is the set of its files, and a catalog has at least one.      *)
Snapshots == (SUBSET Contents) \ {{}}

(* The bucket is a SnapshotStore, whose readers are not modelled here.      *)
Store == INSTANCE SnapshotStore WITH
           Paths <- Names,
           Readers <- {}, PathOf <- [r \in {} |-> 0],
           DataFirst <- TRUE,
           None <- {},
           catalog <- catalogs,
           complete <- {S \in Snapshots :
                          \A c \in S \ Unread : data[c] = "whole"},
           listed <- [n \in Names |-> IF n \in indexes THEN catalogs[n] ELSE {}],
           opened <- [r \in {} |-> {}],
           pruning <- {}

(* Restarted containers, lost pods and later jobs do to the bucket what a   *)
(* SnapshotStore allows: data before the catalog, the index after it, and   *)
(* no key twice; unless a list of the keys failed or a build that was       *)
(* repeated in one pod gave other files.                                    *)
BucketIsStore ==
  Store!Init /\ [][~drifted' /\ ~blind' => [Store!Next]_(Store!vars)]_vars
=============================================================================
