----------------------------- MODULE MCPublish ------------------------------
(* Instances of Publish for TLC. *)
EXTENDS PublishProperties, TLC

CONSTANTS b1, b2, b3, x1, r1, r2, o1, o2, n1, n2, n3, c1, c2

(* Builds b3 and reader r2 use the second catalog path. *)
Paths == [p \in Jobs \cup Readers |-> IF p \in {b3, r2} THEN o2 ELSE o1]

(* Two builds race for a path with UUID names; one selects no feature.  The *)
(* directory of `collections` comes before that of `features`.              *)
RaceFiles == b1 :> <<n1, n2>> @@ b2 :> <<n3>> @@ b3 :> <<>>
RaceTree == b1 :> <<c1, n1, n2>> @@ b2 :> <<c2, n3>> @@ b3 :> <<>>
Together == [b \in Builds |-> {}]

(* Build b2 sorts its rows and b1 does not. *)
FirstInsert == [b \in Builds |-> IF b = b1 THEN 3 ELSE 4]
Snapshots == [b \in Builds |-> FirstInsert[b] + 1]

(***************************************************************************)
(* A job that builds with content hashes for names, retries with the same  *)
(* path, and then builds a later snapshot that shares files.               *)
(***************************************************************************)
RetryFiles == b1 :> <<n1, n2>> @@ b2 :> <<n1, n2>> @@ b3 :> <<n2, n3>>
RetryTree == [b \in Builds |-> <<c1>> \o RetryFiles[b]]
OneByOne == b1 :> {} @@ b2 :> {b1} @@ b3 :> {b1, b2}

=============================================================================
