----------------------------- MODULE PoolProofs -----------------------------
(***************************************************************************)
(* Proofs about the admission control of Pool, for any number of callers,  *)
(* connections, lane tokens and waiters.  The inductive invariant is       *)
(* TypeOK /\ LeaseExclusive /\ Accounting of PoolProperties: it says for   *)
(* every label of a caller what that caller holds, so that the containers  *)
(* (semaphore, free list, lane, counter) and the callers add up.           *)
(***************************************************************************)
EXTENDS PoolProperties, FiniteSetTheorems, WellFoundedInduction, TLAPS

-----------------------------------------------------------------------------
(* Initial states and the type invariant *)

(* Every variable has its type when Open returns. *)
LEMMA InitTypeOK == Init => TypeOK
<1> SUFFICES ASSUME Init PROVE TypeOK
  OBVIOUS
<1>1. Connections \in 0 .. Connections /\ BulkLimit \in 0 .. BulkLimit
  BY PoolAssumption
<1>2. pool \in Seq(Conns)
  BY <1>1 DEF Init
<1>3. /\ pc \in [Requests -> Labels]
      /\ conn \in [Requests -> Conns \cup {NoConn}]
      /\ ahead \in [Requests -> SUBSET Requests]
  BY DEF Init, Labels
<1>4. sem \in 0 .. Connections /\ lane \in 0 .. BulkLimit
  BY <1>1 DEF Init
<1>5. queued \in Int
  BY DEF Init
<1>6. closed \in BOOLEAN
  BY Zenon DEF Init
<1> QED
  BY <1>2, <1>3, <1>4, <1>5, <1>6 DEF TypeOK

(* The mutex hands the caller the top of the free list, and keeps the rest. *)
LEMMA PopShape ==
  ASSUME pool \in Seq(Conns), pool # <<>>,
         pool' = SubSeq(pool, 1, Len(pool) - 1)
  PROVE  /\ Len(pool) \in Nat \ {0}
         /\ pool[Len(pool)] \in Conns
         /\ pool' \in Seq(Conns)
         /\ Len(pool') = Len(pool) - 1
         /\ DOMAIN pool = 1 .. Len(pool)
         /\ DOMAIN pool' = 1 .. (Len(pool) - 1)
         /\ \A i \in DOMAIN pool' : pool'[i] = pool[i]
<1>1. Len(pool) \in Nat \ {0} /\ DOMAIN pool = 1 .. Len(pool)
  OBVIOUS
<1>2. pool[Len(pool)] \in Conns
  BY <1>1
<1>3. \A i \in 1 .. Len(pool) - 1 : pool[i] \in Conns
  BY <1>1
<1>4. pool' \in Seq(Conns) /\ Len(pool') = Len(pool) - 1
  BY <1>1, <1>3
<1>5. \A i \in 1 .. Len(pool) - 1 : pool'[i] = pool[i]
  BY <1>1
<1>6. DOMAIN pool' = 1 .. Len(pool) - 1
  BY <1>4
<1> QED
  BY <1>1, <1>2, <1>4, <1>5, <1>6

(* A released connection goes on top of the free list. *)
LEMMA ReleaseShape ==
  ASSUME pool \in Seq(Conns), NEW c \in Conns, pool' = Append(pool, c)
  PROVE  /\ Len(pool) \in Nat
         /\ pool' \in Seq(Conns)
         /\ Len(pool') = Len(pool) + 1
         /\ DOMAIN pool = 1 .. Len(pool)
         /\ DOMAIN pool' = 1 .. (Len(pool) + 1)
         /\ \A i \in DOMAIN pool : pool'[i] = pool[i]
         /\ pool'[Len(pool) + 1] = c
  OBVIOUS

(* Queueing changes `ahead` within its type. *)
LEMMA QueueType ==
  ASSUME TypeOK, NEW r \in Requests,
         \/ \E l : Block(r, l)
         \/ Unblock(r)
         \/ UNCHANGED ahead
  PROVE  ahead' \in [Requests -> SUBSET Requests]
  BY DEF TypeOK, Block, Unblock, At

(* Every step keeps the type of every variable. *)
LEMMA TypeStep ==
  ASSUME TypeOK, Conforms, [Next]_vars
  PROVE  TypeOK'
<1> USE PoolAssumption
<1>0. CASE UNCHANGED vars
  BY <1>0 DEF vars, TypeOK
<1>1. CASE Close
  BY <1>1 DEF Close, TypeOK
<1>2. ASSUME NEW r \in Requests, Step(r) \/ Client(r) PROVE TypeOK'
  <2>1. CASE Call(r)
    BY <2>1, QueueType DEF Call, Goto, TypeOK, Labels
  <2>2. CASE TakeLane(r)
    BY <2>2, QueueType DEF TakeLane, Goto, TypeOK, Labels
  <2>3. CASE CancelLane(r)
    BY <2>3, QueueType DEF CancelLane, Goto, TypeOK, Labels
  <2>4. CASE Count(r)
    BY <2>4, QueueType DEF Count, Goto, TypeOK, Labels
  <2>5. CASE TakePermit(r)
    BY <2>5, QueueType DEF TakePermit, Goto, TypeOK, Labels
  <2>6. CASE Timeout(r)
    BY <2>6, QueueType DEF Timeout, Goto, TypeOK, Labels
  <2>7. CASE Dequeue(r)
    BY <2>7, QueueType DEF Dequeue, Goto, TypeOK, Labels
  <2>8. CASE Exhausted(r)
    BY <2>8, QueueType DEF Exhausted, Goto, TypeOK, Labels
  <2>9. CASE ExhaustedLane(r)
    BY <2>9, QueueType DEF ExhaustedLane, Goto, TypeOK, Labels
  <2>10. CASE UndoCount(r)
    BY <2>10, QueueType DEF UndoCount, Goto, TypeOK, Labels
  <2>11. CASE UndoLane(r)
    BY <2>11, QueueType DEF UndoLane, Goto, TypeOK, Labels
  <2>12. CASE Stall(r)
    BY <2>12, QueueType DEF Stall, Goto, TypeOK, Labels
  <2>13. CASE Resume(r)
    BY <2>13, QueueType DEF Resume, Goto, TypeOK, Labels
  <2>14. CASE ReturnPermit(r)
    BY <2>14, QueueType DEF ReturnPermit, Goto, TypeOK, Labels
  <2>15. CASE ReturnLane(r)
    BY <2>15, QueueType DEF ReturnLane, Goto, TypeOK, Labels
  <2>16. CASE Pop(r)
    BY <2>16, PopShape DEF Pop, Goto, TypeOK, Labels
  <2>17. CASE Release(r)
    <3>1. conn[r] \in Conns
      BY <2>17 DEF Release, Conforms, WithConn, In, TypeOK
    <3> QED
      BY <2>17, <3>1, ReleaseShape DEF Release, Goto, TypeOK, Labels
  <2> QED
    BY <1>2, <2>1, <2>2, <2>3, <2>4, <2>5, <2>6, <2>7, <2>8, <2>9,
       <2>10, <2>11, <2>12, <2>13, <2>14, <2>15, <2>16, <2>17
    DEF Step, Client
<1> QED
  BY <1>0, <1>1, <1>2 DEF Next

-----------------------------------------------------------------------------
(* Leases *)

(* Only Pop takes a connection, only the release gives one back. *)
LEMMA ConformsStep ==
  ASSUME TypeOK, Conforms, [Next]_vars
  PROVE  Conforms'
<1> USE DEF Conforms, WithConn, In, Goto, TypeOK
<1>0. CASE UNCHANGED vars
  BY <1>0 DEF vars
<1>1. CASE Close
  BY <1>1 DEF Close
<1>2. ASSUME NEW r \in Requests, Step(r) \/ Client(r) PROVE Conforms'
  <2>1. CASE Pop(r)
    <3>1. pool[Len(pool)] # NoConn
      BY <2>1, PopShape, PoolAssumption DEF Pop
    <3> QED
      BY <2>1, <3>1 DEF Pop
  <2>2. CASE Release(r)
    BY <2>2 DEF Release
  <2>3. CASE Call(r) \/ TakeLane(r) \/ CancelLane(r) \/ Count(r) \/ TakePermit(r)
    BY <2>3 DEF Call, TakeLane, CancelLane, Count, TakePermit
  <2>4. CASE Timeout(r) \/ Dequeue(r) \/ Exhausted(r) \/ ExhaustedLane(r)
    BY <2>4 DEF Timeout, Dequeue, Exhausted, ExhaustedLane
  <2>5. CASE UndoCount(r) \/ UndoLane(r) \/ ReturnPermit(r) \/ ReturnLane(r)
    BY <2>5 DEF UndoCount, UndoLane, ReturnPermit, ReturnLane
  <2>6. CASE Stall(r) \/ Resume(r)
    BY <2>6 DEF Stall, Resume
  <2> QED
    BY <1>2, <2>1, <2>2, <2>3, <2>4, <2>5, <2>6 DEF Step, Client
<1> QED
  BY <1>0, <1>1, <1>2 DEF Next

(* Only Pop, Release and Close touch a connection. *)
LEMMA LeaseStep ==
  ASSUME TypeOK, Conforms, LeaseExclusive, [Next]_vars
  PROVE  LeaseExclusive'
<1> USE DEF LeaseExclusive
<1>0. CASE UNCHANGED <<conn, pool>>
  BY <1>0
<1>1. CASE Close
  BY <1>1 DEF Close
<1>2. ASSUME NEW r \in Requests, Pop(r) PROVE LeaseExclusive'
  <2> DEFINE c == pool[Len(pool)]
  <2>1. /\ Len(pool) \in DOMAIN pool
        /\ Len(pool) \notin DOMAIN pool'
        /\ \A i \in DOMAIN pool' : i \in DOMAIN pool /\ pool'[i] = pool[i]
    BY <1>2, PopShape DEF Pop, TypeOK
  <2>2. conn' = [conn EXCEPT ![r] = c]
    BY <1>2 DEF Pop
  <2>3. \A q \in Requests : conn[q] # c
    BY <2>1
  <2>4. \A i \in DOMAIN pool' : pool'[i] # c
    BY <2>1
  <2> QED
    BY <2>1, <2>2, <2>3, <2>4 DEF TypeOK
<1>3. ASSUME NEW r \in Requests, Release(r) PROVE LeaseExclusive'
  <2> DEFINE c == conn[r]
  <2>1. c \in Conns /\ pc[r] = "run"
    BY <1>3 DEF Release, Conforms, WithConn, In, TypeOK
  <2>2. /\ DOMAIN pool' = DOMAIN pool \cup {Len(pool) + 1}
        /\ \A i \in DOMAIN pool : pool'[i] = pool[i]
        /\ pool'[Len(pool) + 1] = c
    BY <1>3, <2>1, ReleaseShape DEF Release, TypeOK
  <2>3. \A i \in DOMAIN pool : pool[i] # c /\ pool[i] \in Conns
    BY DEF TypeOK
  <2>4. conn' = [conn EXCEPT ![r] = NoConn] /\ NoConn \notin Conns
    BY <1>3, PoolAssumption DEF Release
  <2>5. \A q, p \in Requests : conn'[q] = conn'[p] /\ conn'[q] # NoConn => q = p
    BY <2>4 DEF TypeOK
  <2>6. \A i, j \in DOMAIN pool' : pool'[i] = pool'[j] => i = j
    BY <2>2, <2>3
  <2>7. \A i \in DOMAIN pool', q \in Requests : pool'[i] # conn'[q]
    BY <2>1, <2>2, <2>3, <2>4 DEF TypeOK
  <2> QED
    BY <2>5, <2>6, <2>7
<1>4. ASSUME NEW r \in Requests, Step(r) \/ Client(r), ~Pop(r), ~Release(r)
      PROVE  UNCHANGED <<conn, pool>>
  BY <1>4 DEF Step, Client, Call, TakeLane, CancelLane, Count, TakePermit,
       Timeout, Dequeue, Exhausted, ExhaustedLane, UndoCount, UndoLane,
       ReturnPermit, ReturnLane, Stall, Resume
<1> QED
  BY <1>0, <1>1, <1>2, <1>3, <1>4 DEF Next, vars

-----------------------------------------------------------------------------
(* Counting callers *)

(* What a move of one caller adds to the number of callers in a label set. *)
Delta(from, to, L) ==
  (IF to \in L THEN 1 ELSE 0) - (IF from \in L THEN 1 ELSE 0)

(* The callers of S that are at a label of L, when `at` says where each is. *)
Held(at, S, L) == {q \in S : at[q] \in L}

(* One caller moves: the count of those of S at a label in L follows. *)
LEMMA CountMove ==
  ASSUME TypeOK, NEW r \in Requests, NEW l \in Labels, Goto(r, l),
         NEW S \in SUBSET Requests, NEW L
  PROVE  /\ Cardinality(Held(pc, S, L)) \in Nat
         /\ Cardinality(Held(pc', S, L)) = Cardinality(Held(pc, S, L))
              + IF r \in S THEN Delta(pc[r], l, L) ELSE 0
<1> DEFINE T == Held(pc, S, L)
           U == Held(pc', S, L)
<1>1. IsFiniteSet(T) /\ Cardinality(T) \in Nat
  <2>1. IsFiniteSet(S)
    BY PoolAssumption, FS_Subset
  <2>2. T \in SUBSET S
    BY DEF Held
  <2> QED
    BY <2>1, <2>2, FS_Subset, FS_CardinalityType
<1>2. U = IF r \in S
            THEN IF l \in L THEN T \cup {r} ELSE T \ {r}
            ELSE T
  BY DEF Held, Goto, TypeOK
<1>3. r \in S => (r \in T <=> pc[r] \in L)
  BY DEF Held
<1>4. /\ Cardinality(T \cup {r}) =
             IF r \in T THEN Cardinality(T) ELSE Cardinality(T) + 1
      /\ Cardinality(T \ {r}) =
             IF r \in T THEN Cardinality(T) - 1 ELSE Cardinality(T)
  BY <1>1, FS_AddElement, FS_RemoveElement
<1> HIDE DEF T, U
<1>5. Cardinality(U) = Cardinality(T)
         + IF r \in S THEN Delta(pc[r], l, L) ELSE 0
  BY <1>1, <1>2, <1>3, <1>4 DEF Delta
<1> QED
  BY <1>1, <1>5 DEF T, U

(* The label sets of the books. *)
PermitLabels == {"dequeue", "pop", "run", "stalled", "retSem"}
PermitOnlyLabels == {"dequeue", "pop", "retSem"}
CountedLabels == {"semWait", "dequeue", "undoCount"}
WaitingLabels == {"semWait", "dequeue"}
LaneLabels == Labels \ {"idle", "laneWait"}

(* The counts the books speak of, before and after one caller moves. *)
LEMMA Moves ==
  ASSUME TypeOK, NEW r \in Requests, NEW l \in Labels, Goto(r, l)
  PROVE  /\ Cardinality(WithPermit) \in Nat
         /\ Cardinality(PermitOnly) \in Nat
         /\ Cardinality(Counted) \in Nat
         /\ Cardinality(Waiting) \in Nat
         /\ Cardinality(InLane) \in Nat
         /\ Cardinality(WithPermit)' =
              Cardinality(WithPermit) + Delta(pc[r], l, PermitLabels)
         /\ Cardinality(PermitOnly)' =
              Cardinality(PermitOnly) + Delta(pc[r], l, PermitOnlyLabels)
         /\ Cardinality(Counted)' =
              Cardinality(Counted) + Delta(pc[r], l, CountedLabels)
         /\ Cardinality(Waiting)' =
              Cardinality(Waiting) + Delta(pc[r], l, WaitingLabels)
         /\ Cardinality(InLane)' = Cardinality(InLane)
              + IF UsesLane(r) THEN Delta(pc[r], l, LaneLabels) ELSE 0
<1>1. /\ WithPermit = Held(pc, Requests, PermitLabels)
      /\ WithPermit' = Held(pc', Requests, PermitLabels)
  BY DEF WithPermit, In, Held, PermitLabels
<1>2. /\ PermitOnly = Held(pc, Requests, PermitOnlyLabels)
      /\ PermitOnly' = Held(pc', Requests, PermitOnlyLabels)
  BY DEF PermitOnly, In, Held, PermitOnlyLabels
<1>3. /\ Counted = Held(pc, Requests, CountedLabels)
      /\ Counted' = Held(pc', Requests, CountedLabels)
  BY DEF Counted, In, Held, CountedLabels
<1>4. /\ Waiting = Held(pc, Requests, WaitingLabels)
      /\ Waiting' = Held(pc', Requests, WaitingLabels)
  BY DEF Waiting, In, Held, WaitingLabels
<1> DEFINE LaneUsers == {q \in Requests : UsesLane(q)}
<1>5. /\ InLane = Held(pc, LaneUsers, LaneLabels)
      /\ InLane' = Held(pc', LaneUsers, LaneLabels)
  BY DEF InLane, Held, LaneLabels, TypeOK, Goto, UsesLane, HasLane
<1>6. LaneUsers \in SUBSET Requests /\ (r \in LaneUsers <=> UsesLane(r))
  OBVIOUS
<1> HIDE DEF LaneUsers
<1> QED
  BY <1>1, <1>2, <1>3, <1>4, <1>5, <1>6, CountMove

-----------------------------------------------------------------------------
(* The books *)

(* Before Close, a caller with a permit is one with a connection on the list. *)
LEMMA PermitMeansConn ==
  ASSUME TypeOK, Accounting, ~closed, NEW r \in Requests, pc[r] = "pop"
  PROVE  pool # <<>>
<1>1. IsFiniteSet(PermitOnly) /\ r \in PermitOnly
  BY PoolAssumption, FS_Subset DEF PermitOnly, In
<1>2. Cardinality(PermitOnly) \in Nat \ {0}
  BY <1>1, FS_CardinalityType, FS_EmptySet
<1>3. Len(pool) \in Nat \ {0}
  BY <1>2 DEF TypeOK, Accounting, Books
<1> QED
  BY <1>3

(* Every waiting caller is counted. *)
LEMMA WaitingCounted ==
  Cardinality(Waiting) <= Cardinality(Counted)
<1>1. IsFiniteSet(Counted)
  BY PoolAssumption, FS_Subset DEF Counted, In
<1>2. Waiting \in SUBSET Counted
  BY DEF Waiting, Counted, In
<1> QED
  BY <1>1, <1>2, FS_Subset

(* How a step of caller r changes the five counts of the books. *)
Shift(r, permit, only, counted, waiting, inLane) ==
  /\ {Cardinality(WithPermit), Cardinality(PermitOnly), Cardinality(Counted),
      Cardinality(Waiting), Cardinality(InLane)} \subseteq Nat
  /\ Cardinality(WithPermit)' = Cardinality(WithPermit) + permit
  /\ Cardinality(PermitOnly)' = Cardinality(PermitOnly) + only
  /\ Cardinality(Counted)' = Cardinality(Counted) + counted
  /\ Cardinality(Waiting)' = Cardinality(Waiting) + waiting
  /\ Cardinality(InLane)' =
       Cardinality(InLane) + IF UsesLane(r) THEN inLane ELSE 0

(* The move of a caller from one label to another, as a shift. *)
LEMMA ShiftOf ==
  ASSUME TypeOK, NEW r \in Requests, NEW l \in Labels, Goto(r, l)
  PROVE  Shift(r, Delta(pc[r], l, PermitLabels),
                  Delta(pc[r], l, PermitOnlyLabels),
                  Delta(pc[r], l, CountedLabels),
                  Delta(pc[r], l, WaitingLabels),
                  Delta(pc[r], l, LaneLabels))
  BY Moves DEF Shift

(* Until Close every move of a caller keeps the books balanced. *)
LEMMA BooksStep ==
  ASSUME TypeOK, Accounting, ~closed, NEW r \in Requests,
         Step(r) \/ Client(r)
  PROVE  Books'
<1>b. /\ Books
      /\ sem \in Int /\ lane \in Int /\ queued \in Int /\ Len(pool) \in Int
      /\ MaxWaiters \in Int /\ BulkLimit \in Int /\ Connections \in Int
  BY PoolAssumption DEF Accounting, TypeOK
<1>0. pc[r] \in {"laneWait", "undoLane", "retLane"} => UsesLane(r)
  BY DEF Accounting, In
<1>1. Count(r) => queued' \in Int /\ MaxWaiters \in Int /\ queued' = queued + 1
  BY PoolAssumption DEF Count, TypeOK
<1>2. /\ Len(pool) \in Nat
      /\ Pop(r) => Len(pool') = Len(pool) - 1
      /\ Release(r) => Len(pool') = Len(pool) + 1
  <2>1. Pop(r) => Len(pool') = Len(pool) - 1
    BY PopShape DEF Pop, TypeOK
  <2>2. Release(r) => conn[r] \in Conns
    BY DEF Release, Accounting, Conforms, WithConn, In, TypeOK
  <2>3. Release(r) => Len(pool') = Len(pool) + 1
    BY <2>2, ReleaseShape DEF Release, TypeOK
  <2> QED
    BY <2>1, <2>3 DEF TypeOK
<1>3. CASE Call(r) /\ UsesLane(r)
  <2>1. pc[r] = "idle" /\ Goto(r, "laneWait")
    BY <1>3 DEF Call, Goto
  <2>2. Shift(r, 0, 0, 0, 0, 0)
    BY <2>1, ShiftOf DEF Delta, PermitLabels, PermitOnlyLabels,
         CountedLabels, WaitingLabels, LaneLabels, Labels
  <2>3. sem' = sem /\ lane' = lane /\ queued' = queued /\ Len(pool') = Len(pool)
    BY <1>3 DEF Call
  <2> QED
    BY <1>b, <1>3, <2>2, <2>3 DEF Shift, Books, QueueBound
<1>4. CASE Call(r) /\ ~UsesLane(r)
  <2>1. pc[r] = "idle" /\ Goto(r, "count")
    BY <1>4 DEF Call, Goto
  <2>2. Shift(r, 0, 0, 0, 0, 1)
    BY <2>1, ShiftOf DEF Delta, PermitLabels, PermitOnlyLabels,
         CountedLabels, WaitingLabels, LaneLabels, Labels
  <2>3. sem' = sem /\ lane' = lane /\ queued' = queued /\ Len(pool') = Len(pool)
    BY <1>4 DEF Call
  <2> QED
    BY <1>b, <1>4, <2>2, <2>3 DEF Shift, Books, QueueBound
<1>5. CASE TakeLane(r)
  <2>1. pc[r] = "laneWait" /\ Goto(r, "count")
    BY <1>5 DEF TakeLane
  <2>2. Shift(r, 0, 0, 0, 0, 1)
    BY <2>1, ShiftOf DEF Delta, PermitLabels, PermitOnlyLabels,
         CountedLabels, WaitingLabels, LaneLabels, Labels
  <2>3. sem' = sem /\ lane' = lane - 1 /\ queued' = queued /\ Len(pool') = Len(pool)
    BY <1>5 DEF TakeLane
  <2> QED
    BY <1>b, <2>2, <2>3, <2>1, <1>0 DEF Shift, Books, QueueBound
<1>6. CASE CancelLane(r)
  <2>1. pc[r] = "laneWait" /\ Goto(r, "idle")
    BY <1>6 DEF CancelLane
  <2>2. Shift(r, 0, 0, 0, 0, 0)
    BY <2>1, ShiftOf DEF Delta, PermitLabels, PermitOnlyLabels,
         CountedLabels, WaitingLabels, LaneLabels, Labels
  <2>3. sem' = sem /\ lane' = lane /\ queued' = queued /\ Len(pool') = Len(pool)
    BY <1>6 DEF CancelLane
  <2> QED
    BY <1>b, <2>2, <2>3 DEF Shift, Books, QueueBound
<1>7. CASE Count(r) /\ queued' > MaxWaiters
  <2>1. pc[r] = "count" /\ Goto(r, "undoCount")
    BY <1>7, <1>1 DEF Count
  <2>2. Shift(r, 0, 0, 1, 0, 0)
    BY <2>1, ShiftOf DEF Delta, PermitLabels, PermitOnlyLabels,
         CountedLabels, WaitingLabels, LaneLabels, Labels
  <2>3. sem' = sem /\ lane' = lane /\ queued' = queued + 1 /\ Len(pool') = Len(pool)
    BY <1>7 DEF Count
  <2> QED
    BY <1>b, <1>7, <2>2, <2>3 DEF Shift, Books, QueueBound
<1>8. CASE Count(r) /\ ~(queued' > MaxWaiters)
  <2>1. pc[r] = "count" /\ Goto(r, "semWait")
    BY <1>8, <1>1 DEF Count
  <2>2. Shift(r, 0, 0, 1, 1, 0)
    BY <2>1, ShiftOf DEF Delta, PermitLabels, PermitOnlyLabels,
         CountedLabels, WaitingLabels, LaneLabels, Labels
  <2>3. sem' = sem /\ lane' = lane /\ queued' = queued + 1 /\ Len(pool') = Len(pool)
    BY <1>8 DEF Count
  <2> QED
    BY <1>b, <1>8, <2>2, <2>3, <1>1, WaitingCounted DEF Shift, Books, QueueBound
<1>9. CASE TakePermit(r)
  <2>1. pc[r] = "semWait" /\ Goto(r, "dequeue")
    BY <1>9 DEF TakePermit
  <2>2. Shift(r, 1, 1, 0, 0, 0)
    BY <2>1, ShiftOf DEF Delta, PermitLabels, PermitOnlyLabels,
         CountedLabels, WaitingLabels, LaneLabels, Labels
  <2>3. sem' = sem - 1 /\ lane' = lane /\ queued' = queued /\ Len(pool') = Len(pool)
    BY <1>9 DEF TakePermit
  <2> QED
    BY <1>b, <2>2, <2>3 DEF Shift, Books, QueueBound
<1>10. CASE Timeout(r)
  <2>1. pc[r] = "semWait" /\ Goto(r, "undoCount")
    BY <1>10 DEF Timeout
  <2>2. Shift(r, 0, 0, 0, -1, 0)
    BY <2>1, ShiftOf DEF Delta, PermitLabels, PermitOnlyLabels,
         CountedLabels, WaitingLabels, LaneLabels, Labels
  <2>3. sem' = sem /\ lane' = lane /\ queued' = queued /\ Len(pool') = Len(pool)
    BY <1>10 DEF Timeout
  <2> QED
    BY <1>b, <2>2, <2>3 DEF Shift, Books, QueueBound
<1>11. CASE Dequeue(r)
  <2>1. pc[r] = "dequeue" /\ Goto(r, "pop")
    BY <1>11 DEF Dequeue
  <2>2. Shift(r, 0, 0, -1, -1, 0)
    BY <2>1, ShiftOf DEF Delta, PermitLabels, PermitOnlyLabels,
         CountedLabels, WaitingLabels, LaneLabels, Labels
  <2>3. sem' = sem /\ lane' = lane /\ queued' = queued - 1 /\ Len(pool') = Len(pool)
    BY <1>11 DEF Dequeue
  <2> QED
    BY <1>b, <2>2, <2>3 DEF Shift, Books, QueueBound
<1>12. CASE Pop(r)
  <2>1. pc[r] = "pop" /\ Goto(r, "run")
    BY <1>12 DEF Pop
  <2>2. Shift(r, 0, -1, 0, 0, 0)
    BY <2>1, ShiftOf DEF Delta, PermitLabels, PermitOnlyLabels,
         CountedLabels, WaitingLabels, LaneLabels, Labels
  <2>3. sem' = sem /\ lane' = lane /\ queued' = queued /\ Len(pool') = Len(pool) - 1
    BY <1>12, <1>2 DEF Pop
  <2> QED
    BY <1>b, <2>2, <2>3 DEF Shift, Books, QueueBound
<1>13. CASE UndoCount(r) /\ UsesLane(r)
  <2>1. pc[r] = "undoCount" /\ Goto(r, "undoLane")
    BY <1>13 DEF UndoCount
  <2>2. Shift(r, 0, 0, -1, 0, 0)
    BY <2>1, ShiftOf DEF Delta, PermitLabels, PermitOnlyLabels,
         CountedLabels, WaitingLabels, LaneLabels, Labels
  <2>3. sem' = sem /\ lane' = lane /\ queued' = queued - 1 /\ Len(pool') = Len(pool)
    BY <1>13 DEF UndoCount
  <2> QED
    BY <1>b, <1>13, <2>2, <2>3 DEF Shift, Books, QueueBound
<1>14. CASE UndoCount(r) /\ ~UsesLane(r)
  <2>1. pc[r] = "undoCount" /\ Goto(r, "idle")
    BY <1>14 DEF UndoCount
  <2>2. Shift(r, 0, 0, -1, 0, -1)
    BY <2>1, ShiftOf DEF Delta, PermitLabels, PermitOnlyLabels,
         CountedLabels, WaitingLabels, LaneLabels, Labels
  <2>3. sem' = sem /\ lane' = lane /\ queued' = queued - 1 /\ Len(pool') = Len(pool)
    BY <1>14 DEF UndoCount
  <2> QED
    BY <1>b, <1>14, <2>2, <2>3 DEF Shift, Books, QueueBound
<1>15. CASE UndoLane(r)
  <2>1. pc[r] = "undoLane" /\ Goto(r, "idle")
    BY <1>15 DEF UndoLane
  <2>2. Shift(r, 0, 0, 0, 0, -1)
    BY <2>1, ShiftOf DEF Delta, PermitLabels, PermitOnlyLabels,
         CountedLabels, WaitingLabels, LaneLabels, Labels
  <2>3. sem' = sem /\ lane' = lane + 1 /\ queued' = queued /\ Len(pool') = Len(pool)
    BY <1>15 DEF UndoLane
  <2> QED
    BY <1>b, <2>2, <2>3, <2>1, <1>0 DEF Shift, Books, QueueBound
<1>16. CASE Stall(r)
  <2>1. pc[r] = "run" /\ Goto(r, "stalled")
    BY <1>16 DEF Stall
  <2>2. Shift(r, 0, 0, 0, 0, 0)
    BY <2>1, ShiftOf DEF Delta, PermitLabels, PermitOnlyLabels,
         CountedLabels, WaitingLabels, LaneLabels, Labels
  <2>3. sem' = sem /\ lane' = lane /\ queued' = queued /\ Len(pool') = Len(pool)
    BY <1>16 DEF Stall
  <2> QED
    BY <1>b, <2>2, <2>3 DEF Shift, Books, QueueBound
<1>17. CASE Resume(r)
  <2>1. pc[r] = "stalled" /\ Goto(r, "run")
    BY <1>17 DEF Resume
  <2>2. Shift(r, 0, 0, 0, 0, 0)
    BY <2>1, ShiftOf DEF Delta, PermitLabels, PermitOnlyLabels,
         CountedLabels, WaitingLabels, LaneLabels, Labels
  <2>3. sem' = sem /\ lane' = lane /\ queued' = queued /\ Len(pool') = Len(pool)
    BY <1>17 DEF Resume
  <2> QED
    BY <1>b, <2>2, <2>3 DEF Shift, Books, QueueBound
<1>18. CASE Release(r)
  <2>1. pc[r] = "run" /\ Goto(r, "retSem")
    BY <1>18 DEF Release
  <2>2. Shift(r, 0, 1, 0, 0, 0)
    BY <2>1, ShiftOf DEF Delta, PermitLabels, PermitOnlyLabels,
         CountedLabels, WaitingLabels, LaneLabels, Labels
  <2>3. sem' = sem /\ lane' = lane /\ queued' = queued /\ Len(pool') = Len(pool) + 1
    BY <1>18, <1>2 DEF Release
  <2> QED
    BY <1>b, <2>2, <2>3 DEF Shift, Books, QueueBound
<1>19. CASE ReturnPermit(r) /\ UsesLane(r)
  <2>1. pc[r] = "retSem" /\ Goto(r, "retLane")
    BY <1>19 DEF ReturnPermit
  <2>2. Shift(r, -1, -1, 0, 0, 0)
    BY <2>1, ShiftOf DEF Delta, PermitLabels, PermitOnlyLabels,
         CountedLabels, WaitingLabels, LaneLabels, Labels
  <2>3. sem' = sem + 1 /\ lane' = lane /\ queued' = queued /\ Len(pool') = Len(pool)
    BY <1>19 DEF ReturnPermit
  <2> QED
    BY <1>b, <1>19, <2>2, <2>3 DEF Shift, Books, QueueBound
<1>20. CASE ReturnPermit(r) /\ ~UsesLane(r)
  <2>1. pc[r] = "retSem" /\ Goto(r, "idle")
    BY <1>20 DEF ReturnPermit
  <2>2. Shift(r, -1, -1, 0, 0, -1)
    BY <2>1, ShiftOf DEF Delta, PermitLabels, PermitOnlyLabels,
         CountedLabels, WaitingLabels, LaneLabels, Labels
  <2>3. sem' = sem + 1 /\ lane' = lane /\ queued' = queued /\ Len(pool') = Len(pool)
    BY <1>20 DEF ReturnPermit
  <2> QED
    BY <1>b, <1>20, <2>2, <2>3 DEF Shift, Books, QueueBound
<1>21. CASE ReturnLane(r)
  <2>1. pc[r] = "retLane" /\ Goto(r, "idle")
    BY <1>21 DEF ReturnLane
  <2>2. Shift(r, 0, 0, 0, 0, -1)
    BY <2>1, ShiftOf DEF Delta, PermitLabels, PermitOnlyLabels,
         CountedLabels, WaitingLabels, LaneLabels, Labels
  <2>3. sem' = sem /\ lane' = lane + 1 /\ queued' = queued /\ Len(pool') = Len(pool)
    BY <1>21 DEF ReturnLane
  <2> QED
    BY <1>b, <2>2, <2>3, <2>1, <1>0 DEF Shift, Books, QueueBound
<1>22. ~Exhausted(r)
  BY PermitMeansConn DEF Exhausted
<1>23. ~ExhaustedLane(r)
  BY DEF ExhaustedLane, At, Accounting
<1> QED
  BY <1>3, <1>4, <1>5, <1>6, <1>7, <1>8, <1>9, <1>10, <1>11, <1>12, <1>13, <1>14, <1>15, <1>16, <1>17, <1>18, <1>19, <1>20, <1>21, <1>22, <1>23
     DEF Step, Client

(* Every step keeps the accounts. *)
LEMMA AccountingStep ==
  ASSUME TypeOK, Accounting, [Next]_vars
  PROVE  Accounting'
<1>1. ~closed' => Books'
  <2>1. CASE UNCHANGED vars
    BY <2>1 DEF vars, Accounting, Books, QueueBound, WithPermit, PermitOnly,
         InLane, Counted, Waiting, In
  <2>2. CASE Close
    BY <2>2 DEF Close
  <2>3. ASSUME NEW r \in Requests, Step(r) \/ Client(r), ~closed'
        PROVE  Books'
    <3>1. ~closed
      BY <2>3 DEF Step, Client, Call, TakeLane, CancelLane, Count, TakePermit,
         Timeout, Dequeue, Pop, Exhausted, ExhaustedLane, UndoCount, UndoLane,
         ReturnPermit, ReturnLane, Stall, Resume, Release
    <3> QED
      BY <2>3, <3>1, BooksStep
  <2> QED
    BY <2>1, <2>2, <2>3 DEF Next
<1>2. Conforms'
  BY ConformsStep DEF Accounting
<1>3. At("exhausted")' # {} => closed'
  <2>1. ASSUME NEW r \in Requests, Exhausted(r) PROVE closed
    BY <2>1, PermitMeansConn DEF Exhausted
  <2>2. closed => closed'
    BY DEF Next, vars, Close, Step, Client, Call, TakeLane, CancelLane, Count,
       TakePermit, Timeout, Dequeue, Pop, Exhausted, ExhaustedLane, UndoCount,
       UndoLane, ReturnPermit, ReturnLane, Stall, Resume, Release
  <2>3. ASSUME NEW q \in Requests, pc'[q] = "exhausted", pc[q] # "exhausted"
        PROVE  Exhausted(q)
    BY <2>3 DEF Next, vars, Close, Step, Client, Call, TakeLane, CancelLane,
       Count, TakePermit, Timeout, Dequeue, Pop, Exhausted, ExhaustedLane,
       UndoCount, UndoLane, ReturnPermit, ReturnLane, Stall, Resume, Release,
       Goto, TypeOK
  <2> QED
    BY <2>1, <2>2, <2>3 DEF At, Accounting
<1>4. \A q \in In({"laneWait", "exhausted", "undoLane", "retLane"})' : UsesLane(q)
  BY DEF Next, vars, Close, Step, Client, Call, TakeLane, CancelLane, Count,
     TakePermit, Timeout, Dequeue, Pop, Exhausted, ExhaustedLane, UndoCount,
     UndoLane, ReturnPermit, ReturnLane, Stall, Resume, Release, Goto, TypeOK,
     Accounting, In
<1> QED
  BY <1>1, <1>2, <1>3, <1>4 DEF Accounting

-----------------------------------------------------------------------------
(* The inductive invariant *)

Inv == TypeOK /\ LeaseExclusive /\ Accounting

(* It holds when Open returns. *)
LEMMA InitInv == Init => Inv
<1> SUFFICES ASSUME Init PROVE Inv
  OBVIOUS
<1>1. TypeOK
  BY InitTypeOK
<1>2. /\ Connections \in Nat /\ NoConn \notin Conns
      /\ Len(pool) = Connections /\ DOMAIN pool = 1 .. Connections
      /\ \A i \in DOMAIN pool : pool[i] \in Conns
  BY PoolAssumption DEF Init
<1>3. LeaseExclusive
  BY <1>2 DEF Init, LeaseExclusive
<1>4. /\ WithPermit = {} /\ PermitOnly = {} /\ InLane = {}
      /\ Counted = {} /\ Waiting = {}
  BY DEF Init, WithPermit, PermitOnly, InLane, Counted, Waiting, In
<1>5. Books
  BY <1>2, <1>4, FS_EmptySet, PoolAssumption DEF Init, Books, QueueBound
<1>6. Conforms /\ At("exhausted") = {}
  BY DEF Init, Conforms, WithConn, In, At
<1>7. In({"laneWait", "exhausted", "undoLane", "retLane"}) = {}
  BY DEF Init, In
<1> QED
  BY <1>1, <1>3, <1>5, <1>6, <1>7 DEF Inv, Accounting

(* Every step keeps it. *)
LEMMA StepInv == Inv /\ [Next]_vars => Inv'
<1> SUFFICES ASSUME Inv, [Next]_vars PROVE Inv'
  OBVIOUS
<1>1. TypeOK /\ LeaseExclusive /\ Accounting /\ Conforms
  BY DEF Inv, Accounting
<1> QED
  BY <1>1, TypeStep, LeaseStep, AccountingStep DEF Inv

(* So it holds in every reachable state. *)
LEMMA SpecInv == Spec => []Inv
  BY InitInv, StepInv, PTL DEF Spec

(* The variables of the admission control always have their types. *)
THEOREM TypeCorrect == Spec => []TypeOK
<1>1. Inv => TypeOK
  BY DEF Inv
<1> QED
  BY <1>1, SpecInv, PTL

(* No connection is ever held by two callers, or held and free, at once. *)
THEOREM LeasesExclusive == Spec => []LeaseExclusive
<1>1. Inv => LeaseExclusive
  BY DEF Inv
<1> QED
  BY <1>1, SpecInv, PTL

(* The accounts of permits, tokens, connections and waiters always balance. *)
THEOREM AccountsBalance == Spec => []Accounting
<1>1. Inv => Accounting
  BY DEF Inv
<1> QED
  BY <1>1, SpecInv, PTL

(* Until Close a caller with a permit never reads "pool exhausted". *)
THEOREM NeverExhausted == Spec => []PermitFindsConn
<1>1. Inv => PermitFindsConn
  BY PermitMeansConn DEF Inv, PermitFindsConn, At
<1> QED
  BY <1>1, SpecInv, PTL

(* Whoever has something to give back left room for it. *)
LEMMA RoomHolds == Inv => SendsHaveRoom
<1>1. ASSUME Inv, ~closed, NEW r \in At("retSem") PROVE sem < Connections
  <2>1. IsFiniteSet(WithPermit) /\ r \in WithPermit
    BY <1>1, PoolAssumption, FS_Subset DEF WithPermit, In, At
  <2>2. Cardinality(WithPermit) \in Nat \ {0}
    BY <2>1, FS_CardinalityType, FS_EmptySet
  <2> QED
    BY <1>1, <2>2, PoolAssumption DEF Inv, TypeOK, Accounting, Books
<1>2. ASSUME Inv, ~closed, NEW r \in In({"retLane", "undoLane", "exhausted"})
      PROVE  lane < BulkLimit
  <2>1. IsFiniteSet(InLane) /\ r \in InLane
    BY <1>2, PoolAssumption, FS_Subset DEF InLane, In, Inv, Accounting
  <2>2. Cardinality(InLane) \in Nat \ {0}
    BY <2>1, FS_CardinalityType, FS_EmptySet
  <2> QED
    BY <1>2, <2>2, PoolAssumption DEF Inv, TypeOK, Accounting, Books
<1> QED
  BY <1>1, <1>2 DEF SendsHaveRoom

(* Until Close no deferred send blocks: every release runs to its end. *)
THEOREM ReleasesNeverBlock == Spec => []SendsHaveRoom
  BY RoomHolds, SpecInv, PTL

(* Until Close at most MaxWaiters callers wait for a permit. *)
THEOREM QueueIsBounded == Spec => []QueueBound
<1>1. Inv => QueueBound
  BY DEF Inv, Accounting, Books, QueueBound
<1> QED
  BY <1>1, SpecInv, PTL

(* The permits of bulk callers are counted by lane tokens, or capped. *)
LEMMA ReserveHolds ==
  ASSUME Inv, ~closed
  PROVE  /\ IsFiniteSet(WithPermit \cap Bulk)
         /\ Cardinality(WithPermit \cap Bulk) <= BulkLimit
<1>1. IsFiniteSet(WithPermit) /\ IsFiniteSet(InLane)
  BY PoolAssumption, FS_Subset DEF WithPermit, InLane, In
<1>2. Books /\ sem \in Nat /\ lane \in Nat /\ BulkLimit \in Nat
      /\ Connections \in Nat
  BY PoolAssumption DEF Inv, Accounting, TypeOK
<1>3. /\ Cardinality(WithPermit) \in Nat
      /\ Cardinality(InLane) \in Nat
      /\ Cardinality(WithPermit) <= Connections
      /\ Cardinality(InLane) <= BulkLimit
  BY <1>1, <1>2, FS_CardinalityType DEF Books
<1>4. /\ IsFiniteSet(WithPermit \cap Bulk)
      /\ Cardinality(WithPermit \cap Bulk) \in Nat
      /\ Cardinality(WithPermit \cap Bulk) <= Cardinality(WithPermit)
  BY <1>1, FS_Subset, FS_CardinalityType
<1>5. CASE HasLane
  <2>1. WithPermit \cap Bulk \in SUBSET InLane
    BY <1>5 DEF WithPermit, InLane, In, UsesLane
  <2>2. Cardinality(WithPermit \cap Bulk) <= Cardinality(InLane)
    BY <1>1, <2>1, FS_Subset
  <2> QED
    BY <1>2, <1>3, <1>4, <2>2
<1>6. CASE ~HasLane
  BY <1>2, <1>3, <1>4, <1>6 DEF HasLane
<1> QED
  BY <1>5, <1>6

(* Until Close Flight and heavy items calls leave the reserve alone. *)
THEOREM ReserveIsKept == Spec => []InteractiveReserve
<1>1. Inv => InteractiveReserve
  BY ReserveHolds DEF InteractiveReserve
<1> QED
  BY <1>1, SpecInv, PTL

(* When no call is in progress everything is back where Open put it. *)
THEOREM NothingIsLost == Spec => []NothingLost
<1>1. ASSUME Inv, At("idle") = Requests, ~closed
      PROVE  /\ sem = Connections /\ lane = BulkLimit
             /\ Len(pool) = Connections /\ queued = 0
  <2>1. /\ WithPermit = {} /\ PermitOnly = {} /\ InLane = {} /\ Counted = {}
    BY <1>1 DEF WithPermit, PermitOnly, InLane, Counted, In, At
  <2>2. Cardinality({}) = 0
    BY FS_EmptySet
  <2>3. Books /\ sem \in Int /\ lane \in Int
    BY <1>1 DEF Inv, Accounting, TypeOK
  <2> QED
    BY <2>1, <2>2, <2>3 DEF Books
<1>2. Inv => NothingLost
  BY <1>1 DEF NothingLost
<1> QED
  BY <1>2, SpecInv, PTL

-----------------------------------------------------------------------------
(* The queues *)

(***************************************************************************)
(* The callers ahead of one wait for the same channel, a caller is not     *)
(* ahead of itself, and who is ahead of the one ahead is ahead: there is   *)
(* no circle in a queue.  Only a Flight query function stalls.             *)
(***************************************************************************)
Queues ==
  /\ \A r, q \in Requests :
       q \in ahead[r] => pc[q] = pc[r] /\ pc[r] \in {"laneWait", "semWait"}
  /\ \A r \in Requests : r \notin ahead[r]
  /\ \A p, q, r \in Requests : p \in ahead[q] /\ q \in ahead[r] => p \in ahead[r]
  /\ \A r \in Requests : pc[r] = "stalled" => r \in Streams

(* Joining the tail of a queue keeps the queues in order. *)
LEMMA BlockKeepsQueues ==
  ASSUME TypeOK, Queues, NEW r \in Requests, NEW l \in {"laneWait", "semWait"},
         pc[r] \notin {"laneWait", "semWait"}, Goto(r, l), Block(r, l)
  PROVE  Queues'
<1>1. /\ pc' = [pc EXCEPT ![r] = l] /\ pc \in [Requests -> Labels]
      /\ ahead' = [ahead EXCEPT ![r] = At(l)]
      /\ ahead \in [Requests -> SUBSET Requests]
  BY DEF Goto, Block, TypeOK
<1>2. \A q \in Requests : r \notin ahead[q]
  BY DEF Queues
<1>3. \A q \in Requests : q \in At(l) <=> pc[q] = l
  BY DEF At
<1>4. r \notin At(l)
  BY <1>3
<1>5. \A q \in Requests : ahead'[q] = IF q = r THEN At(l) ELSE ahead[q]
  BY <1>1
<1>6. \A q \in Requests : pc'[q] = IF q = r THEN l ELSE pc[q]
  BY <1>1
<1>7. \A p, q \in Requests :
        q \in ahead'[p] => pc'[q] = pc'[p] /\ pc'[p] \in {"laneWait", "semWait"}
  BY <1>2, <1>3, <1>4, <1>5, <1>6 DEF Queues
<1>8. \A q \in Requests : q \notin ahead'[q]
  BY <1>4, <1>5 DEF Queues
<1>9. ASSUME NEW p \in Requests, NEW q \in Requests, NEW s \in Requests,
             p \in ahead'[q], q \in ahead'[s]
      PROVE  p \in ahead'[s]
  <2>1. q # r
    BY <1>2, <1>4, <1>5, <1>9
  <2>2. p \in ahead[q]
    BY <1>5, <1>9, <2>1
  <2>3. CASE s = r
    BY <1>3, <1>5, <1>9, <2>2, <2>3 DEF Queues
  <2>4. CASE s # r
    BY <1>5, <1>9, <2>2, <2>4 DEF Queues
  <2> QED
    BY <2>3, <2>4
<1>10. \A q \in Requests : pc'[q] = "stalled" => q \in Streams
  BY <1>6 DEF Queues
<1> QED
  BY <1>7, <1>8, <1>9, <1>10 DEF Queues

(* So does leaving one, from any place in it. *)
LEMMA UnblockKeepsQueues ==
  ASSUME TypeOK, Queues, NEW r \in Requests, NEW l \in Labels \ {"stalled"},
         Goto(r, l), Unblock(r)
  PROVE  Queues'
<1>1. \A q \in Requests :
        /\ ahead'[q] = (IF q = r THEN {} ELSE ahead[q] \ {r})
        /\ pc'[q] = IF q = r THEN l ELSE pc[q]
  BY DEF Goto, Unblock, TypeOK
<1>2. \A p, q \in Requests :
        p \in ahead'[q] <=> p \in ahead[q] /\ p # r /\ q # r
  BY <1>1
<1>3. \A p, q \in Requests :
        q \in ahead'[p] => pc'[q] = pc'[p] /\ pc'[p] \in {"laneWait", "semWait"}
  BY <1>1, <1>2 DEF Queues
<1>4. \A q \in Requests : q \notin ahead'[q]
  BY <1>2 DEF Queues
<1>5. \A p, q, s \in Requests : p \in ahead'[q] /\ q \in ahead'[s] => p \in ahead'[s]
  BY <1>2 DEF Queues
<1>6. \A q \in Requests : pc'[q] = "stalled" => q \in Streams
  BY <1>1 DEF Queues
<1> QED
  BY <1>3, <1>4, <1>5, <1>6 DEF Queues

(* And so do the steps of callers that wait for nothing. *)
LEMMA MoveKeepsQueues ==
  ASSUME TypeOK, Queues, NEW r \in Requests, NEW l \in Labels,
         pc[r] \notin {"laneWait", "semWait"}, l = "stalled" => r \in Streams,
         Goto(r, l), UNCHANGED ahead
  PROVE  Queues'
<1>1. \A q \in Requests : pc'[q] = IF q = r THEN l ELSE pc[q]
  BY DEF Goto, TypeOK
<1>2. \A q \in Requests : r \notin ahead[q] /\ q \notin ahead[r]
  BY DEF Queues
<1> QED
  BY <1>1, <1>2 DEF Queues

(* Every step keeps the queues in order. *)
LEMMA QueuesStep ==
  ASSUME TypeOK, Queues, [Next]_vars
  PROVE  Queues'
<1> USE DEF Labels
<1>0. CASE UNCHANGED vars
  BY <1>0 DEF vars, Queues
<1>1. CASE Close
  BY <1>1 DEF Close, Queues
<1>2. ASSUME NEW r \in Requests, Step(r) \/ Client(r) PROVE Queues'
  <2>1. CASE Call(r)
    BY <2>1, BlockKeepsQueues, MoveKeepsQueues DEF Call
  <2>2. CASE Count(r)
    BY <2>2, BlockKeepsQueues, MoveKeepsQueues DEF Count
  <2>3. CASE TakeLane(r) \/ CancelLane(r) \/ TakePermit(r) \/ Timeout(r)
    BY <2>3, UnblockKeepsQueues DEF TakeLane, CancelLane, TakePermit, Timeout
  <2>4. CASE Dequeue(r) \/ Pop(r) \/ ExhaustedLane(r) \/ UndoLane(r)
    BY <2>4, MoveKeepsQueues DEF Dequeue, Pop, ExhaustedLane, UndoLane
  <2>5. CASE Stall(r) \/ Resume(r) \/ Release(r) \/ ReturnLane(r)
    BY <2>5, MoveKeepsQueues DEF Stall, Resume, Release, ReturnLane
  <2>6. CASE Exhausted(r)
    BY <2>6, MoveKeepsQueues DEF Exhausted
  <2>7. CASE UndoCount(r)
    BY <2>7, MoveKeepsQueues DEF UndoCount
  <2>8. CASE ReturnPermit(r)
    BY <2>8, MoveKeepsQueues DEF ReturnPermit
  <2> QED
    BY <1>2, <2>1, <2>2, <2>3, <2>4, <2>5, <2>6, <2>7, <2>8 DEF Step, Client
<1> QED
  BY <1>0, <1>1, <1>2 DEF Next

(* The queues are in order in every reachable state. *)
LEMMA SpecQueues == Spec => []Queues
<1>1. Init => Queues
  BY DEF Init, Queues
<1>2. Inv /\ Queues /\ [Next]_vars => Queues'
  BY QueuesStep DEF Inv
<1> QED
  BY <1>1, <1>2, SpecInv, PTL DEF Spec

(* A queue that is not empty has a first caller. *)
LEMMA SomeoneIsFirst ==
  ASSUME TypeOK, Queues, NEW l \in {"laneWait", "semWait"}, At(l) # {}
  PROVE  \E r \in At(l) : First(r)
<1> DEFINE Ranks == {Cardinality(ahead[r]) : r \in At(l)}
<1>1. \A r \in Requests : /\ IsFiniteSet(ahead[r])
                         /\ Cardinality(ahead[r]) \in Nat
  BY PoolAssumption, FS_Subset, FS_CardinalityType DEF TypeOK
<1>2. Ranks \subseteq Nat /\ Ranks # {}
  BY <1>1 DEF At
<1> HIDE DEF Ranks
<1>3. PICK m \in Ranks : \A n \in Ranks : <<n, m>> \notin OpToRel(<, Nat)
  BY <1>2, NatLessThanWellFounded, WFMin
<1>4. \A n \in Ranks : ~(n < m)
  BY <1>2, <1>3 DEF OpToRel
<1>5. PICK r \in At(l) : m = Cardinality(ahead[r])
  BY DEF Ranks
<1>6. ASSUME NEW q \in ahead[r] PROVE FALSE
  <2>1. r \in Requests /\ q \in Requests /\ q \in At(l)
    BY DEF At, TypeOK, Queues
  <2>2. ahead[q] \in SUBSET (ahead[r] \ {q})
    BY <2>1 DEF Queues, TypeOK
  <2>3. Cardinality(ahead[r] \ {q}) = Cardinality(ahead[r]) - 1
    BY <1>1, <2>1, FS_RemoveElement
  <2>4. Cardinality(ahead[q]) <= Cardinality(ahead[r] \ {q})
    BY <1>1, <2>1, <2>2, FS_Subset, FS_RemoveElement
  <2>5. Cardinality(ahead[q]) < m
    BY <1>1, <1>5, <2>1, <2>3, <2>4
  <2> QED
    BY <1>4, <2>1, <2>5 DEF Ranks
<1> QED
  BY <1>6 DEF First

(* When no permit is left somebody has one, and when there is a lane that  *)
(* can be somebody who is not a bulk caller.                               *)
LEMMA PermitsAreHeld ==
  ASSUME Inv, ~closed, sem = 0
  PROVE  /\ WithPermit # {}
         /\ HasLane => WithPermit \ Bulk # {}
<1>1. /\ Cardinality(WithPermit) = Connections
      /\ Connections \in Nat \ {0} /\ BulkLimit \in Nat
  <2>1. IsFiniteSet(WithPermit)
    BY PoolAssumption, FS_Subset DEF WithPermit, In
  <2>2. Cardinality(WithPermit) \in Nat
    BY <2>1, FS_CardinalityType
  <2> QED
    BY <2>2, PoolAssumption DEF Inv, Accounting, Books
<1>2. WithPermit # {}
  BY <1>1, FS_EmptySet
<1>3. ASSUME HasLane, WithPermit \ Bulk = {} PROVE FALSE
  <2>1. WithPermit \cap Bulk = WithPermit
    BY <1>3
  <2>2. Cardinality(WithPermit \cap Bulk) <= BulkLimit
    BY ReserveHolds
  <2> QED
    BY <1>1, <1>3, <2>1, <2>2 DEF HasLane
<1> QED
  BY <1>2, <1>3

(* A caller with a permit can run, unless its Flight client holds it up. *)
LEMMA HoldersRun ==
  ASSUME Inv, Queues, ~closed, sem = 0, NEW r \in WithPermit, r \notin At("stalled")
  PROVE  CanRun(r)
  BY PoolAssumption DEF WithPermit, In, At, CanRun, Inv, TypeOK

(* While callers wait for a permit someone can run or is held up, and with *)
(* a lane someone can run in any case.                                     *)
LEMMA PermitQueueMoves ==
  ASSUME Inv, Queues, ~closed, At("semWait") # {}
  PROVE  /\ (\E r \in Requests : CanRun(r)) \/ At("stalled") # {}
         /\ HasLane => \E r \in Requests : CanRun(r)
<1>1. PICK r \in At("semWait") : First(r)
  BY SomeoneIsFirst DEF Inv
<1>2. CASE sem # 0
  BY <1>1, <1>2 DEF CanRun, At, Inv, TypeOK
<1>3. CASE sem = 0
  <2>1. PICK q \in WithPermit : HasLane => q \notin Bulk
    BY <1>3, PermitsAreHeld
  <2>2. q \in Requests /\ (q \in At("stalled") => q \in Bulk)
    BY DEF WithPermit, In, At, Queues, Bulk
  <2> QED
    BY <1>3, <2>1, <2>2, HoldersRun
<1> QED
  BY <1>2, <1>3

(* While callers wait in the lane, or run, someone can go on or is held up. *)
LEMMA SomeoneMoves ==
  ASSUME Inv, Queues, ~closed, At("idle") # Requests, At("semWait") = {}
  PROVE  (\E r \in Requests : CanRun(r)) \/ At("stalled") # {}
<1>1. PICK p \in Requests : pc[p] # "idle"
  BY DEF At
<1>2. CASE At("laneWait") # {} /\ lane # 0
  <2>1. PICK r \in At("laneWait") : First(r)
    BY <1>2, SomeoneIsFirst DEF Inv
  <2> QED
    BY <1>2, <2>1 DEF CanRun, At, Inv, TypeOK
<1>3. \A q \in Requests : pc[q] \notin {"idle", "laneWait"} =>
        CanRun(q) \/ q \in At("stalled")
  <2>1. SendsHaveRoom
    BY RoomHolds
  <2> QED
    BY <2>1 DEF SendsHaveRoom, At, In, CanRun, Inv, TypeOK, Labels
<1>4. CASE At("laneWait") # {} /\ lane = 0
  <2>1. IsFiniteSet(InLane) /\ Cardinality(InLane) = BulkLimit
    BY <1>4, PoolAssumption, FS_Subset, FS_CardinalityType
    DEF InLane, Inv, Accounting, Books
  <2>2. InLane # {}
    BY <2>1, FS_EmptySet, PoolAssumption
  <2>3. PICK q \in InLane : TRUE
    BY <2>2
  <2> QED
    BY <1>3, <2>3 DEF InLane
<1>5. CASE At("laneWait") = {}
  BY <1>1, <1>3, <1>5 DEF At
<1> QED
  BY <1>2, <1>4, <1>5

(***************************************************************************)
(* Callers never stand in each other's way for good: until Close, while a  *)
(* call is in progress some caller can go on, or a Flight client has to    *)
(* read first; and with a lane such clients never stop the permit queue.   *)
(***************************************************************************)
THEOREM CallersNeverStandOff == Spec => []NoStandOff
<1>1. Inv /\ Queues => NoStandOff
  BY PermitQueueMoves, SomeoneMoves DEF NoStandOff
<1> QED
  BY <1>1, SpecInv, SpecQueues, PTL

-----------------------------------------------------------------------------
(* Refinement of Leases *)

(* A connection that is popped is granted within the bulk limit. *)
LEMMA PopGrants ==
  ASSUME Inv, NEW r \in Requests, Pop(r)
  PROVE  Abs!Grant(r, pool[Len(pool)])
<1> DEFINE c == pool[Len(pool)]
           BulkHolders == Abs!Holders \cap Bulk
<1>1. pc[r] = "pop" /\ pool # <<>> /\ Len(pool) \in DOMAIN pool
  BY PopShape DEF Pop, Inv, TypeOK
<1>2. \A q \in Requests : conn[q] # c
  BY <1>1 DEF Inv, LeaseExclusive
<1>3. ASSUME r \in Bulk, ~closed PROVE Cardinality(BulkHolders) < BulkLimit
  <2> DEFINE Others == (WithPermit \cap Bulk) \ {r}
  <2>1. /\ IsFiniteSet(WithPermit \cap Bulk)
        /\ Cardinality(WithPermit \cap Bulk) <= BulkLimit
    BY <1>3, ReserveHolds
  <2>2. r \in WithPermit \cap Bulk
    BY <1>1, <1>3 DEF WithPermit, In
  <2>3. /\ IsFiniteSet(Others)
        /\ Cardinality(Others) = Cardinality(WithPermit \cap Bulk) - 1
        /\ Cardinality(WithPermit \cap Bulk) \in Nat
    BY <2>1, <2>2, FS_RemoveElement, FS_CardinalityType
  <2>4. BulkHolders \in SUBSET Others
    BY <1>1 DEF Abs!Holders, WithPermit, WithConn, Conforms, Accounting, Inv, In
  <2>5. /\ Cardinality(BulkHolders) \in Nat
        /\ Cardinality(BulkHolders) <= Cardinality(Others)
    BY <2>3, <2>4, FS_Subset, FS_CardinalityType
  <2> QED
    BY <2>1, <2>3, <2>5, PoolAssumption
<1>4. /\ In({"laneWait", "count", "semWait", "dequeue", "pop"})'
           = In({"laneWait", "count", "semWait", "dequeue", "pop"}) \ {r}
      /\ r \in In({"laneWait", "count", "semWait", "dequeue", "pop"})
  BY <1>1 DEF Pop, Goto, In, Inv, TypeOK
<1>5. conn' = [conn EXCEPT ![r] = c] /\ closed' = closed
  BY DEF Pop
<1>6. r \in Bulk /\ ~closed => Abs!Cardinality(BulkHolders) < BulkLimit
  BY <1>3 DEF Cardinality, Abs!Cardinality
<1> HIDE DEF c
<1>7. Abs!Grant(r, c)
  BY <1>2, <1>4, <1>5, <1>6, Zenon DEF Abs!Grant
<1> QED
  BY <1>7 DEF c

(* Every step of the pool is a step of Leases, or changes nothing there. *)
LEMMA StepImplements == Inv /\ [Next]_vars => [Abs!Next]_(Abs!vars)
<1> SUFFICES ASSUME Inv, [Next]_vars PROVE [Abs!Next]_(Abs!vars)
  OBVIOUS
<1>0. CASE UNCHANGED vars
  BY <1>0 DEF vars, Abs!vars, In
<1>1. CASE Close
  BY <1>1 DEF Close, Abs!Next, Abs!Close, In
<1>2. ASSUME NEW r \in Requests, Step(r) \/ Client(r)
      PROVE  [Abs!Next]_(Abs!vars)
  <2>1. CASE Pop(r)
    <3>1. pool[Len(pool)] \in Conns
      BY <2>1, PopShape DEF Pop, Inv, TypeOK
    <3>2. Abs!Grant(r, pool[Len(pool)])
      BY <2>1, PopGrants
    <3> QED
      BY <3>1, <3>2 DEF Abs!Next
  <2> USE DEF Inv, TypeOK, Goto, In
  <2>2. CASE Call(r)
    <3>1. Abs!Ask(r)
      BY <2>2 DEF Call, Abs!Ask, Abs!Holders, Accounting, Conforms, WithConn
    <3> QED
      BY <3>1 DEF Abs!Next
  <2>3. CASE \/ CancelLane(r) \/ Timeout(r) \/ Exhausted(r)
             \/ Count(r) /\ pc'[r] = "undoCount"
    <3>1. Abs!Refuse(r)
      BY <2>3 DEF CancelLane, Timeout, Exhausted, Count, Abs!Refuse
    <3> QED
      BY <3>1 DEF Abs!Next
  <2>4. CASE Release(r)
    <3>1. Abs!GiveBack(r)
      BY <2>4 DEF Release, Abs!GiveBack, Abs!Holders, Accounting, Conforms, WithConn
    <3> QED
      BY <3>1 DEF Abs!Next
  <2>5. CASE \/ TakeLane(r) \/ TakePermit(r) \/ Dequeue(r)
             \/ Count(r) /\ pc'[r] # "undoCount"
    BY <2>5 DEF TakeLane, TakePermit, Dequeue, Count, Abs!vars
  <2>6. CASE ExhaustedLane(r) \/ UndoCount(r) \/ UndoLane(r)
             \/ ReturnPermit(r) \/ ReturnLane(r) \/ Stall(r) \/ Resume(r)
    BY <2>6 DEF ExhaustedLane, UndoCount, UndoLane, ReturnPermit, ReturnLane,
         Stall, Resume, Abs!vars
  <2> QED
    BY <1>2, <2>1, <2>2, <2>3, <2>4, <2>5, <2>6 DEF Step, Client
<1> QED
  BY <1>0, <1>1, <1>2 DEF Next

(***************************************************************************)
(* Store.Query leases connections as Leases says: exclusively, and to bulk *)
(* callers within their limit, whatever refusals, timeouts, disconnects    *)
(* and Close happen in between.                                            *)
(***************************************************************************)
THEOREM PoolImplementsLeases == Spec => ImplementsLeases
<1>1. Init => Abs!Init
  BY DEF Init, Abs!Init, In
<1> QED
  BY <1>1, StepImplements, SpecInv, PTL DEF Spec, ImplementsLeases, Abs!Spec

=============================================================================
