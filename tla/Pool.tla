-------------------------------- MODULE Pool --------------------------------
(***************************************************************************)
(* The admission control of internal/store: Store.acquire, the release     *)
(* closure it returns, Store.Query around them, and Store.Close.           *)
(*                                                                         *)
(* Every caller of Store.Query is a goroutine.  It optionally takes a      *)
(* token of the bulk lane, counts itself in `queued`, waits for a permit   *)
(* of the semaphore for at most maxWait, pops a dedicated connection off   *)
(* the free list, runs its query and gives everything back, each in a      *)
(* step of its own: these are the points where other goroutines run.       *)
(***************************************************************************)
EXTENDS Integers, FiniteSets, Sequences

CONSTANTS
  Interactive,  \* callers of Query(bulk=false): one item, light item pages
  Heavy,        \* callers of Query(bulk=true): tiles and heavy item pages
  Streams,      \* Flight DoGet callers: bulk, and they write to the client
                \* from inside the query function
  Conns,        \* the dedicated connections Open created
  BulkLimit,    \* Config.BulkLimit
  MaxWaiters,   \* Config.MaxWaiters
  NoConn        \* "holds no connection"

Requests == Interactive \cup Heavy \cup Streams
Bulk == Heavy \cup Streams
Connections == Cardinality(Conns)

(***************************************************************************)
(* Open refuses other values of Connections and BulkLimit; it does not     *)
(* look at MaxWaiters.                                                     *)
(***************************************************************************)
ASSUME PoolAssumption ==
  /\ IsFiniteSet(Requests)
  /\ Interactive \cap Bulk = {}
  /\ Heavy \cap Streams = {}
  /\ IsFiniteSet(Conns)
  /\ Connections \in Nat \ {0}
  /\ BulkLimit \in 1 .. Connections
  /\ MaxWaiters \in Int
  /\ NoConn \notin Conns

VARIABLES
  pc,      \* where each caller is
  conn,    \* the connection each caller has checked out
  pool,    \* Store.pool, a stack of free connections
  sem,     \* permits in the channel Store.sem
  lane,    \* tokens in the channel Store.bulk
  queued,  \* Store.queued
  ahead,   \* the callers that blocked on the same channel before this one
  closed   \* Close has run

vars == <<pc, conn, pool, sem, lane, queued, ahead, closed>>

-----------------------------------------------------------------------------

(* Store.bulk stays nil, and the lane unused, when the cap is the pool size. *)
HasLane == BulkLimit < Connections
UsesLane(r) == r \in Bulk /\ HasLane

Labels == {"idle", "laneWait", "count", "semWait", "dequeue", "pop",
           "exhausted", "undoCount", "undoLane", "run", "stalled",
           "retSem", "retLane"}

At(label) == {r \in Requests : pc[r] = label}
In(labels) == {r \in Requests : pc[r] \in labels}

Goto(r, label) == pc' = [pc EXCEPT ![r] = label]

(***************************************************************************)
(* The goroutines blocked on a Go channel are served in the order they     *)
(* blocked.                                                                *)
(***************************************************************************)
Block(r, label) ==
  ahead' = [ahead EXCEPT ![r] = At(label)]
Unblock(r) ==
  ahead' = [q \in Requests |-> IF q = r THEN {} ELSE ahead[q] \ {r}]
First(r) == ahead[r] = {}

Init ==
  /\ pc = [r \in Requests |-> "idle"]
  /\ conn = [r \in Requests |-> NoConn]
  /\ pool \in {s \in [1 .. Connections -> Conns] :
                 \A i, j \in 1 .. Connections : s[i] = s[j] => i = j}
  /\ sem = Connections
  /\ lane = BulkLimit
  /\ queued = 0
  /\ ahead = [r \in Requests |-> {}]
  /\ closed = FALSE

-----------------------------------------------------------------------------
(* acquire *)

Call_SkipsLane(r) ==
  /\ pc[r] = "idle"
  /\ Goto(r, "count")
  /\ UNCHANGED <<conn, pool, sem, lane, queued, ahead, closed>>

(* A call starts; a bulk one first blocks on the lane. *)
Call(r) ==
  /\ pc[r] = "idle"
  /\ \/ /\ UsesLane(r)
        /\ Goto(r, "laneWait")
        /\ Block(r, "laneWait")
     \/ /\ ~UsesLane(r)
        /\ Goto(r, "count")
        /\ UNCHANGED ahead
  /\ UNCHANGED <<conn, pool, sem, lane, queued, closed>>

TakeLane(r) ==
  /\ pc[r] = "laneWait"
  /\ First(r)
  /\ lane > 0
  /\ lane' = lane - 1
  /\ Unblock(r)
  /\ Goto(r, "count")
  /\ UNCHANGED <<conn, pool, sem, queued, closed>>

CancelLane_Refunds(r) ==
  /\ pc[r] = "laneWait"
  /\ lane < BulkLimit
  /\ Unblock(r)
  /\ lane' = lane + 1
  /\ Goto(r, "idle")
  /\ UNCHANGED <<conn, pool, sem, queued, closed>>

(* The client of a blocked bulk call goes away: Overloaded, nothing taken. *)
CancelLane(r) ==
  /\ pc[r] = "laneWait"
  /\ Unblock(r)
  /\ Goto(r, "idle")
  /\ UNCHANGED <<conn, pool, sem, lane, queued, closed>>

Count_TestsBeforeAdd(r) ==
  /\ pc[r] = "count"
  /\ queued' = queued + 1
  /\ \/ /\ queued > MaxWaiters
        /\ Goto(r, "undoCount")
        /\ UNCHANGED ahead
     \/ /\ queued <= MaxWaiters
        /\ Goto(r, "semWait")
        /\ Block(r, "semWait")
  /\ UNCHANGED <<conn, pool, sem, lane, closed>>

(* queued.Add(1), and the test of the value it returned. *)
Count(r) ==
  /\ pc[r] = "count"
  /\ queued' = queued + 1
  /\ \/ /\ queued' > MaxWaiters
        /\ Goto(r, "undoCount")
        /\ UNCHANGED ahead
     \/ /\ queued' <= MaxWaiters
        /\ Goto(r, "semWait")
        /\ Block(r, "semWait")
  /\ UNCHANGED <<conn, pool, sem, lane, closed>>

TakePermit(r) ==
  /\ pc[r] = "semWait"
  /\ First(r)
  /\ sem > 0
  /\ sem' = sem - 1
  /\ Unblock(r)
  /\ Goto(r, "dequeue")
  /\ UNCHANGED <<conn, pool, lane, queued, closed>>

Timeout_Refunds(r) ==
  /\ pc[r] = "semWait"
  /\ sem < Connections
  /\ Unblock(r)
  /\ sem' = sem + 1
  /\ Goto(r, "undoCount")
  /\ UNCHANGED <<conn, pool, lane, queued, closed>>

Timeout_OnlyBulk(r) ==
  /\ pc[r] = "semWait"
  /\ r \in Bulk
  /\ Unblock(r)
  /\ Goto(r, "undoCount")
  /\ UNCHANGED <<conn, pool, sem, lane, queued, closed>>

(* maxWait has passed, or the client went away: Overloaded. *)
Timeout(r) ==
  /\ pc[r] = "semWait"
  /\ Unblock(r)
  /\ Goto(r, "undoCount")
  /\ UNCHANGED <<conn, pool, sem, lane, queued, closed>>

Dequeue(r) ==
  /\ pc[r] = "dequeue"
  /\ queued' = queued - 1
  /\ Goto(r, "pop")
  /\ UNCHANGED <<conn, pool, sem, lane, ahead, closed>>

Pop_KeepsSlot(r) ==
  /\ pc[r] = "pop"
  /\ pool # <<>>
  /\ conn' = [conn EXCEPT ![r] = pool[Len(pool)]]
  /\ Goto(r, "run")
  /\ UNCHANGED <<pool, sem, lane, queued, ahead, closed>>

(* Under the mutex, the top of the free list is checked out. *)
Pop(r) ==
  /\ pc[r] = "pop"
  /\ pool # <<>>
  /\ conn' = [conn EXCEPT ![r] = pool[Len(pool)]]
  /\ pool' = SubSeq(pool, 1, Len(pool) - 1)
  /\ Goto(r, "run")
  /\ UNCHANGED <<sem, lane, queued, ahead, closed>>

(* The free list is empty: Backend("pool exhausted"). *)
Exhausted(r) ==
  /\ pc[r] = "pop"
  /\ pool = <<>>
  /\ Goto(r, IF UsesLane(r) THEN "exhausted" ELSE "undoCount")
  /\ UNCHANGED <<conn, pool, sem, lane, queued, ahead, closed>>

(* That branch sends the lane token back itself, before the deferred undo. *)
ExhaustedLane(r) ==
  /\ pc[r] = "exhausted"
  /\ lane < BulkLimit
  /\ lane' = lane + 1
  /\ Goto(r, "undoCount")
  /\ UNCHANGED <<conn, pool, sem, queued, ahead, closed>>

UndoCount_ForgetsLane(r) ==
  /\ pc[r] = "undoCount"
  /\ queued' = queued - 1
  /\ Goto(r, "idle")
  /\ UNCHANGED <<conn, pool, sem, lane, ahead, closed>>

(* The deferred undo of a call that was not admitted. *)
UndoCount(r) ==
  /\ pc[r] = "undoCount"
  /\ queued' = queued - 1
  /\ Goto(r, IF UsesLane(r) THEN "undoLane" ELSE "idle")
  /\ UNCHANGED <<conn, pool, sem, lane, ahead, closed>>

(* A send on a full channel blocks. *)
UndoLane(r) ==
  /\ pc[r] = "undoLane"
  /\ lane < BulkLimit
  /\ lane' = lane + 1
  /\ Goto(r, "idle")
  /\ UNCHANGED <<conn, pool, sem, queued, ahead, closed>>

-----------------------------------------------------------------------------
(* Query and release *)

(***************************************************************************)
(* A Flight query function writes record batches to the RPC stream.  That  *)
(* write blocks on the client's flow control and knows the stream's        *)
(* context only, not the query deadline.  The client resumes reading, or   *)
(* goes away, when it likes.                                               *)
(***************************************************************************)
Stall(r) ==
  /\ r \in Streams
  /\ pc[r] = "run"
  /\ Goto(r, "stalled")
  /\ UNCHANGED <<conn, pool, sem, lane, queued, ahead, closed>>

Resume(r) ==
  /\ pc[r] = "stalled"
  /\ Goto(r, "run")
  /\ UNCHANGED <<conn, pool, sem, lane, queued, ahead, closed>>

(* The query function has returned; release pushes the connection back. *)
Release(r) ==
  /\ pc[r] = "run"
  /\ pool' = Append(pool, conn[r])
  /\ conn' = [conn EXCEPT ![r] = NoConn]
  /\ Goto(r, "retSem")
  /\ UNCHANGED <<sem, lane, queued, ahead, closed>>

ReturnPermit_ForgetsLane(r) ==
  /\ pc[r] = "retSem"
  /\ sem < Connections
  /\ sem' = sem + 1
  /\ Goto(r, "idle")
  /\ UNCHANGED <<conn, pool, lane, queued, ahead, closed>>

ReturnPermit(r) ==
  /\ pc[r] = "retSem"
  /\ sem < Connections
  /\ sem' = sem + 1
  /\ Goto(r, IF UsesLane(r) THEN "retLane" ELSE "idle")
  /\ UNCHANGED <<conn, pool, lane, queued, ahead, closed>>

ReturnLane(r) ==
  /\ pc[r] = "retLane"
  /\ lane < BulkLimit
  /\ lane' = lane + 1
  /\ Goto(r, "idle")
  /\ UNCHANGED <<conn, pool, sem, queued, ahead, closed>>

(* Store.Close, on the way out of serve, whatever the callers are doing. *)
Close ==
  /\ ~closed
  /\ closed' = TRUE
  /\ pool' = <<>>
  /\ UNCHANGED <<pc, conn, sem, lane, queued, ahead>>

-----------------------------------------------------------------------------

(* The steps of a call that the Go scheduler and its timers drive. *)
Step(r) ==
  \/ TakeLane(r) \/ Count(r) \/ TakePermit(r) \/ Timeout(r)
  \/ Dequeue(r) \/ Pop(r) \/ Exhausted(r) \/ ExhaustedLane(r)
  \/ UndoCount(r) \/ UndoLane(r)
  \/ Release(r) \/ ReturnPermit(r) \/ ReturnLane(r)

(* What clients decide. *)
Client(r) == Call(r) \/ CancelLane(r) \/ Stall(r) \/ Resume(r)

Next ==
  \/ \E r \in Requests : Step(r) \/ Client(r)
  \/ Close

Spec == Init /\ [][Next]_vars

(***************************************************************************)
(* A goroutine that can run does run, a timer that is due does fire, and a *)
(* query function that is not blocked on a Flight client returns: its      *)
(* driver calls carry the deadline.  Clients owe nothing.                  *)
(***************************************************************************)
Fairness == \A r \in Requests : WF_vars(Step(r))

FairSpec == Spec /\ Fairness

=============================================================================
