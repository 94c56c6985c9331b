--------------------------- MODULE PoolProperties ---------------------------
(***************************************************************************)
(* What the admission control of Pool promises, and the refinement of      *)
(* Leases.                                                                 *)
(***************************************************************************)
EXTENDS Pool

(* Callers by what they hold. *)
Counted == In({"semWait", "dequeue", "undoCount"})
Waiting == In({"semWait", "dequeue"})
InLane == {r \in Requests : UsesLane(r) /\ pc[r] \notin {"idle", "laneWait"}}
WithPermit == In({"dequeue", "pop", "run", "stalled", "retSem"})
PermitOnly == In({"dequeue", "pop", "retSem"})
WithConn == In({"run", "stalled"})

(* The type of every variable. *)
TypeOK ==
  /\ pc \in [Requests -> Labels]
  /\ conn \in [Requests -> Conns \cup {NoConn}]
  /\ pool \in Seq(Conns)
  /\ sem \in 0 .. Connections
  /\ lane \in 0 .. BulkLimit
  /\ queued \in Int
  /\ ahead \in [Requests -> SUBSET Requests]
  /\ closed \in BOOLEAN

-----------------------------------------------------------------------------
(* Invariants *)

(***************************************************************************)
(* The session state of a pooled connection belongs to one query at a      *)
(* time: no two callers hold the same connection, none is on the free list *)
(* twice, and none is both held and free, also while Close races with the  *)
(* callers.                                                                *)
(***************************************************************************)
LeaseExclusive ==
  /\ \A r, q \in Requests : conn[r] = conn[q] /\ conn[r] # NoConn => r = q
  /\ \A i, j \in DOMAIN pool : pool[i] = pool[j] => i = j
  /\ \A i \in DOMAIN pool, r \in Requests : pool[i] # conn[r]

(***************************************************************************)
(* The semaphore and the free list are two pieces of state changed under   *)
(* different synchronisation.  A caller that won a permit never meets an   *)
(* empty free list ("pool exhausted") before Close.                        *)
(***************************************************************************)
PermitFindsConn == At("pop") # {} /\ pool = <<>> => closed

(***************************************************************************)
(* The sends that give permits and lane tokens back run in deferred calls  *)
(* and carry no context: one that found its channel full would hang its    *)
(* goroutine for good.  Before Close there is always room.                 *)
(***************************************************************************)
SendsHaveRoom ==
  ~closed =>
    /\ At("retSem") # {} => sem < Connections
    /\ In({"retLane", "undoLane", "exhausted"}) # {} => lane < BulkLimit

(***************************************************************************)
(* At most MaxWaiters callers wait for a permit, although the bound is     *)
(* only tested against the value an atomic add returned.                   *)
(***************************************************************************)
QueueBound ==
  ~closed => Cardinality(Waiting) <= IF MaxWaiters > 0 THEN MaxWaiters ELSE 0

(***************************************************************************)
(* Under any bulk load Connections - BulkLimit permits are left to         *)
(* interactive callers: bulk callers never hold more than BulkLimit.       *)
(***************************************************************************)
InteractiveReserve ==
  ~closed => Cardinality(WithPermit \cap Bulk) <= BulkLimit

(***************************************************************************)
(* Whatever mix of refusals, timeouts and queries went by, when no call is *)
(* in progress nothing has been lost: every permit, lane token and         *)
(* connection is back and no caller is counted as queued.                  *)
(***************************************************************************)
NothingLost ==
  At("idle") = Requests /\ ~closed =>
    /\ sem = Connections
    /\ lane = BulkLimit
    /\ Len(pool) = Connections
    /\ queued = 0

(* Exactly the callers inside their query function hold a connection. *)
Conforms == \A r \in Requests : conn[r] # NoConn <=> r \in WithConn

(***************************************************************************)
(* Every permit, lane token, connection and unit of `queued` is with       *)
(* exactly one caller or in exactly one container.                         *)
(***************************************************************************)
Books ==
  /\ sem + Cardinality(WithPermit) = Connections
  /\ Len(pool) = sem + Cardinality(PermitOnly)
  /\ lane + Cardinality(InLane) = BulkLimit
  /\ queued = Cardinality(Counted)
  /\ QueueBound

(***************************************************************************)
(* The inductive invariant behind the four properties above: the books     *)
(* balance until Close, only a drained pool is found empty, only bulk      *)
(* callers are in the lane, and a connection is held only inside fn.       *)
(***************************************************************************)
Accounting ==
  /\ ~closed => Books
  /\ At("exhausted") # {} => closed
  /\ \A r \in In({"laneWait", "exhausted", "undoLane", "retLane"}) : UsesLane(r)
  /\ Conforms

(* r has a step that waits for no timer, no client and no other caller. *)
CanRun(r) ==
  \/ pc[r] \in {"count", "dequeue", "pop", "run", "undoCount"}
  \/ pc[r] = "laneWait" /\ First(r) /\ lane > 0
  \/ pc[r] = "semWait" /\ First(r) /\ sem > 0
  \/ pc[r] = "retSem" /\ sem < Connections
  \/ pc[r] \in {"exhausted", "undoLane", "retLane"} /\ lane < BulkLimit

(***************************************************************************)
(* Callers queue on two channels, and those that wait for a permit already *)
(* hold a lane token.  They never all wait for each other: while a call is *)
(* in progress some caller can go on without the help of a timer, unless a *)
(* Flight client that does not read holds it up; and where there is a lane *)
(* not even such clients can stop everyone while callers wait for permits. *)
(***************************************************************************)
NoStandOff ==
  ~closed =>
    /\ At("idle") # Requests =>
         (\E r \in Requests : CanRun(r)) \/ At("stalled") # {}
    /\ HasLane /\ At("semWait") # {} => \E r \in Requests : CanRun(r)

(* The grants a client sees are those of Leases. *)
Abs == INSTANCE Leases WITH
         asking <- In({"laneWait", "count", "semWait", "dequeue", "pop"}),
         lease <- conn

(***************************************************************************)
(* Every step of the queues, permits and tokens is a step of Leases or     *)
(* leaves the callers' leases alone.                                       *)
(***************************************************************************)
ImplementsLeases == Abs!Spec

-----------------------------------------------------------------------------
(* Liveness *)

(***************************************************************************)
(* An interactive call always returns, with an answer or with a refusal,   *)
(* even if Flight clients stop reading for good and hold their connections *)
(* (the 429 of the OGC handlers), and even if Close runs under it.         *)
(***************************************************************************)
InteractiveReturns ==
  \A r \in Interactive : pc[r] # "idle" ~> pc[r] = "idle"

(***************************************************************************)
(* If every Flight client lets its query function return, a bulk call that *)
(* blocked on the lane, where no timer runs, is served in its turn.        *)
(***************************************************************************)
BulkReturns ==
  (\A s \in Streams : []<>(pc[s] \notin {"run", "stalled"}))
    => \A r \in Bulk : pc[r] # "idle" ~> (pc[r] = "idle" \/ closed)

=============================================================================
