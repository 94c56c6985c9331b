------------------------------- MODULE Leases -------------------------------
(***************************************************************************)
(* What Store.Query promises a caller, whatever the queues, permits and    *)
(* tokens behind it do: the caller is refused, or it is granted a          *)
(* connection nobody else holds until it gives the connection back, and    *)
(* until the store is closed at most BulkLimit grants are bulk ones.       *)
(***************************************************************************)
EXTENDS Integers, FiniteSets

CONSTANTS Requests, Bulk, Conns, BulkLimit, NoConn

VARIABLES
  asking,  \* the callers waiting for an answer
  lease,   \* the connection each caller holds
  closed   \* the store is closed

vars == <<asking, lease, closed>>

Holders == {r \in Requests : lease[r] # NoConn}

Init ==
  /\ asking = {}
  /\ lease = [r \in Requests |-> NoConn]
  /\ closed = FALSE

Ask(r) ==
  /\ r \notin asking \cup Holders
  /\ asking' = asking \cup {r}
  /\ UNCHANGED <<lease, closed>>

Grant(r, c) ==
  /\ r \in asking
  /\ \A q \in Requests : lease[q] # c
  /\ r \in Bulk /\ ~closed => Cardinality(Holders \cap Bulk) < BulkLimit
  /\ asking' = asking \ {r}
  /\ lease' = [lease EXCEPT ![r] = c]
  /\ UNCHANGED closed

Refuse(r) ==
  /\ r \in asking
  /\ asking' = asking \ {r}
  /\ UNCHANGED <<lease, closed>>

GiveBack(r) ==
  /\ r \in Holders
  /\ lease' = [lease EXCEPT ![r] = NoConn]
  /\ UNCHANGED <<asking, closed>>

Close ==
  /\ ~closed
  /\ closed' = TRUE
  /\ UNCHANGED <<asking, lease>>

Next ==
  \/ \E r \in Requests :
       \/ Ask(r)
       \/ \E c \in Conns : Grant(r, c)
       \/ Refuse(r)
       \/ GiveBack(r)
  \/ Close

Spec == Init /\ [][Next]_vars

=============================================================================
