-------------------------------- MODULE Flight --------------------------------
(***************************************************************************)
(* Arrow Flight from the ticket to the last batch (GetFlightInfo, DoGet),  *)
(* in a process that may be shut down under it (flight.Serve, serveCmd).   *)
(*                                                                         *)
(* Rows are counted, for they are sent in order: `fetched` of a call are   *)
(* read from DuckDB, `built` of those are in the record builder, `written` *)
(* are on their way to the client and `got` have arrived.  HTTP/2 keeps    *)
(* schema, batches and status of a stream in order; it limits how far the  *)
(* server may write ahead, and loses what is on its way when a process     *)
(* ends.  Store.Query is taken as what Pool shows of it: a call is         *)
(* admitted or refused.                                                    *)
(***************************************************************************)
EXTENDS Integers, Sequences, FiniteSets

CONSTANTS
  Calls,        \* calls of DoGet, each perhaps after one of GetFlightInfo
  Tickets,      \* the tickets that are tried
  Columns,      \* the columns a ticket may name
  Default,      \* the columns of a ticket that names none
  DefaultLimit, \* 10000
  MaxLimit,     \* 100000
  BatchRows,    \* batchRows, 1024
  Window,       \* how many rows flow control lets wait for the client
  MaxRows,      \* the most rows that match a ticket (bound)
  None          \* a field that is not in a ticket; not yet

ASSUME FlightAssumption ==
  /\ \A t \in Tickets :
       /\ t.known \in BOOLEAN \* the collection exists
       /\ t.boxed \in BOOLEAN \* its bbox, if it has one, is well-formed
       /\ t.columns = None \/ t.columns \in Seq(Columns \cup {"bad"})
       /\ t.limit = None \/ t.limit \in Int
       /\ t.offset = None \/ t.offset \in Int
  /\ Default \in Seq(Columns) /\ Default # <<>>
  /\ None \notin Seq(Columns \cup {"bad"}) /\ "bad" \notin Columns
  /\ MaxLimit \in Nat /\ DefaultLimit \in 0..MaxLimit
  /\ BatchRows \in Nat \ {0} /\ Window \in Nat /\ MaxRows \in Nat

Refusals == {"NotFound", "InvalidArgument", "ResourceExhausted"}
Verdicts == Refusals \cup {"OK", "Internal"}
Statuses == Verdicts \cup {"Unavailable", "Cancelled"}

ASSUME NoStatusIsNone == None \notin Statuses

VARIABLES
  life,     \* of the process: "up", "stopping", "closed" (Store), "gone"
  pc,       \* where the server is with each call
  ticket,   \* the ticket of the call
  promised, \* the schema that GetFlightInfo or GetSchema announced
  total,    \* how many rows match the ticket in the pinned snapshot
  fetched, built, written, \* as above
  wrote,    \* a record, and the schema before it, has been written
  trailer,  \* the status the server ended the call with
  schema,   \* the schema that has arrived
  got,      \* the rows that have arrived
  status    \* how the call ended for the client

vars == <<life, pc, ticket, promised, total, fetched, built, written, wrote,
          trailer, schema, got, status>>
client == <<schema, got, status>>
request == <<ticket, promised, total>>
builder == <<fetched, built, written, wrote>>

-----------------------------------------------------------------------------
(* Tickets *)

Distinct(s) == \A i, j \in DOMAIN s : s[i] = s[j] => i = j

(* Ticket.Validate *)
Valid(t) ==
  /\ t.columns # None =>
       /\ t.columns # <<>> /\ Distinct(t.columns)
       /\ \A i \in DOMAIN t.columns : t.columns[i] \in Columns
  /\ t.limit # None => t.limit \in 0..MaxLimit
  /\ t.offset # None => t.offset >= 0

(* plannedTicket: what is said of a ticket before any query. *)
Planned(t) ==
  IF ~t.known THEN "NotFound"
  ELSE IF Valid(t) /\ t.boxed THEN "OK" ELSE "InvalidArgument"

(* The columns of plannedTicket, which DoGet sends and GetSchema announces. *)
PlannedColumns(t) == IF t.columns = None THEN Default ELSE t.columns

InfoColumns_Older(t) ==
  IF t.columns = None THEN SubSeq(Default, 1, Len(Default) - 1) ELSE t.columns

(***************************************************************************)
(* The columns of infoFor, which GetFlightInfo and ListFlights announce.   *)
(* It gets the ticket as it came and fills in a list of its own.           *)
(***************************************************************************)
InfoColumns(t) == IF t.columns = None THEN Default ELSE t.columns

Limit(t) == IF t.limit = None THEN DefaultLimit ELSE t.limit
Offset(t) == IF t.offset = None THEN 0 ELSE t.offset

(* Ticket.SQL: LIMIT and OFFSET over the m rows that match. *)
PageRows(t, m) ==
  IF m <= Offset(t) THEN 0
  ELSE IF m - Offset(t) <= Limit(t) THEN m - Offset(t) ELSE Limit(t)

-----------------------------------------------------------------------------
Init ==
  /\ life = "up"
  /\ pc = [c \in Calls |-> "idle"]
  /\ ticket = [c \in Calls |-> None]
  /\ promised = [c \in Calls |-> None]
  /\ total = [c \in Calls |-> 0]
  /\ fetched = [c \in Calls |-> 0]
  /\ built = [c \in Calls |-> 0]
  /\ written = [c \in Calls |-> 0]
  /\ wrote = [c \in Calls |-> FALSE]
  /\ trailer = [c \in Calls |-> None]
  /\ schema = [c \in Calls |-> None]
  /\ got = [c \in Calls |-> 0]
  /\ status = [c \in Calls |-> None]

Goto(c, label) == pc' = [pc EXCEPT ![c] = label]

(* The handler returns with a status. *)
Return(c, s) ==
  /\ trailer' = [trailer EXCEPT ![c] = s]
  /\ Goto(c, "ended")

(***************************************************************************)
(* GetFlightInfo answers with a schema and the ticket as it came, as       *)
(* ListFlights does for each collection; GetSchema with the schema alone.  *)
(***************************************************************************)
Info(c, t) ==
  /\ life # "gone" /\ pc[c] = "idle" /\ status[c] = None
  /\ Planned(t) = "OK"
  /\ ticket' = [ticket EXCEPT ![c] = t]
  /\ \E s \in {InfoColumns(t), PlannedColumns(t)} :
       promised' = [promised EXCEPT ![c] = s]
  /\ Goto(c, "informed")
  /\ UNCHANGED <<life, total, builder, trailer, client>>

(* DoGet up to Store.Query, with the ticket of GetFlightInfo if there was.  *)
DoGet(c, t) ==
  /\ life # "gone" /\ status[c] = None
  /\ pc[c] = "idle" \/ (pc[c] = "informed" /\ t = ticket[c])
  /\ ticket' = [ticket EXCEPT ![c] = t]
  /\ \E m \in 0..MaxRows : total' = [total EXCEPT ![c] = m]
  /\ IF Planned(t) = "OK" THEN Goto(c, "query") /\ UNCHANGED trailer
                          ELSE Return(c, Planned(t))
  /\ UNCHANGED <<life, promised, builder, client>>

(* Store.Query admits the call and DuckDB starts on it. *)
Admit(c) ==
  /\ pc[c] = "query" /\ life \in {"up", "stopping"}
  /\ Goto(c, "scan")
  /\ UNCHANGED <<life, request, builder, trailer, client>>

(* It refuses the call, or the query or a closed Store fails at once. *)
Reject(c) ==
  /\ pc[c] = "query" /\ life # "gone"
  /\ \E s \in {"ResourceExhausted", "Internal"} : Return(c, s)
  /\ UNCHANGED <<life, request, builder, client>>

(* rows.Next, Scan and appendRow. *)
Scan(c) ==
  /\ pc[c] = "scan" /\ life # "gone"
  /\ fetched[c] < PageRows(ticket[c], total[c])
  /\ fetched' = [fetched EXCEPT ![c] = @ + 1]
  /\ built' = [built EXCEPT ![c] = @ + 1]
  /\ Goto(c, IF built[c] + 1 >= BatchRows THEN "flush" ELSE "scan")
  /\ UNCHANGED <<life, request, written, wrote, trailer, client>>

Break_Unseen(c) ==
  /\ pc[c] = "scan" /\ life # "gone"
  /\ IF built[c] > 0 \/ ~wrote[c] THEN Goto(c, "last") /\ UNCHANGED trailer
                                  ELSE Return(c, "OK")
  /\ UNCHANGED <<life, request, builder, client>>

Break_Overloaded(c) ==
  /\ pc[c] = "scan" /\ life # "gone"
  /\ Return(c, "ResourceExhausted")
  /\ UNCHANGED <<life, request, builder, client>>

(***************************************************************************)
(* The query fails between two rows: its deadline, its client or Close     *)
(* cancels it, DuckDB meets an error, or a row does not convert.           *)
(***************************************************************************)
Break(c) ==
  /\ pc[c] = "scan" /\ life # "gone"
  /\ Return(c, "Internal")
  /\ UNCHANGED <<life, request, builder, client>>

(* w.Write, which blocks while the client reads too slowly. *)
Flush(c) ==
  /\ pc[c] \in {"flush", "last"} /\ life # "gone"
  /\ written[c] - got[c] <= Window
  /\ written' = [written EXCEPT ![c] = @ + built[c]]
  /\ built' = [built EXCEPT ![c] = 0]
  /\ wrote' = [wrote EXCEPT ![c] = TRUE]
  /\ IF pc[c] = "last" THEN Return(c, "OK")
                       ELSE Goto(c, "scan") /\ UNCHANGED trailer
  /\ UNCHANGED <<life, request, fetched, client>>

WriteFails_NotLast(c) ==
  /\ pc[c] = "flush" /\ life # "gone" /\ status[c] # None
  /\ Return(c, "Internal")
  /\ UNCHANGED <<life, request, builder, client>>

(* A write fails when the client has gone away. *)
WriteFails(c) ==
  /\ pc[c] \in {"flush", "last"} /\ life # "gone" /\ status[c] # None
  /\ Return(c, "Internal")
  /\ UNCHANGED <<life, request, builder, client>>

(* No row is left: what is in the builder, or an empty record, is written. *)
Finish(c) ==
  /\ pc[c] = "scan" /\ life # "gone"
  /\ fetched[c] = PageRows(ticket[c], total[c])
  /\ IF built[c] > 0 \/ ~wrote[c] THEN Goto(c, "last") /\ UNCHANGED trailer
                                  ELSE Return(c, "OK")
  /\ UNCHANGED <<life, request, builder, client>>

-----------------------------------------------------------------------------
(* The client *)

(* The next message of the stream arrives: schema, batch or status. *)
Receive(c) ==
  /\ status[c] = None
  /\ \/ /\ wrote[c] /\ schema[c] = None
        /\ schema' = [schema EXCEPT ![c] = PlannedColumns(ticket[c])]
        /\ UNCHANGED <<got, status>>
     \/ /\ schema[c] # None /\ got[c] < written[c]
        /\ got' = [got EXCEPT ![c] = IF @ + BatchRows < written[c]
                                     THEN @ + BatchRows ELSE written[c]]
        /\ UNCHANGED <<schema, status>>
     \/ /\ wrote[c] => schema[c] # None
        /\ got[c] = written[c] /\ trailer[c] # None
        /\ status' = [status EXCEPT ![c] = trailer[c]]
        /\ UNCHANGED <<schema, got>>
  /\ UNCHANGED <<life, pc, request, builder, trailer>>

(* The client gives up. *)
Depart(c) ==
  /\ pc[c] # "idle" /\ status[c] = None
  /\ status' = [status EXCEPT ![c] = "Cancelled"]
  /\ UNCHANGED <<life, pc, request, builder, trailer, schema, got>>

(* GracefulStop, some time after the signal, refuses new calls; no call    *)
(* outlives the process.                                                   *)
Lose(c) ==
  /\ status[c] = None
  /\ life = "gone" \/ (life # "up" /\ pc[c] \in {"idle", "informed"})
  /\ status' = [status EXCEPT ![c] = "Unavailable"]
  /\ UNCHANGED <<life, pc, request, builder, trailer, schema, got>>

-----------------------------------------------------------------------------
(* serveCmd *)

(* The context ends, and GracefulStop runs beside the HTTP Shutdown. *)
Interrupt ==
  /\ life = "up" /\ life' = "stopping"
  /\ UNCHANGED <<pc, request, builder, trailer, client>>

(***************************************************************************)
(* HTTP is down, or a listener has failed: serveCmd returns and the        *)
(* deferred Close runs.  Nothing waits for the Flight calls.               *)
(***************************************************************************)
Close ==
  /\ life \in {"up", "stopping"} /\ life' = "closed"
  /\ UNCHANGED <<pc, request, builder, trailer, client>>

Exit ==
  /\ life = "closed" /\ life' = "gone"
  /\ UNCHANGED <<pc, request, builder, trailer, client>>

-----------------------------------------------------------------------------
Handler(c) ==
  \/ Admit(c) \/ Reject(c) \/ Scan(c) \/ Break(c) \/ Flush(c)
  \/ WriteFails(c) \/ Finish(c)

Next ==
  \/ \E c \in Calls : \/ \E t \in Tickets : Info(c, t) \/ DoGet(c, t)
                      \/ Handler(c) \/ Receive(c) \/ Depart(c) \/ Lose(c)
  \/ Interrupt \/ Close \/ Exit

(***************************************************************************)
(* The server works on the calls it has, clients read what arrives, and a  *)
(* process that is stopping does stop.  Nobody has to make a call.         *)
(***************************************************************************)
Fairness ==
  /\ \A c \in Calls : WF_vars(Handler(c)) /\ WF_vars(Receive(c)) /\ WF_vars(Lose(c))
  /\ WF_vars(life # "up" /\ (Close \/ Exit))

Spec == Init /\ [][Next]_vars /\ Fairness

-----------------------------------------------------------------------------
(* Every variable has its type; a batch never grows beyond BatchRows.      *)
TypeOK ==
  /\ life \in {"up", "stopping", "closed", "gone"}
  /\ pc \in [Calls -> {"idle", "informed", "query", "scan", "flush", "last", "ended"}]
  /\ ticket \in [Calls -> Tickets \cup {None}]
  /\ promised \in [Calls -> Seq(Columns) \cup {None}]
  /\ total \in [Calls -> 0..MaxRows]
  /\ fetched \in [Calls -> 0..MaxRows] /\ built \in [Calls -> 0..BatchRows]
  /\ written \in [Calls -> 0..MaxRows] /\ wrote \in [Calls -> BOOLEAN]
  /\ trailer \in [Calls -> Verdicts \cup {None}]
  /\ schema \in [Calls -> Seq(Columns) \cup {None}]
  /\ got \in [Calls -> 0..MaxRows]
  /\ status \in [Calls -> Statuses \cup {None}]

(***************************************************************************)
(* "Fetch failures surface as errors instead of truncated streams"         *)
(* (README.md:216) and "empty streams include their schema" (README.md:    *)
(* 181): a stream that ends well has brought its schema, the one announced *)
(* to the client if it asked, and every row of the page, whatever          *)
(* deadlines, clients and shutdowns cut short.                             *)
(***************************************************************************)
NeverTruncated ==
  \A c \in Calls :
    status[c] = "OK" =>
      /\ schema[c] # None
      /\ promised[c] # None => schema[c] = promised[c]
      /\ got[c] = PageRows(ticket[c], total[c])

(***************************************************************************)
(* A call that is refused has sent nothing: a client may repeat it after   *)
(* RESOURCE_EXHAUSTED without getting rows twice.                          *)
(***************************************************************************)
RetriesAreSafe ==
  \A c \in Calls : status[c] \in Refusals => schema[c] = None /\ got[c] = 0

(***************************************************************************)
(* Every call ends, on both sides: a client that reads on gets rows or an  *)
(* error, and a client that leaves frees the handler and its connection,   *)
(* through backpressure, failures and the end of the process.              *)
(***************************************************************************)
StreamsEnd ==
  \A c \in Calls :
    pc[c] \notin {"idle", "informed"}
      ~> status[c] # None /\ (pc[c] = "ended" \/ life = "gone")
=============================================================================
