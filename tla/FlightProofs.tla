----------------------------- MODULE FlightProofs -----------------------------
(***************************************************************************)
(* Theorems about Flight, for any calls, tickets, batch size, window and   *)
(* number of rows.                                                         *)
(***************************************************************************)
EXTENDS Flight, TLAPS

(* What is to be shown of the rows of every call: none is lost between     *)
(* DuckDB, the builder and the stream, and the builder is behind no "OK".  *)
RowsOf(c) ==
  /\ fetched[c] = written[c] + built[c]
  /\ got[c] <= written[c]
  /\ pc[c] \in {"idle", "informed", "query"} => fetched[c] = 0 /\ ~wrote[c]
  /\ pc[c] \in {"scan", "flush", "last"} =>
       fetched[c] <= PageRows(ticket[c], total[c])
  /\ pc[c] = "scan" => built[c] < BatchRows
  /\ pc[c] = "last" => fetched[c] = PageRows(ticket[c], total[c])
  /\ ~wrote[c] => written[c] = 0 /\ schema[c] = None

Rows == \A c \in Calls : RowsOf(c)

(* What the two ends know of each other.                                   *)
EndsOf(c) ==
  /\ trailer[c] # None <=> pc[c] = "ended"
  /\ trailer[c] = "OK" =>
       wrote[c] /\ written[c] = PageRows(ticket[c], total[c])
  /\ trailer[c] \in Refusals => ~wrote[c]
  /\ status[c] \in Refusals \cup {"OK"} => trailer[c] = status[c]
  /\ status[c] = "OK" => schema[c] # None /\ got[c] = written[c]

Ends == \A c \in Calls : EndsOf(c)

(* Both schemas are those of the ticket.                                   *)
SchemasOf(c) ==
  /\ promised[c] # None => promised[c] = PlannedColumns(ticket[c])
  /\ schema[c] # None => schema[c] = PlannedColumns(ticket[c])
  /\ pc[c] = "idle" => promised[c] = None
  /\ pc[c] # "idle" => ticket[c] \in Tickets
  /\ pc[c] \in {"query", "scan", "flush", "last"} \/ wrote[c]
       => Planned(ticket[c]) = "OK"

Schemas == \A c \in Calls : SchemasOf(c)

Inv == TypeOK /\ Rows /\ Ends /\ Schemas

USE DEF client, request, builder, Goto, Return

-----------------------------------------------------------------------------
(***************************************************************************)
(* The two default lists, of infoFor and of plannedTicket, are the same:   *)
(* what is announced is what is sent.                                      *)
(***************************************************************************)
LEMMA FillInsAgree ==
  ASSUME NEW t \in Tickets
  PROVE  InfoColumns(t) = PlannedColumns(t)
BY DEF InfoColumns, PlannedColumns

(* The columns of a ticket that passes plannedTicket have a schema. *)
LEMMA SchemaType ==
  ASSUME NEW t \in Tickets, Planned(t) = "OK"
  PROVE  PlannedColumns(t) \in Seq(Columns) /\ PlannedColumns(t) # None
<1>1. Valid(t)
  BY DEF Planned
<1>2. CASE t.columns = None
  BY <1>2, FlightAssumption DEF PlannedColumns
<1>3. CASE t.columns # None
  <2>1. t.columns \in Seq(Columns \cup {"bad"})
    BY <1>3, FlightAssumption
  <2>2. \A i \in DOMAIN t.columns : t.columns[i] \in Columns
    BY <1>1, <1>3 DEF Valid
  <2>3. t.columns \in Seq(Columns)
    BY <2>1, <2>2
  <2> QED
    BY <1>3, <2>3 DEF PlannedColumns
<1> QED
  BY <1>2, <1>3

(* A page has no more rows than match the ticket. *)
LEMMA PageRowsType ==
  ASSUME NEW t \in Tickets, Planned(t) = "OK", NEW k \in 0..MaxRows
  PROVE  PageRows(t, k) \in 0..k
<1>1. Valid(t)
  BY DEF Planned
<1>2. Limit(t) \in Nat /\ Offset(t) \in Nat
  BY <1>1, FlightAssumption DEF Valid, Limit, Offset
<1> QED
  BY <1>2, FlightAssumption DEF PageRows

(* The numbers that the size of a batch and a page are bounded by. *)
LEMMA Bounds == BatchRows \in Nat /\ BatchRows > 0 /\ MaxRows \in Nat
  BY FlightAssumption

(* A process without calls. *)
LEMMA Start == Init => Inv
<1> SUFFICES ASSUME Init PROVE Inv
  OBVIOUS
<1>1. TypeOK
  BY FlightAssumption DEF Init, TypeOK
<1>2. Rows
  BY FlightAssumption DEF Init, Rows, RowsOf
<1>3. Ends
  BY NoStatusIsNone DEF Init, Ends, EndsOf, Statuses, Verdicts, Refusals
<1>4. Schemas
  BY DEF Init, Schemas, SchemasOf
<1> QED
  BY <1>1, <1>2, <1>3, <1>4 DEF Inv

(* The page of a call that is past planning. *)
LEMMA PlannedPage ==
  ASSUME Inv, NEW c \in Calls, pc[c] \in {"query", "scan", "flush", "last"}
  PROVE  PageRows(ticket[c], total[c]) \in 0..MaxRows
<1>1. ticket[c] \in Tickets /\ Planned(ticket[c]) = "OK" /\ total[c] \in 0..MaxRows
  BY DEF Inv, TypeOK, Schemas, SchemasOf
<1> QED
  BY <1>1, PageRowsType, Bounds

(* The counts of a call are numbers. *)
LEMMA Numbers ==
  ASSUME TypeOK, NEW c \in Calls
  PROVE  /\ fetched[c] \in Nat /\ built[c] \in Nat /\ written[c] \in Nat
         /\ got[c] \in Nat /\ total[c] \in Nat
  BY Bounds DEF TypeOK

(* GetFlightInfo fixes the ticket and with it the schema. *)
LEMMA InfoStep ==
  ASSUME Inv, NEW c \in Calls, NEW t \in Tickets, Info(c, t)
  PROVE  Inv'
<1>1. PlannedColumns(t) \in Seq(Columns) /\ PlannedColumns(t) # None
  BY SchemaType DEF Info
<1>2. promised' = [promised EXCEPT ![c] = PlannedColumns(t)]
  BY FillInsAgree DEF Info
<1>3. TypeOK'
  BY <1>1, <1>2 DEF Inv, TypeOK, Info
<1>4. Rows'
  BY DEF Inv, TypeOK, Rows, RowsOf, Info
<1>5. Ends'
  BY NoStatusIsNone DEF Inv, TypeOK, Ends, EndsOf, Statuses, Verdicts, Refusals, Info
<1>6. Schemas'
  BY <1>1, <1>2 DEF Inv, TypeOK, Rows, RowsOf, Schemas, SchemasOf, Info
<1> QED
  BY <1>3, <1>4, <1>5, <1>6 DEF Inv

(* A call is planned, or ends before it has sent anything. *)
LEMMA DoGetStep ==
  ASSUME Inv, NEW c \in Calls, NEW t \in Tickets, DoGet(c, t)
  PROVE  Inv'
<1>1. Planned(t) \in {"OK", "NotFound", "InvalidArgument"}
  BY DEF Planned
<1>2. ~wrote[c]
  BY DEF Inv, Rows, RowsOf, DoGet
<1>3. TypeOK'
  BY <1>1 DEF Inv, TypeOK, Verdicts, Refusals, DoGet
<1>4. Rows'
  BY DEF Inv, TypeOK, Rows, RowsOf, DoGet
<1>5. Ends'
  <2> SUFFICES ASSUME NEW d \in Calls PROVE EndsOf(d)'
    BY DEF Ends
  <2>1. CASE d # c
    BY <1>1, <2>1 DEF Inv, TypeOK, Ends, EndsOf, DoGet
  <2>2. CASE d = c
    BY <1>1, <1>2, <2>2, NoStatusIsNone
    DEF Inv, TypeOK, Ends, EndsOf, Statuses, Verdicts, Refusals, DoGet
  <2> QED
    BY <2>1, <2>2
<1>6. Schemas'
  BY <1>2 DEF Inv, TypeOK, Rows, RowsOf, Schemas, SchemasOf, DoGet
<1> QED
  BY <1>3, <1>4, <1>5, <1>6 DEF Inv

(* A query that is admitted has no row yet. *)
LEMMA AdmitStep ==
  ASSUME Inv, NEW c \in Calls, Admit(c)
  PROVE  Inv'
<1>1. PageRows(ticket[c], total[c]) \in 0..MaxRows
  BY PlannedPage DEF Admit
<1>2. TypeOK'
  BY DEF Inv, TypeOK, Admit
<1>3. Rows'
  BY <1>1, Bounds DEF Inv, TypeOK, Rows, RowsOf, Admit
<1>4. Ends'
  BY DEF Inv, TypeOK, Ends, EndsOf, Admit
<1>5. Schemas'
  BY DEF Inv, TypeOK, Schemas, SchemasOf, Admit
<1> QED
  BY <1>2, <1>3, <1>4, <1>5 DEF Inv

(* A row goes from DuckDB into the builder, which has room for it. *)
LEMMA ScanStep ==
  ASSUME Inv, NEW c \in Calls, Scan(c)
  PROVE  Inv'
<1>1. PageRows(ticket[c], total[c]) \in 0..MaxRows
  BY PlannedPage DEF Scan
<1>2. TypeOK'
  <2>1. /\ fetched'[c] \in 0..MaxRows /\ built'[c] \in 0..BatchRows
        /\ written'[c] \in 0..MaxRows /\ got'[c] \in 0..MaxRows
    BY <1>1, Bounds DEF Inv, TypeOK, Rows, RowsOf, Scan
  <2> QED
    BY <2>1 DEF Inv, TypeOK, Scan
<1>3. Rows'
  <2> SUFFICES ASSUME NEW d \in Calls PROVE RowsOf(d)'
    BY DEF Rows
  <2>1. CASE d # c
    BY <2>1 DEF Inv, TypeOK, Rows, RowsOf, Scan
  <2>2. CASE d = c
    BY <1>1, Bounds, <2>2 DEF Inv, TypeOK, Rows, RowsOf, Scan
  <2> QED
    BY <2>1, <2>2
<1>4. Ends'
  BY DEF Inv, TypeOK, Ends, EndsOf, Scan
<1>5. Schemas'
  BY DEF Inv, TypeOK, Schemas, SchemasOf, Scan
<1> QED
  BY <1>2, <1>3, <1>4, <1>5 DEF Inv

(* A batch goes from the builder to the stream; the last completes the page. *)
LEMMA FlushStep ==
  ASSUME Inv, NEW c \in Calls, Flush(c)
  PROVE  Inv'
<1>1. PageRows(ticket[c], total[c]) \in 0..MaxRows
  BY PlannedPage DEF Flush
<1>2. TypeOK'
  <2>1. /\ fetched'[c] \in 0..MaxRows /\ built'[c] \in 0..BatchRows
        /\ written'[c] \in 0..MaxRows /\ got'[c] \in 0..MaxRows
    BY Bounds DEF Inv, TypeOK, Rows, RowsOf, Flush
  <2> QED
    BY <2>1 DEF Inv, TypeOK, Verdicts, Flush
<1>3. Rows'
  <2> SUFFICES ASSUME NEW d \in Calls PROVE RowsOf(d)'
    BY DEF Rows
  <2>1. CASE d # c
    BY <2>1 DEF Inv, TypeOK, Rows, RowsOf, Flush
  <2>2. CASE d = c
    BY <1>1, <2>2, Bounds, Numbers DEF Inv, TypeOK, Rows, RowsOf, Flush
  <2> QED
    BY <2>1, <2>2
<1>4. Ends'
  <2> SUFFICES ASSUME NEW d \in Calls PROVE EndsOf(d)'
    BY DEF Ends
  <2>1. CASE d # c
    BY <2>1 DEF Inv, TypeOK, Ends, EndsOf, Flush
  <2>2. CASE d = c
    <3>1. trailer[c] = None /\ status[c] \notin Refusals \cup {"OK"}
      BY NoStatusIsNone DEF Inv, Ends, EndsOf, Statuses, Verdicts, Refusals, Flush
    <3>2. wrote'[c] /\ (pc[c] = "last" => written'[c] = fetched[c])
      BY Numbers DEF Inv, TypeOK, Rows, RowsOf, Flush
    <3> QED
      BY <2>2, <3>1, <3>2, NoStatusIsNone
      DEF Inv, TypeOK, Rows, RowsOf, EndsOf, Statuses, Verdicts, Refusals, Flush
  <2> QED
    BY <2>1, <2>2
<1>5. Schemas'
  BY DEF Inv, TypeOK, Schemas, SchemasOf, Flush
<1> QED
  BY <1>2, <1>3, <1>4, <1>5 DEF Inv

(* The page is at its end, and OK comes only with an empty builder. *)
LEMMA FinishStep ==
  ASSUME Inv, NEW c \in Calls, Finish(c)
  PROVE  Inv'
<1>1. PageRows(ticket[c], total[c]) \in 0..MaxRows
  BY PlannedPage DEF Finish
<1>2. TypeOK'
  BY DEF Inv, TypeOK, Verdicts, Finish
<1>3. Rows'
  BY <1>1, Bounds DEF Inv, TypeOK, Rows, RowsOf, Finish
<1>4. Ends'
  <2> SUFFICES ASSUME NEW d \in Calls PROVE EndsOf(d)'
    BY DEF Ends
  <2>1. CASE d # c
    BY <2>1 DEF Inv, TypeOK, Ends, EndsOf, Finish
  <2>2. CASE d = c
    BY <2>2, NoStatusIsNone
    DEF Inv, TypeOK, Rows, RowsOf, Ends, EndsOf, Statuses, Verdicts, Refusals,
        Finish
  <2> QED
    BY <2>1, <2>2
<1>5. Schemas'
  BY DEF Inv, TypeOK, Schemas, SchemasOf, Finish
<1> QED
  BY <1>2, <1>3, <1>4, <1>5 DEF Inv

(* What arrives was written, in its order. *)
LEMMA ReceiveStep ==
  ASSUME Inv, NEW c \in Calls, Receive(c)
  PROVE  Inv'
<1>1. wrote[c] => PlannedColumns(ticket[c]) \in Seq(Columns) /\ PlannedColumns(ticket[c]) # None
  BY SchemaType DEF Inv, Rows, RowsOf, Schemas, SchemasOf, TypeOK
<1>2. TypeOK'
  <2>1. /\ fetched'[c] \in 0..MaxRows /\ built'[c] \in 0..BatchRows
        /\ written'[c] \in 0..MaxRows /\ got'[c] \in 0..MaxRows
    BY Bounds DEF Inv, TypeOK, Receive
  <2>2. schema' \in [Calls -> Seq(Columns) \cup {None}]
    BY <1>1 DEF Inv, TypeOK, Receive
  <2>3. got' \in [Calls -> 0..MaxRows]
    BY <2>1 DEF Inv, TypeOK, Receive
  <2>4. status' \in [Calls -> Statuses \cup {None}]
    BY DEF Inv, TypeOK, Statuses, Receive
  <2> QED
    BY <2>2, <2>3, <2>4 DEF Inv, TypeOK, Receive
<1>3. Rows'
  <2> SUFFICES ASSUME NEW d \in Calls PROVE RowsOf(d)'
    BY DEF Rows
  <2>1. CASE d # c
    BY <2>1 DEF Inv, TypeOK, Rows, RowsOf, Receive
  <2>2. CASE d = c
    BY Bounds, <2>2 DEF Inv, TypeOK, Rows, RowsOf, Receive
  <2> QED
    BY <2>1, <2>2
<1>4. Ends'
  BY DEF Inv, TypeOK, Ends, EndsOf, Receive
<1>5. Schemas'
  BY <1>1 DEF Inv, TypeOK, Rows, RowsOf, Schemas, SchemasOf, Receive
<1> QED
  BY <1>2, <1>3, <1>4, <1>5 DEF Inv

(***************************************************************************)
(* A handler that gives up: with Internal at any point, with a refusal     *)
(* before it wrote anything.                                               *)
(***************************************************************************)
LEMMA GivesUp ==
  ASSUME Inv, NEW c \in Calls, NEW s \in Refusals \cup {"Internal"},
         pc[c] \in {"query", "scan", "flush", "last"},
         s \in Refusals => ~wrote[c],
         Return(c, s), UNCHANGED <<life, request, builder, client>>
  PROVE  Inv'
<1>1. TypeOK'
  BY DEF Inv, TypeOK, Verdicts, Refusals
<1>2. Rows'
  BY DEF Inv, TypeOK, Rows, RowsOf
<1>3. Ends'
  BY NoStatusIsNone
  DEF Inv, TypeOK, Rows, RowsOf, Ends, EndsOf, Statuses, Verdicts, Refusals
<1>4. Schemas'
  BY DEF Inv, TypeOK, Schemas, SchemasOf
<1> QED
  BY <1>1, <1>2, <1>3, <1>4 DEF Inv

(* What the client does by itself leaves the server as it is. *)
LEMMA LeavesStep ==
  ASSUME Inv, NEW c \in Calls, Depart(c) \/ Lose(c)
  PROVE  Inv'
<1> DEFINE s == IF status'[c] = "Cancelled" THEN "Cancelled" ELSE "Unavailable"
<1>1. status' = [status EXCEPT ![c] = s] /\ s \in {"Cancelled", "Unavailable"}
  BY DEF Inv, TypeOK, Depart, Lose
<1>2. UNCHANGED <<life, pc, request, builder, trailer, schema, got>>
  BY DEF Depart, Lose
<1> HIDE DEF s
<1>3. TypeOK'
  BY <1>1, <1>2 DEF Inv, TypeOK, Statuses
<1>4. Rows' /\ Schemas'
  BY <1>2 DEF Inv, TypeOK, Rows, RowsOf, Schemas, SchemasOf
<1>5. Ends'
  BY <1>1, <1>2 DEF Inv, TypeOK, Ends, EndsOf, Refusals
<1> QED
  BY <1>3, <1>4, <1>5 DEF Inv

(* Every step of a call, its client or the process keeps the invariant. *)
LEMMA Step == Inv /\ [Next]_vars => Inv'
<1> SUFFICES ASSUME Inv, [Next]_vars PROVE Inv'
  OBVIOUS
<1>1. CASE UNCHANGED vars
  BY <1>1 DEF Inv, TypeOK, Rows, RowsOf, Ends, EndsOf, Schemas, SchemasOf, vars
<1>2. CASE Interrupt \/ Close \/ Exit
  BY <1>2
  DEF Inv, TypeOK, Rows, RowsOf, Ends, EndsOf, Schemas, SchemasOf,
      Interrupt, Close, Exit
<1>3. ASSUME NEW c \in Calls, NEW t \in Tickets, Info(c, t) \/ DoGet(c, t)
      PROVE  Inv'
  BY <1>3, InfoStep, DoGetStep
<1>4. ASSUME NEW c \in Calls, Handler(c)
      PROVE  Inv'
  <2>1. CASE Admit(c) \/ Scan(c) \/ Flush(c) \/ Finish(c)
    BY <2>1, AdmitStep, ScanStep, FlushStep, FinishStep
  <2>2. CASE Reject(c)
    <3>1. ~wrote[c]
      BY <2>2 DEF Inv, Rows, RowsOf, Reject
    <3>2. PICK s \in {"ResourceExhausted", "Internal"} : Return(c, s)
      BY <2>2 DEF Reject
    <3> QED
      BY <2>2, <3>1, <3>2, GivesUp DEF Reject, Refusals
  <2>3. CASE Break(c)
    BY <2>3, GivesUp DEF Break, Refusals
  <2>4. CASE WriteFails(c)
    BY <2>4, GivesUp DEF WriteFails, Refusals
  <2> QED
    BY <1>4, <2>1, <2>2, <2>3, <2>4 DEF Handler
<1>5. ASSUME NEW c \in Calls, Receive(c) \/ Depart(c) \/ Lose(c)
      PROVE  Inv'
  BY <1>5, ReceiveStep, LeavesStep
<1> QED
  BY <1>1, <1>2, <1>3, <1>4, <1>5 DEF Next

(* The invariant of all calls, from which the properties follow. *)
THEOREM Invariance == Spec => []Inv
  BY Start, Step, PTL DEF Spec

-----------------------------------------------------------------------------
(* Every variable keeps its type, and no batch grows beyond BatchRows. *)
THEOREM TypeCorrect == Spec => []TypeOK
<1>1. Inv => TypeOK
  BY DEF Inv
<1> QED
  BY <1>1, Invariance, PTL

(***************************************************************************)
(* Whatever fails, leaves or shuts down while it runs, a stream that ends  *)
(* well has brought its schema, as announced, and every row of its page.   *)
(***************************************************************************)
THEOREM StreamsAreWhole == Spec => []NeverTruncated
<1>1. Inv => NeverTruncated
  <2> SUFFICES ASSUME Inv, NEW c \in Calls, status[c] = "OK"
               PROVE  /\ schema[c] # None
                      /\ promised[c] # None => schema[c] = promised[c]
                      /\ got[c] = PageRows(ticket[c], total[c])
    BY DEF NeverTruncated
  <2>1. trailer[c] = "OK" /\ schema[c] # None /\ got[c] = written[c]
    BY DEF Inv, Ends, EndsOf
  <2>2. written[c] = PageRows(ticket[c], total[c])
    BY <2>1 DEF Inv, Ends, EndsOf
  <2>3. promised[c] # None => schema[c] = promised[c]
    BY <2>1 DEF Inv, Schemas, SchemasOf
  <2> QED
    BY <2>1, <2>2, <2>3
<1> QED
  BY <1>1, Invariance, PTL

(* A refusal comes before any part of the answer. *)
THEOREM RefusalsSendNothing == Spec => []RetriesAreSafe
<1>1. Inv => RetriesAreSafe
  <2> SUFFICES ASSUME Inv, NEW c \in Calls, status[c] \in Refusals
               PROVE  schema[c] = None /\ got[c] = 0
    BY DEF RetriesAreSafe
  <2>1. written[c] = 0 /\ got[c] <= written[c] /\ schema[c] = None
    BY DEF Inv, Rows, RowsOf, Ends, EndsOf
  <2> QED
    BY <2>1, Numbers DEF Inv
<1> QED
  BY <1>1, Invariance, PTL

-----------------------------------------------------------------------------
(* Every call ends: what StreamsEnd needs besides fairness *)

(***************************************************************************)
(* What is left of a call: the steps of its handler, the rows, the schema  *)
(* and the status that its client may still get.                           *)
(***************************************************************************)
Unread(c) == PageRows(ticket[c], total[c]) - fetched[c]

ServerLeft(c) ==
  CASE pc[c] = "query" -> 2 * Unread(c) + 4
    [] pc[c] = "flush" -> 2 * Unread(c) + 3
    [] pc[c] = "scan"  -> 2 * Unread(c) + 2
    [] pc[c] = "last"  -> 1
    [] OTHER -> 0

ClientLeft(c) ==
  (MaxRows - got[c]) + (IF schema[c] = None THEN 1 ELSE 0)
    + (IF status[c] = None THEN 1 ELSE 0)

Left(c) == ServerLeft(c) + ClientLeft(c)

Begun(c) == pc[c] \notin {"idle", "informed"}

CallState(c) ==
  <<pc[c], ticket[c], promised[c], total[c], fetched[c], built[c], written[c],
    wrote[c], trailer[c], schema[c], got[c], status[c]>>

(***************************************************************************)
(* A call that has begun never comes back to where it was: whatever        *)
(* happens to it leaves less to happen.                                    *)
(***************************************************************************)
CallsRunDown ==
  [][\A c \in Calls :
       Begun(c) => \/ Left(c)' \in Nat /\ Left(c)' < Left(c)
                   \/ UNCHANGED CallState(c)]_vars

(* The handler has a row to read or the end to see, or room to write.      *)
CanWork(c) ==
  /\ life # "gone"
  /\ \/ pc[c] = "query"
     \/ pc[c] = "scan" /\ fetched[c] <= PageRows(ticket[c], total[c])
     \/ /\ pc[c] \in {"flush", "last"}
        /\ written[c] - got[c] <= Window \/ status[c] # None

(* The client has something to read, or its connection breaks.             *)
CanRead(c) ==
  /\ status[c] = None
  /\ \/ wrote[c] /\ schema[c] = None
     \/ schema[c] # None /\ got[c] < written[c]
     \/ /\ wrote[c] => schema[c] # None
        /\ got[c] = written[c] /\ trailer[c] # None
     \/ life = "gone"

(***************************************************************************)
(* A call is over on both sides, or one side can go on: under backpressure *)
(* handler and client never both wait for the other.                       *)
(***************************************************************************)
NeverStuck ==
  \A c \in Calls :
    Begun(c) => \/ status[c] # None /\ (pc[c] = "ended" \/ life = "gone")
                \/ CanWork(c) \/ CanRead(c)

(* The parts of what is left are numbers. *)
LeftIsNat ==
  \A c \in Calls :
    Begun(c) => ServerLeft(c) \in Nat /\ ClientLeft(c) \in Nat

(* A handler has not read more than its page, nor a client more than any.  *)
LEMMA LeftType == Inv => LeftIsNat
<1> SUFFICES ASSUME Inv, NEW c \in Calls
             PROVE  ServerLeft(c) \in Nat /\ ClientLeft(c) \in Nat
  BY DEF LeftIsNat
<1>1. ClientLeft(c) \in Nat
  BY Bounds DEF Inv, TypeOK, ClientLeft
<1>2. CASE pc[c] \in {"query", "scan", "flush", "last"}
  <2>1. PageRows(ticket[c], total[c]) \in Nat
    BY <1>2, PlannedPage
  <2>2. fetched[c] \in Nat /\ fetched[c] <= PageRows(ticket[c], total[c])
    BY <1>2, <2>1 DEF Inv, TypeOK, Rows, RowsOf
  <2>3. Unread(c) \in Nat
    BY <2>1, <2>2 DEF Unread
  <2> QED
    BY <1>1, <1>2, <2>3 DEF ServerLeft
<1>3. CASE pc[c] \notin {"query", "scan", "flush", "last"}
  BY <1>1, <1>3 DEF ServerLeft
<1> QED
  BY <1>2, <1>3

(* A step of the handler leaves it less to do, and the client as much.     *)
LEMMA HandlerRunsDown ==
  ASSUME Inv, NEW c \in Calls, Handler(c)
  PROVE  /\ ServerLeft(c)' < ServerLeft(c)
         /\ ClientLeft(c)' = ClientLeft(c)
<1>1. pc[c] \in {"query", "scan", "flush", "last"}
  BY DEF Handler, Admit, Reject, Scan, Break, Flush, WriteFails, Finish
<1>2. /\ PageRows(ticket[c], total[c]) \in Nat
      /\ fetched[c] \in Nat /\ fetched[c] <= PageRows(ticket[c], total[c])
  BY <1>1, PlannedPage DEF Inv, TypeOK, Rows, RowsOf
<1>3. UNCHANGED <<ticket, total, schema, got, status>>
  BY DEF Handler, Admit, Reject, Scan, Break, Flush, WriteFails, Finish
<1>4. ClientLeft(c)' = ClientLeft(c)
  BY <1>3 DEF ClientLeft
<1>5. PageRows(ticket[c], total[c])' = PageRows(ticket[c], total[c])
  BY <1>3
<1>6. CASE Scan(c)
  <2>1. /\ pc[c] = "scan" /\ pc'[c] \in {"scan", "flush"}
        /\ fetched'[c] = fetched[c] + 1
    BY <1>6 DEF Scan, Inv, TypeOK
  <2> QED
    BY <1>2, <1>4, <1>5, <2>1 DEF ServerLeft, Unread
<1>7. CASE Admit(c)
  <2>1. pc[c] = "query" /\ pc'[c] = "scan" /\ fetched'[c] = fetched[c]
    BY <1>7 DEF Admit, Inv, TypeOK
  <2> QED
    BY <1>2, <1>4, <1>5, <2>1 DEF ServerLeft, Unread
<1>8. CASE Flush(c) \/ Finish(c)
  <2>1. /\ fetched'[c] = fetched[c]
        /\ \/ pc[c] = "flush" /\ pc'[c] = "scan"
           \/ pc[c] = "last" /\ pc'[c] = "ended"
           \/ pc[c] = "scan" /\ pc'[c] \in {"last", "ended"}
    BY <1>8 DEF Flush, Finish, Inv, TypeOK
  <2> QED
    BY <1>2, <1>4, <1>5, <2>1 DEF ServerLeft, Unread
<1>9. CASE Reject(c) \/ Break(c) \/ WriteFails(c)
  <2>1. pc'[c] = "ended"
    BY <1>9 DEF Reject, Break, WriteFails, Inv, TypeOK
  <2> QED
    BY <1>1, <1>2, <1>4, <2>1 DEF ServerLeft, Unread
<1> QED
  BY <1>6, <1>7, <1>8, <1>9 DEF Handler

(* What the client reads or gives up on is behind it.                      *)
LEMMA ClientRunsDown ==
  ASSUME Inv, NEW c \in Calls, Receive(c) \/ Depart(c) \/ Lose(c)
  PROVE  /\ ServerLeft(c)' = ServerLeft(c)
         /\ ClientLeft(c)' < ClientLeft(c)
<1>1. UNCHANGED <<pc, ticket, total, fetched>>
  BY DEF Receive, Depart, Lose
<1>2. ServerLeft(c)' = ServerLeft(c)
  BY <1>1 DEF ServerLeft, Unread
<1>3. /\ got[c] \in Nat /\ written[c] \in Nat /\ BatchRows \in Nat \ {0}
      /\ MaxRows \in Nat /\ got[c] <= MaxRows
  BY Numbers, FlightAssumption DEF Inv, TypeOK
<1>4. trailer[c] # None => trailer[c] \in Statuses
  BY DEF Inv, TypeOK, Statuses
<1>5. CASE status[c] = None /\ status'[c] # None /\ UNCHANGED <<schema, got>>
  BY <1>2, <1>3, <1>5 DEF ClientLeft
<1>6. CASE /\ schema[c] = None /\ schema'[c] # None
           /\ UNCHANGED <<got, status>>
  BY <1>2, <1>3, <1>6 DEF ClientLeft
<1>7. CASE /\ got'[c] \in Nat /\ got[c] < got'[c]
           /\ UNCHANGED <<schema, status>>
  BY <1>2, <1>3, <1>7 DEF ClientLeft
<1>8. CASE Depart(c) \/ Lose(c)
  BY <1>5, <1>8, NoStatusIsNone DEF Depart, Lose, Inv, TypeOK, Statuses
<1>9. CASE Receive(c)
  <2>1. wrote[c] => PlannedColumns(ticket[c]) # None
    BY SchemaType DEF Inv, Rows, RowsOf, Schemas, SchemasOf
  <2>2. CASE wrote[c] /\ schema[c] = None /\ UNCHANGED <<got, status>>
             /\ schema' = [schema EXCEPT ![c] = PlannedColumns(ticket[c])]
    BY <1>6, <2>1, <2>2 DEF Inv, TypeOK
  <2>3. CASE got[c] < written[c] /\ UNCHANGED <<schema, status>>
             /\ got' = [got EXCEPT ![c] = IF @ + BatchRows < written[c]
                                          THEN @ + BatchRows ELSE written[c]]
    BY <1>3, <1>7, <2>3 DEF Inv, TypeOK
  <2>4. CASE trailer[c] # None /\ UNCHANGED <<schema, got>>
             /\ status[c] = None /\ status' = [status EXCEPT ![c] = trailer[c]]
    BY <1>5, <2>4 DEF Inv, TypeOK
  <2> QED
    BY <1>9, <2>2, <2>3, <2>4 DEF Receive
<1> QED
  BY <1>8, <1>9

(* A call has no part in the steps of other calls and of the process.      *)
LEMMA OthersLeaveAlone ==
  ASSUME TypeOK, NEW c \in Calls, NEW d \in Calls \ {c},
         \/ \E t \in Tickets : Info(d, t) \/ DoGet(d, t)
         \/ Handler(d) \/ Receive(d) \/ Depart(d) \/ Lose(d)
  PROVE  UNCHANGED CallState(c)
<1>1. CASE \E t \in Tickets : Info(d, t) \/ DoGet(d, t)
  BY <1>1 DEF TypeOK, Info, DoGet, CallState
<1>2. CASE Handler(d)
  BY <1>2 DEF TypeOK, Handler, Admit, Reject, Scan, Break, Flush, WriteFails,
              Finish, CallState
<1>3. CASE Receive(d) \/ Depart(d) \/ Lose(d)
  BY <1>3 DEF TypeOK, Receive, Depart, Lose, CallState
<1> QED
  BY <1>1, <1>2, <1>3

(* Every step takes a call that has begun nearer its end, or passes it by. *)
THEOREM EveryCallRunsDown == Spec => CallsRunDown
<1>1. ASSUME Inv, LeftIsNat, LeftIsNat', [Next]_vars, NEW c \in Calls, Begun(c)
      PROVE  \/ Left(c)' \in Nat /\ Left(c)' < Left(c)
             \/ UNCHANGED CallState(c)
  <2>1. ServerLeft(c) \in Nat /\ ClientLeft(c) \in Nat
    BY <1>1 DEF LeftIsNat
  <2>2. CASE UNCHANGED vars
    BY <2>2 DEF vars, CallState
  <2>3. CASE Interrupt \/ Close \/ Exit
    BY <2>3 DEF Interrupt, Close, Exit, CallState
  <2>4. ASSUME NEW d \in Calls \ {c},
               \/ \E t \in Tickets : Info(d, t) \/ DoGet(d, t)
               \/ Handler(d) \/ Receive(d) \/ Depart(d) \/ Lose(d)
        PROVE  UNCHANGED CallState(c)
    BY <1>1, <2>4, OthersLeaveAlone DEF Inv
  <2>5. ~ \E t \in Tickets : Info(c, t) \/ DoGet(c, t)
    BY <1>1 DEF Begun, Info, DoGet
  <2>6. CASE Handler(c) \/ Receive(c) \/ Depart(c) \/ Lose(c)
    <3>1. Begun(c)'
      BY <1>1, <2>6
      DEF Begun, Inv, TypeOK, Handler, Admit, Reject, Scan, Break, Flush,
          WriteFails, Finish, Receive, Depart, Lose
    <3>2. ServerLeft(c)' \in Nat /\ ClientLeft(c)' \in Nat
      BY <1>1, <3>1 DEF LeftIsNat
    <3>3. \/ ServerLeft(c)' < ServerLeft(c) /\ ClientLeft(c)' = ClientLeft(c)
          \/ ServerLeft(c)' = ServerLeft(c) /\ ClientLeft(c)' < ClientLeft(c)
      BY <1>1, <2>6, HandlerRunsDown, ClientRunsDown
    <3> QED
      BY <2>1, <3>2, <3>3 DEF Left
  <2> QED
    BY <1>1, <2>2, <2>3, <2>4, <2>5, <2>6 DEF Next
<1>2. Inv /\ LeftIsNat /\ LeftIsNat' /\ [Next]_vars =>
        \A c \in Calls :
          Begun(c) => \/ Left(c)' \in Nat /\ Left(c)' < Left(c)
                      \/ UNCHANGED CallState(c)
  BY <1>1
<1> QED
  BY <1>2, LeftType, Invariance, PTL DEF Spec, CallsRunDown

(* And until it is over there is such a step that one side can take. *)
THEOREM NoCallIsStuck == Spec => []NeverStuck
<1>1. ASSUME Inv, NEW c \in Calls, Begun(c),
             ~(status[c] # None /\ (pc[c] = "ended" \/ life = "gone"))
      PROVE  CanWork(c) \/ CanRead(c)
  <2>1. pc[c] \in {"query", "scan", "flush", "last", "ended"}
    BY <1>1 DEF Inv, TypeOK, Begun
  <2>2. /\ got[c] \in Nat /\ written[c] \in Nat /\ got[c] <= written[c]
        /\ Window \in Nat
        /\ ~wrote[c] => written[c] = 0
    BY <1>1, Numbers, FlightAssumption DEF Inv, Rows, RowsOf
  <2>3. CASE life = "gone"
    BY <1>1, <2>3 DEF CanRead
  <2>4. CASE life # "gone" /\ pc[c] = "ended"
    <3>1. trailer[c] # None /\ status[c] = None
      BY <1>1, <2>4 DEF Inv, Ends, EndsOf
    <3>2. got[c] < written[c] => wrote[c]
      BY <2>2
    <3> QED
      BY <2>2, <3>1, <3>2 DEF CanRead
  <2>5. CASE life # "gone" /\ pc[c] \in {"query", "scan"}
    BY <1>1, <2>5 DEF CanWork, Inv, Rows, RowsOf
  <2>6. CASE life # "gone" /\ pc[c] \in {"flush", "last"}
    <3>1. CASE got[c] = written[c]
      BY <2>2, <2>6, <3>1 DEF CanWork
    <3>2. CASE got[c] < written[c] /\ status[c] = None
      BY <2>2, <3>2 DEF CanRead
    <3>3. CASE status[c] # None
      BY <2>6, <3>3 DEF CanWork
    <3> QED
      BY <2>2, <3>1, <3>2, <3>3
  <2> QED
    BY <2>1, <2>3, <2>4, <2>5, <2>6
<1>2. Inv => NeverStuck
  BY <1>1 DEF NeverStuck
<1> QED
  BY <1>2, Invariance, PTL
================================================================================
