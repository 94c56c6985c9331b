-------------------------------- MODULE Pages --------------------------------
(***************************************************************************)
(* A client that walks the pages of a collection: itemsHandler of package  *)
(* ogc with package plan (PageParts, CanonicalQS) and filter.Sources.      *)
(*                                                                         *)
(* The pages of one walk may come from different replicas, each pinned to  *)
(* the snapshot it opened, and a replica that is restarted opens a later   *)
(* one.  No server remembers a walk: all of it is in the next link.        *)
(*                                                                         *)
(* A row is its id, in the order of ids, and its source_id; rows outside   *)
(* the collection or the bbox of the walk are left out of the snapshots,   *)
(* since every next link repeats both.                                     *)
(***************************************************************************)
EXTENDS Integers, FiniteSets

CONSTANTS
  Replicas,  \* the servers behind one Service
  Snapshots, \* published snapshots are 1..Snapshots
  Ids,       \* the ids features may have, as positive numbers
  Sources,   \* source ids
  Headers,   \* what X-Source-Ids may say, None when it is not sent
  MaxLimit,  \* 1000
  Width,     \* 2^32: plan.Pagination.Offset is a uint32
  Limits, Offsets, Asked, \* the parameters of the walks that are tried
  Datetimes, \* the datetime parameters that are tried, with None
  WithPlus,  \* those that hold a "+", as of a zone east of Greenwich
  Invalid,   \* a datetime that does not parse
  None       \* a parameter that is not there; a row that is not there

ASSUME PagesAssumption ==
  /\ Snapshots \in Nat \ {0} /\ Ids \subseteq Nat \ {0} /\ IsFiniteSet(Ids)
  /\ MaxLimit \in Nat /\ Width \in Nat \ {0}
  /\ Limits \subseteq Int /\ Offsets \subseteq Nat
  /\ \A s \in Headers \cup Asked : s = None \/ s \subseteq Sources
  /\ WithPlus \subseteq Datetimes /\ Invalid \notin WithPlus
  /\ None \notin Sources /\ \A S \in SUBSET Sources : S # None

VARIABLES
  rows,    \* per snapshot and id, the source of the row or None
  live,    \* the snapshot each replica is pinned to
  phase,   \* "idle", "walking", "done" (a page without next), "refused" (400)
  ask,     \* the request the client sends next
  page,    \* the rows of the last page, as records of id and source
  seen,    \* the ids of the pages before it
  skipped, \* the ids that the offset of the first page has skipped
  answered \* the snapshot and the effective sources of each page

vars == <<rows, live, phase, ask, page, seen, skipped, answered>>

(* filter.Sources: ?sources may narrow the header, never widen it. *)
Effective(requested, header) ==
  IF requested # None
  THEN IF header # None THEN requested \cap header ELSE requested
  ELSE IF header # None THEN header ELSE {}

(* Which requests itemsHandler refuses with 400. *)
Valid(q) == q.limit \in 1..MaxLimit /\ q.datetime # Invalid

(* filter.Predicate: the ids of a snapshot that the sources may see. *)
Match(s, sources) == {i \in Ids : rows[s][i] \in sources}

Below(S, i) == {j \in S : j < i}

(* ORDER BY id LIMIT n *)
Take(S, n) == {i \in S : Cardinality(Below(S, i)) < n}

From_Closed(S, q) ==
  IF q.cursor # 0 THEN {i \in S : i >= q.cursor}
  ELSE {i \in S : Cardinality(Below(S, i)) >= q.offset % Width}

(* The rows after the cursor, which takes precedence, or after the offset. *)
From(S, q) ==
  IF q.cursor # 0 THEN {i \in S : i > q.cursor}
  ELSE {i \in S : Cardinality(Below(S, i)) >= q.offset % Width}

Fetched_Exact(S, q) == Take(From(S, q), q.limit)

(* plan.PageParts: one row more than the page, to know whether to go on. *)
Fetched(S, q) == Take(From(S, q), q.limit + 1)

NextLink_KeepsSources(q, last, sources) ==
  [q EXCEPT !.cursor = last, !.offset = 0,
            !.datetime = IF @ \in WithPlus THEN Invalid ELSE @]

(***************************************************************************)
(* plan.CanonicalQS of the next page.  The sources are those that were     *)
(* effective; the cursor replaces the offset; and the datetime is put into *)
(* the link as it is, where a "+" reads as a space.                        *)
(***************************************************************************)
NextLink(q, last, sources) ==
  [q EXCEPT !.cursor = last, !.offset = 0, !.sources = sources,
            !.datetime = IF @ \in WithPlus THEN Invalid ELSE @]

-----------------------------------------------------------------------------
Init ==
  /\ rows \in [1..Snapshots -> [Ids -> Sources \cup {None}]]
  /\ live = [r \in Replicas |-> 1]
  /\ phase = "idle"
  /\ ask \in [limit : {1}, offset : {0}, cursor : {0}, sources : {None},
              datetime : {None}]
  /\ page = {} /\ seen = {} /\ skipped = {} /\ answered = {}

(* A replica is restarted on a later snapshot. *)
Roll(r) ==
  /\ live[r] < Snapshots
  /\ \E s \in (live[r] + 1)..Snapshots : live' = [live EXCEPT ![r] = s]
  /\ UNCHANGED <<rows, phase, ask, page, seen, skipped, answered>>

(* A client begins a walk.  Ids are positive: the cursor 0 is no cursor. *)
Start ==
  /\ phase # "walking"
  /\ phase' = "walking"
  /\ ask' \in [limit : Limits, offset : Offsets, cursor : {0},
               sources : Asked, datetime : Datetimes]
  /\ page' = {} /\ seen' = {} /\ skipped' = {} /\ answered' = {}
  /\ UNCHANGED <<rows, live>>

(* itemsHandler refuses the request. *)
Refuse ==
  /\ phase = "walking" /\ ~Valid(ask)
  /\ phase' = "refused"
  /\ UNCHANGED <<rows, live, ask, page, seen, skipped, answered>>

(***************************************************************************)
(* itemsHandler of replica r answers a request that came with a header,    *)
(* and the client takes the next link if there is one.                     *)
(***************************************************************************)
Answer(r, header) ==
  LET sources == Effective(ask.sources, header)
      S == Match(live[r], sources)
      fetched == Fetched(S, ask)
      hasNext == Cardinality(fetched) > ask.limit
      ids == Take(fetched, ask.limit)
  IN  /\ phase = "walking" /\ Valid(ask)
      /\ seen' = seen \cup {x.id : x \in page}
      /\ page' = {[id |-> i, source |-> rows[live[r]][i]] : i \in ids}
      /\ skipped' = IF ask.cursor = 0 THEN S \ From(S, ask) ELSE skipped
      /\ answered' = answered \cup {[snapshot |-> live[r], sources |-> sources]}
      /\ IF hasNext
         THEN /\ \E last \in ids : /\ \A i \in ids : i <= last
                                   /\ ask' = NextLink(ask, last, sources)
              /\ phase' = phase
         ELSE phase' = "done" /\ ask' = ask
      /\ UNCHANGED <<rows, live>>

Follow == Refuse \/ \E r \in Replicas, h \in Headers : Answer(r, h)

Next == Start \/ Follow \/ \E r \in Replicas : Roll(r)

(* A client that has begun a walk goes on until it is over. *)
Spec == Init /\ [][Next]_vars /\ WF_vars(Follow)

-----------------------------------------------------------------------------
(* Every variable has its type, and no link has a cursor and an offset.    *)
TypeOK ==
  /\ rows \in [1..Snapshots -> [Ids -> Sources \cup {None}]]
  /\ live \in [Replicas -> 1..Snapshots]
  /\ phase \in {"idle", "walking", "done", "refused"}
  /\ ask.limit \in Int /\ ask.offset \in Nat /\ ask.cursor \in Ids \cup {0}
  /\ ask.cursor # 0 => ask.offset = 0
  /\ ask.sources = None \/ ask.sources \subseteq Sources
  /\ page \subseteq [id : Ids, source : Sources]
  /\ seen \subseteq Ids /\ skipped \subseteq Ids
  /\ answered \subseteq [snapshot : 1..Snapshots, sources : SUBSET Sources]

Found == seen \cup {x.id : x \in page}

(***************************************************************************)
(* "Pages are ordered by feature ID" (README.md:156): across the pages of  *)
(* a walk, whichever replicas and snapshots they came from, ids ascend, so *)
(* none is returned twice.                                                 *)
(***************************************************************************)
PagesAscend == \A i \in seen, x \in page : i < x.id

(***************************************************************************)
(* A walk that is over has returned every feature that was there, and was  *)
(* visible, in every snapshot that answered it; features that come or go   *)
(* between two pages push no other feature across a page boundary.         *)
(***************************************************************************)
NoneMissed ==
  phase = "done" =>
    \A i \in Ids \ skipped :
      (\A a \in answered : i \in Match(a.snapshot, a.sources)) => i \in Found

(***************************************************************************)
(* A next link gives no more than the page it came with: no page has a row *)
(* of a source that an earlier page of the walk was not allowed to show,   *)
(* with whatever headers the links are followed.                           *)
(***************************************************************************)
NeverWidens == \A x \in page, a \in answered : x.source \in a.sources

(***************************************************************************)
(* Following next links ends, with a page that has none: a valid request   *)
(* never leads to a link that the handler refuses (README.md:155-157:      *)
(* "Pages ... include `self` and `next` links").                           *)
(***************************************************************************)
WalkEnds == phase = "walking" /\ Valid(ask) ~> phase = "done"
=============================================================================
