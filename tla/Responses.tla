----------------------------- MODULE Responses ------------------------------
(***************************************************************************)
(* What clients see of package ogc through a cache: statuses, negotiation, *)
(* ETags and conditional requests, while replicas move on to later         *)
(* snapshots.                                                              *)
(*                                                                         *)
(* Every handler answers from its request and its snapshot alone.  What    *)
(* ties answers together is the cache (a browser's, or a proxy's that      *)
(* serves many clients): it keeps an answer for max-age under the headers  *)
(* that Vary names, and revalidates what it keeps with If-None-Match.  The *)
(* cache is external and does what RFC 9111 says.                          *)
(*                                                                         *)
(* One resource is enough, because a cache never relates two URLs.  There  *)
(* is one feature per source; bytes are told apart by what they were made  *)
(* from.                                                                   *)
(***************************************************************************)
EXTENDS Integers, Sequences

CONSTANTS
  Clients,   \* who asks through the cache
  Replicas,  \* the servers behind one Service
  Snapshots, \* published snapshots are 1..Snapshots
  Sources,   \* source ids
  Features,  \* features, as records of their source and content
  Datasets,  \* what the snapshots may hold: a set of features for each
  Urls,      \* the resources that are tried
  Headers,   \* the request headers that are tried
  None,      \* a header or parameter that is not there; no ETag; no body
  Malformed  \* a list of sources that does not parse

ASSUME ResponsesAssumption ==
  /\ Snapshots \in Nat \ {0}
  /\ Datasets \subseteq [1..Snapshots -> SUBSET Features]
  /\ \A x \in Urls \cup Headers :
       x.sources \in {None, Malformed} \cup SUBSET Sources

VARIABLES
  url,     \* the resource
  headers, \* per client, the headers of its requests
  rows,    \* per snapshot, its features
  live,    \* the snapshot each replica is pinned to
  store,   \* the answers in the cache
  pc,      \* per client: "idle", "asked", "answered"
  sent,    \* If-None-Match of its request, as a set of ETags
  resp     \* the answer on its way, or the one it shows when idle

inputs == <<url, headers, rows>>
vars == <<inputs, live, store, pc, sent, resp>>

-----------------------------------------------------------------------------
(* The request *)

(* An Accept header is the sequence of its ranges that fit GeoJSON, each   *)
(* with how specific it is and its q in hundredths, malformed ones as 0.   *)
MostSpecific(accept, i) ==
  \A j \in 1..Len(accept) :
    /\ accept[j].specific <= accept[i].specific
    /\ j < i => accept[j].specific < accept[i].specific

GeojsonType(accept) ==
  \/ accept = None
  \/ \E i \in 1..Len(accept) : MostSpecific(accept, i) /\ accept[i].q \in 1..100

(* Accept-Encoding is the set of the qs that it gives gzip. *)
WantsGzip(encodings) == \E q \in encodings : q > 0

(* ?sources may narrow X-Source-Ids, never widen it. *)
SourceIDs(requested, header) ==
  IF requested # None
  THEN IF header # None THEN requested \cap header ELSE requested
  ELSE IF header # None THEN header ELSE {}

ValidTile(z, x, y) == z \in 0..30 /\ x \in 0..(2^z - 1) /\ y \in 0..(2^z - 1)

(* A parameter that is unknown, or does not parse, or is out of range. *)
Wrong(u, h) ==
  \/ ~u.wellFormed
  \/ u.kind = "tile" /\ ~ValidTile(u.z, u.x, u.y)
  \/ u.sources = Malformed \/ h.sources = Malformed

(* The status that is answered before any query, or 0. *)
Refusal(u, h) ==
  IF u.collection = "invalid" THEN 400
  ELSE IF u.collection = "unknown" THEN 404
  ELSE IF u.kind = "collection" THEN 0
  ELSE IF u.kind # "tile" /\ ~GeojsonType(h.accept) THEN 406
  ELSE IF Wrong(u, h) THEN 400
  ELSE IF u.kind = "item" /\ SourceIDs(u.sources, h.sources) = {} THEN 404
  ELSE 0

-----------------------------------------------------------------------------
(* The answer *)

(* Links of a page and of a feature name the sources that were effective. *)
Body(u, R, S) ==
  [links |-> IF u.kind \in {"items", "item"} THEN S ELSE {},
   features |-> IF u.kind = "collection" THEN {}
                ELSE {f \in R : /\ f.source \in S
                                /\ u.kind = "item" => f.source = u.feature}]

Answered(status, body, coding, etag, cached) ==
  [status |-> status, body |-> body, coding |-> coding, etag |-> etag,
   cached |-> cached]

Fail_Cached(status) == Answered(status, None, "identity", None, TRUE)

(* Errors are no-store and have no ETag. *)
Fail(status) == Answered(status, None, "identity", None, FALSE)

NoContent == Answered(204, None, "identity", None, TRUE)

WithBytes_IgnoresCoding(body, coding) ==
  Answered(200, body, coding, <<"identity", body>>, TRUE)

(* The ETag is a hash of the bytes and their length. *)
WithBytes(body, coding) == Answered(200, body, coding, <<coding, body>>, TRUE)

NotModified(etag) == Answered(304, None, "identity", etag, TRUE)

(* If-None-Match is a set of ETags; the cache does not send "*". *)
EtagMatches(inm, etag) == etag \in inm

(* success: the identity is tested first, then the coding that is sent. *)
Success(body, inm, gzip) ==
  LET plain == WithBytes(body, "identity")
      zipped == WithBytes(body, "gzip")
  IN  IF EtagMatches(inm, plain.etag) THEN NotModified(plain.etag)
      ELSE IF ~gzip THEN plain
      ELSE IF EtagMatches(inm, zipped.etag) THEN NotModified(zipped.etag)
      ELSE zipped

(***************************************************************************)
(* The handlers of a collection, its items, an item and a tile, at a       *)
(* snapshot with the features R, when the query does not fail.             *)
(***************************************************************************)
Handle(u, h, R, inm) ==
  LET body == Body(u, R, SourceIDs(u.sources, h.sources))
  IN  IF Refusal(u, h) # 0 THEN Fail(Refusal(u, h))
      ELSE IF u.kind = "collection" THEN Answered(200, body, "identity", None, TRUE)
      ELSE IF u.kind = "item" /\ body.features = {} THEN Fail(404)
      ELSE IF u.kind = "tile" /\ body.features = {} THEN NoContent
      ELSE Success(body, inm, u.kind # "tile" /\ WantsGzip(h.encodings))

(* An answer with the snapshot that it is from. *)
At(answer, s) ==
  [status |-> answer.status, body |-> answer.body, coding |-> answer.coding,
   etag |-> answer.etag, cached |-> answer.cached, at |-> s]

NoAnswer == At(Fail(0), 1)

Vary_NoSources == {"accept", "encodings"}

(* What an answer depends on, besides the URL. *)
Vary == {"accept", "encodings", "sources"}

-----------------------------------------------------------------------------
(* The cache *)

(* Cache-Control: public, max-age=60.  One tick takes that long. *)
MaxAge_Immutable == 2
MaxAge == 1

Key(c) == [h \in Vary |-> headers[c][h]]

Fresh(e) == e.age < MaxAge

(* What the cache keeps for client c, and what it drops for it. *)
Keep(c, r) ==
  store' = {e \in store : e.key # Key(c)} \cup {[key |-> Key(c), answer |-> r, age |-> 0]}

Init ==
  /\ url \in Urls /\ headers \in [Clients -> Headers] /\ rows \in Datasets
  /\ live = [r \in Replicas |-> 1]
  /\ store = {}
  /\ pc = [c \in Clients |-> "idle"]
  /\ sent = [c \in Clients |-> {}]
  /\ resp = [c \in Clients |-> NoAnswer]

(* A fresh answer in the cache does. *)
Hit(c) ==
  /\ pc[c] = "idle"
  /\ \E e \in store : /\ e.key = Key(c) /\ Fresh(e)
                      /\ resp' = [resp EXCEPT ![c] = e.answer]
  /\ UNCHANGED <<inputs, live, store, pc, sent>>

(* Otherwise the cache asks, naming whatever it has of this URL. *)
Ask(c) ==
  /\ pc[c] = "idle"
  /\ \A e \in store : e.key = Key(c) => ~Fresh(e)
  /\ pc' = [pc EXCEPT ![c] = "asked"]
  /\ sent' = [sent EXCEPT ![c] = {e.answer.etag : e \in store} \ {None}]
  /\ resp' = [resp EXCEPT ![c] = NoAnswer]
  /\ UNCHANGED <<inputs, live, store>>

(* A handler at replica r; 429 and 500 come from Store.Query. *)
Answer(r, c) ==
  /\ pc[c] = "asked"
  /\ \/ resp' = [resp EXCEPT ![c] =
                   At(Handle(url, headers[c], rows[live[r]], sent[c]), live[r])]
     \/ /\ Refusal(url, headers[c]) = 0 /\ url.kind # "collection"
        /\ \E status \in {429, 500} :
             resp' = [resp EXCEPT ![c] = At(Fail(status), live[r])]
  /\ pc' = [pc EXCEPT ![c] = "answered"]
  /\ sent' = [sent EXCEPT ![c] = {}]
  /\ UNCHANGED <<inputs, live, store>>

(* A full answer goes to the client, and to the cache unless no-store. *)
Receive(c) ==
  /\ pc[c] = "answered" /\ resp[c].status # 304
  /\ pc' = [pc EXCEPT ![c] = "idle"]
  /\ IF resp[c].cached THEN Keep(c, resp[c]) ELSE UNCHANGED store
  /\ UNCHANGED <<inputs, live, sent, resp>>

(* A 304 stands for the answer with its ETag. *)
Revalidate(c) ==
  /\ pc[c] = "answered" /\ resp[c].status = 304
  /\ \E e \in store :
       /\ e.answer.etag = resp[c].etag
       /\ resp' = [resp EXCEPT ![c] = [e.answer EXCEPT !.at = resp[c].at]]
       /\ Keep(c, [e.answer EXCEPT !.at = resp[c].at])
  /\ pc' = [pc EXCEPT ![c] = "idle"]
  /\ UNCHANGED <<inputs, live, sent>>

(* If that answer is no longer there, the cache asks again. *)
AskAgain(c) ==
  /\ pc[c] = "answered" /\ resp[c].status = 304
  /\ \A e \in store : e.answer.etag # resp[c].etag
  /\ pc' = [pc EXCEPT ![c] = "asked"]
  /\ sent' = [sent EXCEPT ![c] = {}]
  /\ resp' = [resp EXCEPT ![c] = NoAnswer]
  /\ UNCHANGED <<inputs, live, store>>

Evict ==
  /\ \E e \in store : store' = store \ {e}
  /\ UNCHANGED <<inputs, live, pc, sent, resp>>

Tick ==
  /\ \E e \in store : e.age < 1
  /\ store' = {[e EXCEPT !.age = 1] : e \in store}
  /\ UNCHANGED <<inputs, live, pc, sent, resp>>

(* A replica is restarted on a later snapshot. *)
Roll(r) ==
  /\ \E s \in (live[r] + 1)..Snapshots : live' = [live EXCEPT ![r] = s]
  /\ UNCHANGED <<inputs, store, pc, sent, resp>>

Served(c) == \E r \in Replicas : Answer(r, c)
Got(c) == Receive(c) \/ Revalidate(c) \/ AskAgain(c)

Next ==
  \/ \E c \in Clients : Hit(c) \/ Ask(c) \/ Served(c) \/ Got(c)
  \/ Evict \/ Tick
  \/ \E r \in Replicas : Roll(r)

Spec == Init /\ [][Next]_vars

(* Clients go on asking, requests are answered, and time passes. *)
FairSpec ==
  /\ Spec
  /\ \A c \in Clients :
       WF_vars(Hit(c) \/ Ask(c)) /\ WF_vars(Served(c)) /\ WF_vars(Got(c))
  /\ WF_vars(Tick)

-----------------------------------------------------------------------------
Bodies == [links : SUBSET Sources, features : SUBSET Features]
Codings == {"identity", "gzip"}
Etags == {None} \cup (Codings \X Bodies)
Answers ==
  [status : {0, 200, 204, 304, 400, 404, 406, 429, 500}, body : Bodies \cup {None},
   coding : Codings, etag : Etags, cached : BOOLEAN, at : 1..Snapshots]

(* The type of every variable; errors "carry no ETag" (README.md:226).     *)
TypeOK ==
  /\ url \in Urls /\ headers \in [Clients -> Headers] /\ rows \in Datasets
  /\ live \in [Replicas -> 1..Snapshots]
  /\ store \subseteq [key : {[h \in Vary |-> x[h]] : x \in Headers},
                     answer : Answers, age : {0, 1}]
  /\ pc \in [Clients -> {"idle", "asked", "answered"}]
  /\ sent \in [Clients -> SUBSET (Etags \ {None})]
  /\ resp \in [Clients -> Answers]
  /\ \A c \in Clients : resp[c].status >= 400 => resp[c].etag = None

(* What client c shows. *)
Shows(c) == pc[c] = "idle" /\ resp[c].status # 0

(* What a replica at snapshot s would answer client c in full. *)
Own(c, s) == Handle(url, headers[c], rows[s], {})

(***************************************************************************)
(* Whatever went through the cache for whomever, a client shows what the   *)
(* replica that answered or revalidated it last would send to this client  *)
(* itself, of that replica's snapshot: no features or links of another     *)
(* client's sources, and no 304 for bytes that have changed.               *)
(***************************************************************************)
AnswersAreOwn ==
  \A c \in Clients :
    Shows(c) /\ resp[c].status \notin {429, 500} =>
      /\ resp[c].status = Own(c, resp[c].at).status
      /\ resp[c].body = Own(c, resp[c].at).body

(***************************************************************************)
(* No client is shown a coding it did not ask for, although one client's   *)
(* answer may serve to revalidate another's.                               *)
(***************************************************************************)
AnswersAreReadable ==
  \A c \in Clients :
    Shows(c) /\ resp[c].coding = "gzip" => WantsGzip(headers[c].encodings)

(***************************************************************************)
(* "Error responses are always no-store" (README.md:226): a client that    *)
(* shows an error had it from a replica, and shows none a moment later     *)
(* because a cache has kept it.                                            *)
(***************************************************************************)
ErrorsAreLive ==
  [][\A c \in Clients :
       resp'[c] # resp[c] /\ resp'[c].status >= 400
       => pc[c] = "asked"]_vars

(***************************************************************************)
(* Answers catch up with the replicas: when no more of them roll, every    *)
(* client comes to show only what one of them serves.                      *)
(***************************************************************************)
AnswersCatchUp ==
  <>[](\A c \in Clients :
         Shows(c) /\ resp[c].status \in {200, 204} =>
           \E r \in Replicas : /\ resp[c].status = Own(c, live[r]).status
                               /\ resp[c].body = Own(c, live[r]).body)
=============================================================================
