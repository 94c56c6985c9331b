--------------------------- MODULE ResponsesProofs --------------------------
(***************************************************************************)
(* Proofs about Responses, for any clients, headers, resources, replicas   *)
(* and snapshots.                                                          *)
(*                                                                         *)
(* The handlers need no invariant: what they answer is a function of the   *)
(* request and the snapshot.  The invariant is about the cache.  Whatever  *)
(* it keeps is Full for the headers it is kept under, because Vary names   *)
(* all that Handle reads; and the ETag of an answer is its coding and its  *)
(* bytes, so that a 304 can only stand for the answer it replaces.         *)
(***************************************************************************)
EXTENDS Responses, TLAPS

(* Answer a is what a client with headers h may be shown of a.at.          *)
Full(h, a) ==
  /\ a.status \notin {0, 304, 429, 500} =>
       /\ a.status = Handle(url, h, rows[a.at], {}).status
       /\ a.body = Handle(url, h, rows[a.at], {}).body
  /\ a.etag # None => a.status = 200 /\ a.etag = <<a.coding, a.body>>
  /\ a.coding = "gzip" => WantsGzip(h.encodings)

(* A 304 names the full answer of its snapshot in a coding that h accepts. *)
Names(h, a) ==
  LET own == Handle(url, h, rows[a.at], {})
  IN  /\ own.status = 200
      /\ a.etag # None
      /\ \/ a.etag = <<"identity", own.body>>
         \/ a.etag = <<"gzip", own.body>> /\ WantsGzip(h.encodings)

CacheOK == \A e \in store : Full(e.key, e.answer) /\ e.answer.status \in {200, 204}

AnswersOK ==
  \A c \in Clients :
    IF resp[c].status = 304
    THEN pc[c] = "answered" /\ Names(headers[c], resp[c])
    ELSE /\ Full(headers[c], resp[c])
         /\ resp[c].cached => resp[c].status \in {200, 204}

Inv == TypeOK /\ CacheOK /\ AnswersOK

-----------------------------------------------------------------------------
(* The handlers *)

(* Vary names every header that a handler reads. *)
LEMMA VaryIsComplete ==
  ASSUME NEW c \in Clients, NEW u, NEW R, NEW inm
  PROVE  /\ Handle(u, Key(c), R, inm) = Handle(u, headers[c], R, inm)
         /\ Key(c).encodings = headers[c].encodings
<1>1. /\ Key(c).accept = headers[c].accept
      /\ Key(c).encodings = headers[c].encodings
      /\ Key(c).sources = headers[c].sources
  BY DEF Key, Vary
<1>2. Refusal(u, Key(c)) = Refusal(u, headers[c])
  BY <1>1 DEF Refusal, Wrong
<1> QED
  BY <1>1, <1>2 DEF Handle

(* What is refused has no list of sources that fails to parse. *)
LEMMA BodyType ==
  ASSUME NEW u \in Urls, NEW h \in Headers, NEW R \in SUBSET Features,
         Refusal(u, h) = 0
  PROVE  Body(u, R, SourceIDs(u.sources, h.sources)) \in Bodies
<1>1. u.sources \in {None, Malformed} \cup SUBSET Sources
      /\ h.sources \in {None, Malformed} \cup SUBSET Sources
  BY ResponsesAssumption DEF ResponsesAssumption
<1>2. CASE u.kind = "collection"
  BY <1>2 DEF Body, Bodies
<1>3. CASE u.kind # "collection"
  <2>1. u.sources # Malformed /\ h.sources # Malformed
    BY <1>3 DEF Refusal, Wrong
  <2>2. SourceIDs(u.sources, h.sources) \in SUBSET Sources
    BY <1>1, <2>1 DEF SourceIDs
  <2> DEFINE S == SourceIDs(u.sources, h.sources)
  <2>3. Body(u, R, S).links \subseteq Sources /\ Body(u, R, S).features \subseteq Features
    BY <2>2 DEF Body
  <2> QED
    BY <2>3 DEF Body, Bodies
<1> QED
  BY <1>2, <1>3

(* A refusal is an error of the client. *)
LEMMA RefusalType ==
  ASSUME NEW u, NEW h
  PROVE  Refusal(u, h) \in {0, 400, 404, 406}
BY DEF Refusal

(***************************************************************************)
(* success: a full answer with the ETag of its bytes, or a 304 that names  *)
(* one of the two answers it could have sent.                              *)
(***************************************************************************)
Whole(a, body, gzip) ==
  /\ a.status = 200 /\ a.body = body /\ a.etag = <<a.coding, body>>
  /\ a.coding \in Codings
  /\ a.coding = "gzip" => gzip
  /\ a.cached = TRUE

Short(a, body, inm, gzip) ==
  /\ a.status = 304 /\ a.body = None /\ a.coding = "identity" /\ a.cached = TRUE
  /\ a.etag \in inm
  /\ a.etag = <<"identity", body>> \/ (a.etag = <<"gzip", body>> /\ gzip)

LEMMA SuccessAnswers ==
  ASSUME NEW body, NEW inm, NEW gzip \in BOOLEAN
  PROVE  \/ Whole(Success(body, inm, gzip), body, gzip)
         \/ Short(Success(body, inm, gzip), body, inm, gzip)
<1> DEFINE plain == <<"identity", body>>
           zipped == <<"gzip", body>>
<1>1. CASE plain \in inm
  <2>1. Success(body, inm, gzip) = NotModified(plain)
    BY <1>1 DEF Success, EtagMatches, WithBytes, Answered
  <2>2. Short(NotModified(plain), body, inm, gzip)
    BY <1>1 DEF Short, NotModified, Answered
  <2> QED
    BY <2>1, <2>2
<1>2. CASE plain \notin inm /\ ~gzip
  <2>1. Success(body, inm, gzip) = WithBytes(body, "identity")
    BY <1>2 DEF Success, EtagMatches, WithBytes, Answered
  <2>2. Whole(WithBytes(body, "identity"), body, gzip)
    BY DEF Whole, WithBytes, Answered, Codings
  <2> QED
    BY <2>1, <2>2
<1>3. CASE plain \notin inm /\ gzip /\ zipped \in inm
  <2>1. Success(body, inm, gzip) = NotModified(zipped)
    BY <1>3 DEF Success, EtagMatches, WithBytes, Answered
  <2>2. Short(NotModified(zipped), body, inm, gzip)
    BY <1>3 DEF Short, NotModified, Answered
  <2> QED
    BY <2>1, <2>2
<1>4. CASE plain \notin inm /\ gzip /\ zipped \notin inm
  <2>1. Success(body, inm, gzip) = WithBytes(body, "gzip")
    BY <1>4 DEF Success, EtagMatches, WithBytes, Answered
  <2>2. Whole(WithBytes(body, "gzip"), body, gzip)
    BY <1>4 DEF Whole, WithBytes, Answered, Codings
  <2> QED
    BY <2>1, <2>2
<1> QED
  BY <1>1, <1>2, <1>3, <1>4

(***************************************************************************)
(* The answer `a` of a handler to headers h, where `own` is what it sends  *)
(* without If-None-Match.                                                  *)
(***************************************************************************)
Typed(a) ==
  /\ a.status \in {200, 204, 304, 400, 404, 406}
  /\ a.body \in Bodies \cup {None} /\ a.coding \in Codings
  /\ a.etag \in Etags /\ a.cached \in BOOLEAN
  /\ a.status >= 400 => a.etag = None

Faithful(a, own, h) ==
  IF a.status = 304
  THEN /\ own.status = 200 /\ a.etag # None
       /\ \/ a.etag = <<"identity", own.body>>
          \/ a.etag = <<"gzip", own.body>> /\ WantsGzip(h.encodings)
  ELSE /\ a.status = own.status /\ a.body = own.body
       /\ a.etag # None => a.status = 200 /\ a.etag = <<a.coding, a.body>>
       /\ a.coding = "gzip" => WantsGzip(h.encodings)
       /\ a.cached => a.status \in {200, 204}

LEMMA HandleAnswers ==
  ASSUME NEW u \in Urls, NEW h \in Headers, NEW R \in SUBSET Features,
         NEW inm \in SUBSET (Etags \ {None})
  PROVE  /\ Typed(Handle(u, h, R, inm))
         /\ Faithful(Handle(u, h, R, inm), Handle(u, h, R, {}), h)
<1> DEFINE body == Body(u, R, SourceIDs(u.sources, h.sources))
           gzip == u.kind # "tile" /\ WantsGzip(h.encodings)
<1>1. None \in Etags /\ "identity" \in Codings
  BY DEF Etags, Codings
<1>2. CASE Refusal(u, h) # 0
  <2>1. \A i : Handle(u, h, R, i) = Fail(Refusal(u, h))
    BY <1>2 DEF Handle
  <2>2. Typed(Fail(Refusal(u, h)))
    BY <1>1, <1>2, RefusalType DEF Fail, Answered, Typed
  <2>3. Faithful(Fail(Refusal(u, h)), Fail(Refusal(u, h)), h)
    BY <1>2, RefusalType DEF Fail, Answered, Faithful
  <2> QED
    BY <2>1, <2>2, <2>3
<1>3. CASE Refusal(u, h) = 0 /\ u.kind = "collection"
  <2> DEFINE a == Answered(200, body, "identity", None, TRUE)
  <2>1. \A i : Handle(u, h, R, i) = a
    BY <1>3 DEF Handle
  <2>2. Typed(a)
    <3>1. body \in Bodies
      BY <1>3, BodyType
    <3> QED
      BY <1>1, <3>1 DEF Answered, Typed
  <2> HIDE DEF body
  <2>3. Faithful(a, a, h)
    BY DEF Answered, Faithful
  <2> HIDE DEF a
  <2> QED
    BY <2>1, <2>2, <2>3
<1>4. CASE Refusal(u, h) = 0 /\ u.kind = "item" /\ body.features = {}
  <2>1. \A i : Handle(u, h, R, i) = Fail(404)
    BY <1>4 DEF Handle
  <2>2. Typed(Fail(404)) /\ Faithful(Fail(404), Fail(404), h)
    BY <1>1 DEF Fail, Answered, Typed, Faithful
  <2> QED
    BY <2>1, <2>2
<1>5. CASE Refusal(u, h) = 0 /\ u.kind = "tile" /\ body.features = {}
  <2>1. \A i : Handle(u, h, R, i) = NoContent
    BY <1>5 DEF Handle
  <2>2. Typed(NoContent) /\ Faithful(NoContent, NoContent, h)
    BY <1>1 DEF NoContent, Answered, Typed, Faithful
  <2> QED
    BY <2>1, <2>2
<1>6. CASE /\ Refusal(u, h) = 0 /\ u.kind # "collection"
           /\ ~(u.kind = "item" /\ body.features = {})
           /\ ~(u.kind = "tile" /\ body.features = {})
  <2>1. \A i : Handle(u, h, R, i) = Success(body, i, gzip)
    BY <1>6 DEF Handle
  <2>2. body \in Bodies /\ gzip \in BOOLEAN /\ (gzip => WantsGzip(h.encodings))
    BY <1>6, BodyType
  <2> HIDE DEF body, gzip
  <2>3. Whole(Success(body, {}, gzip), body, gzip)
    <3>1. ~Short(Success(body, {}, gzip), body, {}, gzip)
      BY DEF Short
    <3> QED
      BY <2>2, <3>1, SuccessAnswers
  <2>4. CASE Whole(Success(body, inm, gzip), body, gzip)
    <3> DEFINE a == Success(body, inm, gzip)
               own == Success(body, {}, gzip)
    <3> HIDE DEF a, own
    <3>1. Whole(a, body, gzip) /\ Whole(own, body, gzip)
      BY <2>3, <2>4 DEF a, own
    <3>2. Typed(a)
      <4>1. a.status = 200 /\ a.body \in Bodies /\ a.coding \in Codings /\ a.etag \in Etags
        BY <2>2, <3>1 DEF Whole, Etags
      <4>2. a.cached \in BOOLEAN
        BY <3>1, Zenon DEF Whole
      <4> QED
        BY <4>1, <4>2 DEF Typed
    <3>3. Faithful(a, own, h)
      BY <2>2, <3>1 DEF Whole, Faithful
    <3>4. Handle(u, h, R, inm) = a /\ Handle(u, h, R, {}) = own
      BY <2>1 DEF a, own
    <3> QED
      BY <3>2, <3>3, <3>4
  <2>5. CASE Short(Success(body, inm, gzip), body, inm, gzip)
    <3> DEFINE a == Success(body, inm, gzip)
               own == Success(body, {}, gzip)
    <3> HIDE DEF a, own
    <3>1. Short(a, body, inm, gzip) /\ Whole(own, body, gzip)
      BY <2>3, <2>5 DEF a, own
    <3>2. Typed(a)
      <4>1. a.status = 304 /\ a.body = None /\ a.coding \in Codings /\ a.etag \in Etags
        BY <3>1 DEF Short, Codings
      <4>2. a.cached \in BOOLEAN
        BY <3>1, Zenon DEF Short
      <4> QED
        BY <4>1, <4>2 DEF Typed
    <3>3. Faithful(a, own, h)
      BY <2>2, <3>1 DEF Short, Whole, Faithful
    <3>4. Handle(u, h, R, inm) = a /\ Handle(u, h, R, {}) = own
      BY <2>1 DEF a, own
    <3> QED
      BY <3>2, <3>3, <3>4
  <2> QED
    BY <2>2, <2>4, <2>5, SuccessAnswers
<1> QED
  BY <1>2, <1>3, <1>4, <1>5, <1>6

-----------------------------------------------------------------------------
(* The invariant *)

(* An answer of replica r to client c, on its way. *)
LEMMA AnswerIsRight ==
  ASSUME TypeOK, NEW r \in Replicas, NEW c \in Clients
  PROVE  LET a == At(Handle(url, headers[c], rows[live[r]], sent[c]), live[r])
         IN  /\ a \in Answers /\ (a.status >= 400 => a.etag = None)
             /\ a.status = 304 => Names(headers[c], a)
             /\ a.status # 304 => Full(headers[c], a)
             /\ a.status # 304 /\ a.cached => a.status \in {200, 204}
<1> DEFINE h == headers[c]
           R == rows[live[r]]
           w == Handle(url, h, R, sent[c])
           a == At(w, live[r])
<1>1. url \in Urls /\ h \in Headers /\ sent[c] \in SUBSET (Etags \ {None})
      /\ live[r] \in 1..Snapshots
  BY DEF TypeOK
<1>2. R \in SUBSET Features
  BY <1>1, ResponsesAssumption DEF TypeOK, ResponsesAssumption
<1>3. Typed(w) /\ Faithful(w, Handle(url, h, R, {}), h)
  BY <1>1, <1>2, HandleAnswers
<1>4. /\ a.status = w.status /\ a.body = w.body /\ a.coding = w.coding
      /\ a.etag = w.etag /\ a.cached = w.cached /\ a.at = live[r]
  BY DEF At
<1>5. a \in Answers
  BY <1>1, <1>3 DEF At, Answers, Typed
<1> HIDE DEF w, a
<1>6. a.status >= 400 => a.etag = None
  BY <1>3, <1>4 DEF Typed
<1>7. a.status = 304 => Names(h, a)
  BY <1>3, <1>4 DEF Faithful, Names
<1>8. a.status # 304 => Full(h, a)
  BY <1>3, <1>4 DEF Faithful, Full
<1>9. a.status # 304 /\ a.cached => a.status \in {200, 204}
  BY <1>3, <1>4 DEF Faithful
<1> QED
  BY <1>5, <1>6, <1>7, <1>8, <1>9 DEF a, w

(* An answer of status 429 or 500, or no answer. *)
LEMMA FailIsRight ==
  ASSUME TypeOK, NEW h, NEW s \in 1..Snapshots, NEW status \in {0, 429, 500}
  PROVE  LET a == At(Fail(status), s)
         IN  a \in Answers /\ a.status = status /\ a.etag = None /\ Full(h, a) /\ ~a.cached
<1> DEFINE a == At(Fail(status), s)
<1>1. /\ a.status = status /\ a.etag = None /\ a.coding = "identity"
      /\ a.cached = FALSE /\ a.body = None /\ a.at = s
  BY DEF At, Fail, Answered
<1>2. a \in Answers
  BY DEF At, Fail, Answered, Answers, Codings, Etags
<1> HIDE DEF a
<1>3. Full(h, a)
  BY <1>1 DEF Full
<1>4. ~a.cached
  BY <1>1
<1> QED
  BY <1>1, <1>2, <1>3, <1>4 DEF a

(* Headers that Vary does not tell apart have the same full answers. *)
LEMMA FullByKey ==
  ASSUME NEW c \in Clients, NEW a
  PROVE  Full(Key(c), a) <=> Full(headers[c], a)
BY VaryIsComplete DEF Full

(* What is named by a 304 is the answer that the replica left out. *)
LEMMA NamedIsFull ==
  ASSUME NEW h, NEW k, NEW e, NEW a,
         Full(k, e), Names(h, a), e.etag = a.etag, NEW s, s = a.at
  PROVE  LET b == [e EXCEPT !.at = s]
         IN  e \in Answers /\ s \in 1..Snapshots =>
               b \in Answers /\ Full(h, b) /\ b.status = 200 /\ b.etag # None
<1> SUFFICES ASSUME e \in Answers, s \in 1..Snapshots
             PROVE  LET b == [e EXCEPT !.at = s]
                    IN  b \in Answers /\ Full(h, b) /\ b.status = 200 /\ b.etag # None
  OBVIOUS
<1> DEFINE b == [e EXCEPT !.at = s]
<1>1. /\ b.status = e.status /\ b.body = e.body /\ b.coding = e.coding
      /\ b.etag = e.etag /\ b.cached = e.cached /\ b.at = s
  BY DEF Answers
<1>2. b \in Answers
  BY DEF Answers
<1> HIDE DEF b
<1>3. e.etag # None /\ e.status = 200 /\ e.etag = <<e.coding, e.body>>
  BY DEF Full, Names
<1>4. /\ e.body = Handle(url, h, rows[s], {}).body
      /\ Handle(url, h, rows[s], {}).status = 200
      /\ e.coding = "gzip" => WantsGzip(h.encodings)
  BY <1>3 DEF Names
<1>5. Full(h, b)
  BY <1>1, <1>3, <1>4 DEF Full
<1> QED
  BY <1>1, <1>2, <1>3, <1>5 DEF b

(* The part of TypeOK that is about the cache. *)
StoreType ==
  store \subseteq [key : {[h \in Vary |-> x[h]] : x \in Headers},
                  answer : Answers, age : {0, 1}]

(* The cache stays as it should when it keeps a full answer for c. *)
LEMMA KeepIsRight ==
  ASSUME TypeOK, CacheOK, inputs' = inputs, NEW c \in Clients, NEW a \in Answers,
         Full(headers[c], a), a.status \in {200, 204}, Keep(c, a)
  PROVE  StoreType' /\ CacheOK'
<1> DEFINE n == [key |-> Key(c), answer |-> a, age |-> 0]
<1>1. store' \subseteq store \cup {n}
  BY DEF Keep
<1>2. Key(c) \in {[h \in Vary |-> x[h]] : x \in Headers}
  BY DEF Key, TypeOK
<1>3. StoreType'
  BY <1>1, <1>2 DEF StoreType, TypeOK
<1>4. Full(Key(c), a)
  BY FullByKey
<1>5. \A e \in store \cup {n} : Full(e.key, e.answer) /\ e.answer.status \in {200, 204}
  BY <1>4 DEF CacheOK
<1>6. \A e \in store' : Full(e.key, e.answer)' /\ e.answer.status \in {200, 204}
  BY <1>1, <1>5 DEF Full, inputs
<1> QED
  BY <1>3, <1>6 DEF CacheOK

(* What is said of one client's answer. *)
AnswerOK(c) ==
  /\ resp[c].status >= 400 => resp[c].etag = None
  /\ IF resp[c].status = 304
     THEN pc[c] = "answered" /\ Names(headers[c], resp[c])
     ELSE /\ Full(headers[c], resp[c])
          /\ resp[c].cached => resp[c].status \in {200, 204}

LEMMA InvByClient ==
  Inv <=> TypeOK /\ CacheOK /\ \A c \in Clients : AnswerOK(c)
BY DEF Inv, AnswersOK, AnswerOK, TypeOK

(* Client c may be at p with answer a. *)
Fits(c, p, a) ==
  /\ a \in Answers
  /\ a.status >= 400 => a.etag = None
  /\ a.status = 304 => p = "answered" /\ Names(headers[c], a)
  /\ a.status # 304 => Full(headers[c], a) /\ (a.cached => a.status \in {200, 204})

(* A step that gives client c a new place or answer that fits. *)
LEMMA OneClientMoves ==
  ASSUME Inv, inputs' = inputs, live' = live, StoreType', CacheOK',
         NEW c \in Clients,
         NEW p \in {"idle", "asked", "answered"}, pc' = [pc EXCEPT ![c] = p],
         NEW q \in SUBSET (Etags \ {None}), sent' = [sent EXCEPT ![c] = q],
         NEW a, resp' = [resp EXCEPT ![c] = a], Fits(c, p, a)
  PROVE  Inv'
<1>1. TypeOK /\ CacheOK /\ \A d \in Clients : AnswerOK(d)
  BY InvByClient
<1>2. \A d \in Clients : /\ pc'[d] = IF d = c THEN p ELSE pc[d]
                        /\ resp'[d] = IF d = c THEN a ELSE resp[d]
  BY <1>1 DEF TypeOK
<1>3. \A d \in Clients : AnswerOK(d)'
  <2> TAKE d \in Clients
  <2>1. CASE d = c
    BY <1>2, <2>1 DEF AnswerOK, Fits, Full, Names, inputs
  <2>2. CASE d # c
    BY <1>1, <1>2, <2>2 DEF AnswerOK, Full, Names, inputs
  <2> QED
    BY <2>1, <2>2
<1>4. \A d \in Clients : resp'[d].status >= 400 => resp'[d].etag = None
  BY <1>3 DEF AnswerOK
<1>5. TypeOK'
  BY <1>1, <1>4 DEF TypeOK, StoreType, Fits, inputs
<1>6. AnswersOK'
  BY <1>3 DEF AnswerOK, AnswersOK
<1> QED
  BY <1>5, <1>6 DEF Inv

LEMMA InitInv == Init => Inv
<1> SUFFICES ASSUME Init PROVE Inv
  OBVIOUS
<1>1. 1 \in 1..Snapshots /\ 0 \in {0, 429, 500}
  BY ResponsesAssumption DEF ResponsesAssumption
<1>2. TypeOK
  <2>1. NoAnswer \in Answers /\ NoAnswer.etag = None
    BY <1>1 DEF NoAnswer, At, Fail, Answered, Answers, Codings, Etags
  <2> QED
    BY <1>1, <2>1 DEF Init, TypeOK
<1>3. NoAnswer.status = 0 /\ NoAnswer.cached = FALSE
      /\ NoAnswer.etag = None /\ NoAnswer.coding = "identity"
  BY DEF NoAnswer, At, Fail, Answered
<1>4. \A h : Full(h, NoAnswer)
  BY <1>3 DEF Full
<1>5. CacheOK /\ AnswersOK
  BY <1>3, <1>4 DEF Init, CacheOK, AnswersOK
<1> QED
  BY <1>2, <1>5 DEF Inv

LEMMA NextInv == Inv /\ [Next]_vars => Inv'
<1> SUFFICES ASSUME Inv, [Next]_vars PROVE Inv'
  OBVIOUS
<1>0. TypeOK /\ CacheOK /\ \A c \in Clients : AnswerOK(c)
  BY InvByClient
<1>a. UNCHANGED <<inputs, store>> => StoreType' /\ CacheOK'
  BY <1>0 DEF TypeOK, StoreType, CacheOK, Full, inputs
<1>b. NoAnswer \in Answers /\ NoAnswer.status = 0 /\ NoAnswer.etag = None
      /\ ~NoAnswer.cached /\ \A h : Full(h, NoAnswer)
  <2>1. 1 \in 1..Snapshots
    BY ResponsesAssumption DEF ResponsesAssumption
  <2> QED
    BY <1>0, <2>1, FailIsRight DEF NoAnswer
<1>c. \A c \in Clients : Fits(c, "asked", NoAnswer)
  BY <1>b DEF Fits
<1>d. \A c \in Clients : sent[c] \in SUBSET (Etags \ {None}) /\ resp[c] \in Answers
                       /\ resp = [resp EXCEPT ![c] = resp[c]]
                       /\ sent = [sent EXCEPT ![c] = sent[c]]
                       /\ pc = [pc EXCEPT ![c] = pc[c]] /\ pc[c] \in {"idle", "asked", "answered"}
  BY <1>0 DEF TypeOK
<1>1. ASSUME NEW c \in Clients, Hit(c) PROVE Inv'
  <2>1. PICK e \in store : e.key = Key(c) /\ resp' = [resp EXCEPT ![c] = e.answer]
    BY <1>1 DEF Hit
  <2>2. Full(headers[c], e.answer) /\ e.answer.status \in {200, 204}
    BY <1>0, <2>1, FullByKey DEF CacheOK
  <2>3. e.answer \in Answers
    BY <1>0 DEF TypeOK
  <2>4. inputs' = inputs /\ live' = live /\ StoreType' /\ CacheOK' /\ pc' = pc /\ sent' = sent
    BY <1>1, <1>a DEF Hit
  <2>5. Fits(c, pc[c], e.answer)
    BY <2>2, <2>3 DEF Fits
  <2> DEFINE p == pc[c]
             q == sent[c]
             a == e.answer
  <2>6. pc' = [pc EXCEPT ![c] = p] /\ sent' = [sent EXCEPT ![c] = q]
        /\ p \in {"idle", "asked", "answered"} /\ q \in SUBSET (Etags \ {None})
    BY <1>d, <2>4
  <2>7. resp' = [resp EXCEPT ![c] = a] /\ Fits(c, p, a)
    BY <2>1, <2>5
  <2> HIDE DEF p, q, a
  <2> QED
    BY <2>4, <2>6, <2>7, OneClientMoves
<1>2. ASSUME NEW c \in Clients, Ask(c) PROVE Inv'
  <2> DEFINE q == {e.answer.etag : e \in store} \ {None}
  <2>1. q \in SUBSET (Etags \ {None})
    BY <1>0 DEF TypeOK, Answers
  <2>2. /\ inputs' = inputs /\ live' = live /\ StoreType' /\ CacheOK'
        /\ pc' = [pc EXCEPT ![c] = "asked"] /\ sent' = [sent EXCEPT ![c] = q]
        /\ resp' = [resp EXCEPT ![c] = NoAnswer]
    BY <1>2, <1>a DEF Ask
  <2> HIDE DEF q
  <2> QED
    BY <1>c, <2>1, <2>2, OneClientMoves
<1>3. ASSUME NEW r \in Replicas, NEW c \in Clients, Answer(r, c) PROVE Inv'
  <2>1. /\ inputs' = inputs /\ live' = live /\ StoreType' /\ CacheOK'
        /\ pc' = [pc EXCEPT ![c] = "answered"] /\ sent' = [sent EXCEPT ![c] = {}]
    BY <1>3, <1>a DEF Answer
  <2>2. live[r] \in 1..Snapshots /\ {} \in SUBSET (Etags \ {None})
    BY <1>0 DEF TypeOK
  <2> DEFINE a == At(Handle(url, headers[c], rows[live[r]], sent[c]), live[r])
  <2>3. CASE resp' = [resp EXCEPT ![c] = a]
    <3>1. /\ a \in Answers /\ (a.status >= 400 => a.etag = None)
          /\ a.status = 304 => Names(headers[c], a)
          /\ a.status # 304 => Full(headers[c], a)
          /\ a.status # 304 /\ a.cached => a.status \in {200, 204}
      BY <1>0, AnswerIsRight
    <3> HIDE DEF a
    <3>2. Fits(c, "answered", a)
      BY <3>1 DEF Fits
    <3> QED
      BY <2>1, <2>2, <2>3, <3>2, OneClientMoves
  <2>4. ASSUME NEW status \in {429, 500},
               resp' = [resp EXCEPT ![c] = At(Fail(status), live[r])]
        PROVE  Inv'
    <3> DEFINE b == At(Fail(status), live[r])
    <3>1. b \in Answers /\ b.status = status /\ b.etag = None
          /\ Full(headers[c], b) /\ ~b.cached
      BY <1>0, <2>2, FailIsRight
    <3>2. resp' = [resp EXCEPT ![c] = b]
      BY <2>4
    <3> HIDE DEF b
    <3>3. Fits(c, "answered", b)
      BY <3>1 DEF Fits
    <3> QED
      BY <2>1, <2>2, <3>2, <3>3, OneClientMoves
  <2> QED
    BY <1>3, <2>3, <2>4 DEF Answer
<1>4. ASSUME NEW c \in Clients, Receive(c) PROVE Inv'
  <2>1. inputs' = inputs /\ live' = live /\ sent' = sent /\ resp' = resp
        /\ resp[c].status # 304 /\ pc' = [pc EXCEPT ![c] = "idle"]
    BY <1>4 DEF Receive
  <2>2. AnswerOK(c) /\ Full(headers[c], resp[c])
    BY <1>0, <2>1 DEF AnswerOK
  <2>3. StoreType' /\ CacheOK'
    <3>1. CASE resp[c].cached
      <4>1. Keep(c, resp[c])
        BY <1>4, <3>1 DEF Receive
      <4> QED
        BY <1>0, <1>d, <2>1, <2>2, <3>1, <4>1, KeepIsRight DEF AnswerOK
    <3>2. CASE ~resp[c].cached
      BY <1>4, <1>a, <2>1, <3>2 DEF Receive
    <3> QED
      BY <3>1, <3>2
  <2>4. Fits(c, "idle", resp[c])
    BY <1>d, <2>1, <2>2 DEF Fits, AnswerOK
  <2>5. sent' = [sent EXCEPT ![c] = sent[c]] /\ resp' = [resp EXCEPT ![c] = resp[c]]
    BY <1>d, <2>1
  <2> QED
    BY <1>d, <2>1, <2>3, <2>4, <2>5, OneClientMoves
<1>5. ASSUME NEW c \in Clients, Revalidate(c) PROVE Inv'
  <2> DEFINE s == resp[c].at
  <2>1. PICK e \in store :
          /\ e.answer.etag = resp[c].etag
          /\ resp' = [resp EXCEPT ![c] = [e.answer EXCEPT !.at = s]]
          /\ Keep(c, [e.answer EXCEPT !.at = s])
    BY <1>5 DEF Revalidate
  <2>2. inputs' = inputs /\ live' = live /\ sent' = sent
        /\ resp[c].status = 304 /\ pc' = [pc EXCEPT ![c] = "idle"]
    BY <1>5 DEF Revalidate
  <2>3. Names(headers[c], resp[c]) /\ Full(e.key, e.answer)
    BY <1>0, <2>2 DEF AnswerOK, CacheOK
  <2>4. e.answer \in Answers /\ s \in 1..Snapshots
    BY <1>0, <1>d DEF TypeOK, Answers
  <2> DEFINE b == [e.answer EXCEPT !.at = s]
  <2>5. b \in Answers /\ Full(headers[c], b) /\ b.status = 200
    BY <2>1, <2>3, <2>4, NamedIsFull
  <2>6. resp' = [resp EXCEPT ![c] = b] /\ Keep(c, b)
    BY <2>1
  <2> HIDE DEF b
  <2>7. StoreType' /\ CacheOK'
    BY <1>0, <2>2, <2>5, <2>6, KeepIsRight
  <2>8. Fits(c, "idle", b)
    BY <2>5 DEF Fits
  <2>9. sent' = [sent EXCEPT ![c] = sent[c]]
    BY <1>d, <2>2
  <2> QED
    BY <1>d, <2>2, <2>6, <2>7, <2>8, <2>9, OneClientMoves
<1>6. ASSUME NEW c \in Clients, AskAgain(c) PROVE Inv'
  <2>1. /\ inputs' = inputs /\ live' = live /\ StoreType' /\ CacheOK'
        /\ pc' = [pc EXCEPT ![c] = "asked"] /\ sent' = [sent EXCEPT ![c] = {}]
        /\ resp' = [resp EXCEPT ![c] = NoAnswer]
    BY <1>6, <1>a DEF AskAgain
  <2>2. {} \in SUBSET (Etags \ {None})
    OBVIOUS
  <2> QED
    BY <1>c, <2>1, <2>2, OneClientMoves
<1>7. CASE Evict \/ Tick
  <2>1. UNCHANGED <<inputs, live, pc, sent, resp>>
    BY <1>7 DEF Evict, Tick
  <2>2. \A n \in store' : \E e \in store : /\ n.key = e.key /\ n.answer = e.answer
                                        /\ n \in [key : {[h \in Vary |-> x[h]] : x \in Headers},
                                                  answer : Answers, age : {0, 1}]
    <3>1. CASE Evict
      BY <1>0, <3>1 DEF Evict, TypeOK
    <3>2. CASE Tick
      BY <1>0, <3>2 DEF Tick, TypeOK
    <3> QED
      BY <1>7, <3>1, <3>2
  <2>3. CacheOK'
    BY <1>0, <2>1, <2>2 DEF CacheOK, Full, inputs
  <2>4. TypeOK'
    BY <1>0, <2>1, <2>2 DEF TypeOK, inputs
  <2>5. AnswersOK'
    BY <2>1 DEF Inv, AnswersOK, Full, Names, inputs
  <2> QED
    BY <2>3, <2>4, <2>5 DEF Inv
<1>8. ASSUME NEW r \in Replicas, Roll(r) PROVE Inv'
  <2>1. UNCHANGED <<inputs, store, pc, sent, resp>>
    BY <1>8 DEF Roll
  <2>2. live' \in [Replicas -> 1..Snapshots]
    BY <1>0, <1>8, ResponsesAssumption DEF Roll, TypeOK, ResponsesAssumption
  <2>3. TypeOK' /\ CacheOK' /\ AnswersOK'
    BY <2>1, <2>2 DEF Inv, TypeOK, CacheOK, AnswersOK, Full, Names, inputs
  <2> QED
    BY <2>3 DEF Inv
<1>9. CASE UNCHANGED vars
  BY <1>9 DEF Inv, TypeOK, CacheOK, AnswersOK, Full, Names, inputs, vars
<1> QED
  BY <1>1, <1>2, <1>3, <1>4, <1>5, <1>6, <1>7, <1>8, <1>9 DEF Next, Served, Got

LEMMA Invariance == Spec => []Inv
BY InitInv, NextInv, PTL DEF Spec

-----------------------------------------------------------------------------
(* Every variable keeps its type, and an error has no ETag. *)
THEOREM TypeCorrect == Spec => []TypeOK
<1>1. Inv => TypeOK
  BY DEF Inv
<1> QED
  BY <1>1, Invariance, PTL

(***************************************************************************)
(* Whatever the cache has been asked for by whomever, a client shows what  *)
(* a replica of the snapshot it was answered from would send to it.        *)
(***************************************************************************)
THEOREM OwnAnswers == Spec => []AnswersAreOwn
<1>1. Inv => AnswersAreOwn
  BY DEF Inv, AnswersOK, AnswersAreOwn, Own, Shows, Full
<1> QED
  BY <1>1, Invariance, PTL

(* A coding is only shown to who asked for it, revalidated or not. *)
THEOREM ReadableAnswers == Spec => []AnswersAreReadable
<1>1. Inv => AnswersAreReadable
  BY DEF Inv, AnswersOK, AnswersAreReadable, Shows, Full
<1> QED
  BY <1>1, Invariance, PTL

(***************************************************************************)
(* A client that comes to show an error had just asked for the resource:   *)
(* no cache repeats an error.                                              *)
(***************************************************************************)
THEOREM LiveErrors == Spec => ErrorsAreLive
<1> DEFINE A == \A c \in Clients :
                  resp'[c] # resp[c] /\ resp'[c].status >= 400 => pc[c] = "asked"
<1>1. Inv /\ [Next]_vars => [A]_vars
  <2> SUFFICES ASSUME Inv, Next, NEW c \in Clients,
                      resp'[c] # resp[c], resp'[c].status >= 400
               PROVE  pc[c] = "asked"
    BY DEF vars
  <2>1. ASSUME NEW d \in Clients, Hit(d) PROVE FALSE
    <3>1. PICK e \in store : resp' = [resp EXCEPT ![d] = e.answer]
      BY <2>1 DEF Hit
    <3>2. e.answer.status \in {200, 204}
      BY DEF Inv, CacheOK
    <3>3. resp'[c] = e.answer
      BY <3>1 DEF Inv, TypeOK
    <3> QED
      BY <3>2, <3>3
  <2>2. ASSUME NEW d \in Clients, Ask(d) \/ AskAgain(d) PROVE FALSE
    <3>1. resp' = [resp EXCEPT ![d] = NoAnswer]
      BY <2>2 DEF Ask, AskAgain
    <3>2. resp'[c] = NoAnswer
      BY <3>1 DEF Inv, TypeOK
    <3> QED
      BY <3>2 DEF NoAnswer, At, Fail, Answered
  <2>3. ASSUME NEW r \in Replicas, NEW d \in Clients, Answer(r, d) PROVE pc[c] = "asked"
    BY <2>3 DEF Answer, Inv, TypeOK
  <2>4. ASSUME NEW d \in Clients, Receive(d) PROVE FALSE
    BY <2>4 DEF Receive
  <2>5. ASSUME NEW d \in Clients, Revalidate(d) PROVE FALSE
    <3>1. PICK e \in store : resp' = [resp EXCEPT ![d] = [e.answer EXCEPT !.at = resp[d].at]]
      BY <2>5 DEF Revalidate
    <3>2. e.answer.status \in {200, 204} /\ e.answer \in Answers
      BY DEF Inv, CacheOK, TypeOK
    <3>3. resp'[c] = [e.answer EXCEPT !.at = resp[d].at]
      BY <3>1 DEF Inv, TypeOK
    <3>4. resp'[c].status = e.answer.status
      BY <3>2, <3>3 DEF Answers
    <3> QED
      BY <3>2, <3>4
  <2>6. Evict \/ Tick \/ (\E r \in Replicas : Roll(r)) => FALSE
    BY DEF Evict, Tick, Roll
  <2> QED
    BY <2>1, <2>2, <2>3, <2>4, <2>5, <2>6 DEF Next, Served, Got
<1> QED
  BY <1>1, Invariance, PTL DEF Spec, ErrorsAreLive
=============================================================================
