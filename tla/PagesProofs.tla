----------------------------- MODULE PagesProofs -----------------------------
(***************************************************************************)
(* What a walk over the pages returns, for any snapshots, replicas, limits *)
(* and headers.  The argument rests on one invariant: the cursor is the    *)
(* end of the last page, all that is found lies at or below it, and what   *)
(* lies below it and was there all the time is found.                      *)
(***************************************************************************)
EXTENDS Pages, TLAPS, FiniteSetTheorems, NaturalsInduction, WellFoundedInduction

-----------------------------------------------------------------------------
(* The first n of a set of ids.                                            *)

(* A set of ids that is not empty has a least member. *)
LEMMA LeastId ==
  ASSUME NEW S \in SUBSET Ids, S # {}
  PROVE  \E i \in S : \A j \in S : i <= j
<1>1. IsWellFoundedOn(OpToRel(<, Nat), Nat)
  BY NatLessThanWellFounded
<1>2. S \subseteq Nat
  BY PagesAssumption
<1>3. PICK i \in S : \A j \in S : <<j, i>> \notin OpToRel(<, Nat)
  BY <1>1, <1>2, WFMin
<1>4. \A j \in S : ~(j < i)
  BY <1>2, <1>3 DEF OpToRel
<1> QED
  BY <1>2, <1>4

(* Sets of ids are finite, and so are the parts below a member. *)
LEMMA BelowIsFinite ==
  ASSUME NEW S \in SUBSET Ids, NEW i \in Ids
  PROVE  /\ IsFiniteSet(S) /\ Cardinality(S) \in Nat
         /\ IsFiniteSet(Below(S, i)) /\ Cardinality(Below(S, i)) \in Nat
<1>1. IsFiniteSet(S) /\ Below(S, i) \subseteq S
  BY PagesAssumption, FS_Subset DEF Below
<1>2. IsFiniteSet(Below(S, i))
  BY <1>1, FS_Subset
<1> QED
  BY <1>1, <1>2, FS_CardinalityType

(* LIMIT takes no row without those before it. *)
LEMMA TakeIsDownward ==
  ASSUME NEW S \in SUBSET Ids, NEW n \in Nat,
         NEW i \in S, NEW j \in Take(S, n), i <= j
  PROVE  i \in Take(S, n)
<1>1. j \in S /\ Cardinality(Below(S, j)) < n /\ i \in Ids /\ j \in Ids
  BY DEF Take
<1>2. Below(S, i) \subseteq Below(S, j)
  BY <1>1, PagesAssumption DEF Below
<1>3. Cardinality(Below(S, i)) <= Cardinality(Below(S, j))
  BY <1>1, <1>2, BelowIsFinite, FS_Subset
<1>4. Cardinality(Below(S, i)) \in Nat /\ Cardinality(Below(S, j)) \in Nat
  BY <1>1, BelowIsFinite
<1> QED
  BY <1>1, <1>3, <1>4 DEF Take

(* LIMIT n takes all of a set of n rows or fewer. *)
LEMMA TakeOfFew ==
  ASSUME NEW S \in SUBSET Ids, NEW n \in Nat, Cardinality(S) <= n
  PROVE  Take(S, n) = S
<1> SUFFICES ASSUME NEW i \in S PROVE Cardinality(Below(S, i)) < n
  BY DEF Take
<1>1. Below(S, i) \subseteq S /\ i \notin Below(S, i)
  BY PagesAssumption DEF Below
<1>2. Below(S, i) # S
  BY <1>1
<1>3. IsFiniteSet(S) /\ Cardinality(S) \in Nat /\ Cardinality(Below(S, i)) \in Nat
  BY BelowIsFinite
<1>4. Cardinality(Below(S, i)) < Cardinality(S)
  BY <1>1, <1>2, <1>3, FS_Subset
<1> QED
  BY <1>3, <1>4

(* When LIMIT n + 1 takes n rows or fewer, it has taken all. *)
LEMMA TakeOneMore ==
  ASSUME NEW S \in SUBSET Ids, NEW n \in Nat,
         Cardinality(Take(S, n + 1)) <= n
  PROVE  Take(S, n + 1) = S
<1> DEFINE T == Take(S, n + 1)
<1>1. T \subseteq S /\ T \in SUBSET Ids
  BY DEF Take
<1> SUFFICES ASSUME S \ T # {} PROVE FALSE
  BY <1>1
<1>2. PICK i \in S \ T : \A j \in S \ T : i <= j
  BY <1>1, LeastId
<1>3. Below(S, i) \subseteq T
  BY <1>1, <1>2, PagesAssumption DEF Below
<1>4. ~(Cardinality(Below(S, i)) < n + 1)
  BY <1>2 DEF Take
<1>5. /\ Cardinality(Below(S, i)) \in Nat /\ Cardinality(T) \in Nat
      /\ IsFiniteSet(T)
  BY <1>1, <1>2, BelowIsFinite
<1>6. Cardinality(Below(S, i)) <= Cardinality(T)
  BY <1>3, <1>5, FS_Subset
<1> HIDE DEF T
<1> QED
  BY <1>4, <1>5, <1>6 DEF T

-----------------------------------------------------------------------------
(* The invariant.                                                          *)

(* While a walk goes on, the next request continues after what is found.   *)
Continues ==
  phase = "walking" =>
    IF ask.cursor = 0
    THEN page = {} /\ seen = {} /\ answered = {} /\ skipped = {}
    ELSE /\ \A i \in Found : i <= ask.cursor
         /\ ask.sources # None
         /\ \A a \in answered : ask.sources \subseteq a.sources

(* What lies below the cursor and was always there is found. *)
NoneMissedYet ==
  phase = "walking" =>
    \A i \in Ids \ skipped :
      /\ i <= ask.cursor
      /\ \A a \in answered : i \in Match(a.snapshot, a.sources)
      => i \in Found

Inv == TypeOK /\ Continues /\ NoneMissedYet /\ PagesAscend /\ NoneMissed /\ NeverWidens

(* Effective sources are sources, and narrower than those of the link. *)
LEMMA EffectiveNarrows ==
  ASSUME NEW q, q = None \/ q \subseteq Sources, NEW h \in Headers
  PROVE  /\ Effective(q, h) \subseteq Sources
         /\ q # None => Effective(q, h) \subseteq q
BY PagesAssumption DEF Effective

(* An answer keeps the invariant. *)
LEMMA AnswerKeeps ==
  ASSUME Inv, NEW r \in Replicas, NEW h \in Headers, Answer(r, h)
  PROVE  Inv'
<1> DEFINE sources == Effective(ask.sources, h)
           S == Match(live[r], sources)
           F == From(S, ask)
           fetched == Fetched(S, ask)
           ids == Take(fetched, ask.limit)
           hasNext == Cardinality(fetched) > ask.limit
           answer == [snapshot |-> live[r], sources |-> sources]
<1>1. /\ phase = "walking" /\ Valid(ask)
      /\ seen' = seen \cup {x.id : x \in page}
      /\ page' = {[id |-> i, source |-> rows[live[r]][i]] : i \in ids}
      /\ skipped' = (IF ask.cursor = 0 THEN S \ F ELSE skipped)
      /\ answered' = answered \cup {answer}
      /\ rows' = rows /\ live' = live
  BY DEF Answer
<1>2. \/ /\ hasNext /\ phase' = "walking"
         /\ \E last \in ids : /\ \A i \in ids : i <= last
                              /\ ask' = NextLink(ask, last, sources)
      \/ ~hasNext /\ phase' = "done" /\ ask' = ask
  BY DEF Answer
<1>3. /\ TypeOK /\ Continues /\ NoneMissedYet /\ PagesAscend
      /\ NoneMissed /\ NeverWidens
  BY DEF Inv
<1>4. ask.limit \in Nat /\ ask.limit + 1 \in Nat /\ Ids \subseteq Nat \ {0}
  BY <1>1, PagesAssumption DEF Valid
<1>5. sources \subseteq Sources /\ (ask.sources # None => sources \subseteq ask.sources)
  BY <1>3, EffectiveNarrows DEF TypeOK
<1>6. /\ S \subseteq Ids /\ F \subseteq S /\ ids \subseteq fetched
      /\ fetched \subseteq F /\ fetched = Take(F, ask.limit + 1)
  BY DEF Match, From, Fetched, Take
<1>7. \A i \in S : rows[live[r]][i] \in sources
  BY DEF Match
<1>8. Found' = Found \cup ids
  <2> HIDE DEF ids
  <2>1. \A x \in page' : x.id \in ids
    BY <1>1
  <2>2. \A i \in ids : \E x \in page' : x.id = i
    <3> SUFFICES ASSUME NEW i \in ids PROVE \E x \in page' : x.id = i
      OBVIOUS
    <3>1. [id |-> i, source |-> rows[live[r]][i]] \in page'
      BY <1>1
    <3> QED
      BY <3>1
  <2>3. {x.id : x \in page'} = ids
    BY <2>1, <2>2
  <2> QED
    BY <1>1, <2>3 DEF Found
<1>9. \A a \in answered : sources \subseteq a.sources
  BY <1>1, <1>3, <1>5 DEF Continues
<1> HIDE DEF sources, S, F, fetched, ids, hasNext
(* No id is jumped over: what is after the cursor and not after the page's *)
(* last id is on the page.                                                 *)
<1>10. ASSUME NEW i \in F, NEW j \in ids, i <= j
       PROVE  i \in ids
  <2>1. j \in fetched /\ fetched \in SUBSET Ids /\ F \in SUBSET Ids
    BY <1>6
  <2>2. i \in fetched
    BY <1>4, <1>6, <1>10, <2>1, TakeIsDownward
  <2> QED
    BY <1>4, <1>10, <2>1, <2>2, TakeIsDownward DEF ids
<1>11. ~hasNext => ids = F
  <2> SUFFICES ASSUME ~hasNext PROVE ids = F
    OBVIOUS
  <2>1. fetched \in SUBSET Ids /\ F \in SUBSET Ids
    BY <1>6
  <2>2. Cardinality(fetched) \in Nat
    <3>1. IsFiniteSet(fetched)
      BY <2>1, PagesAssumption, FS_Subset
    <3> QED
      BY <3>1, FS_CardinalityType
  <2>3. Cardinality(fetched) <= ask.limit
    BY <1>4, <2>2 DEF hasNext
  <2>4. fetched = F
    BY <1>4, <1>6, <2>1, <2>3, TakeOneMore
  <2> QED
    BY <1>4, <2>1, <2>3, <2>4, TakeOfFew DEF ids
(* What was always there and is not found yet is after the cursor.         *)
<1>12. ASSUME NEW i \in Ids \ skipped',
              \A a \in answered' : i \in Match(a.snapshot, a.sources)
       PROVE  i \in Found \/ i \in F
  <2>1. i \in S
    <3>1. answer \in answered' /\ answer.snapshot = live[r] /\ answer.sources = sources
      BY <1>1
    <3> QED
      BY <1>1, <1>12, <3>1 DEF S, Match
  <2>2. CASE ask.cursor = 0
    BY <1>1, <1>12, <2>1, <2>2
  <2>3. CASE ask.cursor # 0 /\ i <= ask.cursor
    BY <1>1, <1>3, <1>12, <2>3 DEF NoneMissedYet
  <2>4. CASE ask.cursor # 0 /\ ~(i <= ask.cursor)
    <3>1. i \in Nat /\ ask.cursor \in Nat
      BY <1>3, <1>4, <2>4 DEF TypeOK
    <3> QED
      BY <2>1, <2>4, <3>1 DEF From, F
  <2> QED
    BY <2>2, <2>3, <2>4
(* All that is found is before what is after the cursor.                   *)
<1>13. \A i \in Found, j \in F : i < j
  <2>1. CASE ask.cursor = 0
    BY <1>1, <1>3, <2>1 DEF Continues, Found
  <2>2. CASE ask.cursor # 0
    <3> SUFFICES ASSUME NEW i \in Found, NEW j \in F PROVE i < j
      OBVIOUS
    <3>1. i <= ask.cursor /\ j > ask.cursor
      BY <1>1, <1>3, <2>2 DEF Continues, From, F
    <3>2. i \in Nat /\ j \in Nat /\ ask.cursor \in Nat
      BY <1>3, <1>4, <1>6, <2>2 DEF TypeOK, Found
    <3> QED
      BY <3>1, <3>2
  <2> QED
    BY <2>1, <2>2
<1>14. ids \subseteq Ids /\ F \subseteq Ids
  BY <1>6
<1>15. TypeOK'
  <2>1. live[r] \in 1..Snapshots
    BY <1>3 DEF TypeOK
  <2>2. page' \subseteq [id : Ids, source : Sources]
    BY <1>1, <1>5, <1>6, <1>7
  <2>3. seen' \subseteq Ids /\ skipped' \subseteq Ids
    BY <1>1, <1>3, <1>6 DEF TypeOK
  <2>4. answered' \subseteq [snapshot : 1..Snapshots, sources : SUBSET Sources]
    BY <1>1, <1>3, <1>5, <2>1 DEF TypeOK
  <2>5. /\ ask'.limit \in Int /\ ask'.offset \in Nat /\ ask'.cursor \in Ids \cup {0}
        /\ ask'.cursor # 0 => ask'.offset = 0
        /\ ask'.sources = None \/ ask'.sources \subseteq Sources
    <3>1. CASE hasNext
      <4>1. PICK last \in ids : ask' = NextLink(ask, last, sources)
        BY <1>2, <3>1
      <4>2. /\ ask'.limit = ask.limit /\ ask'.offset = 0
            /\ ask'.cursor = last /\ ask'.sources = sources
        BY <4>1, <1>3 DEF NextLink, TypeOK
      <4> QED
        BY <1>3, <1>5, <1>14, <4>2 DEF TypeOK
    <3>2. CASE ~hasNext
      BY <1>2, <1>3, <3>2 DEF TypeOK
    <3> QED
      BY <3>1, <3>2
  <2>6. phase' \in {"walking", "done"}
    BY <1>2
  <2> QED
    BY <1>1, <1>3, <2>2, <2>3, <2>4, <2>5, <2>6 DEF TypeOK
<1>16. PagesAscend'
  <2>1. \A x \in page' : x.id \in ids
    BY <1>1
  <2>2. seen' = Found
    BY <1>1 DEF Found
  <2> QED
    BY <1>6, <1>13, <2>1, <2>2 DEF PagesAscend
<1>17. NeverWidens'
  <2>1. \A x \in page' : x.source \in sources
    BY <1>1, <1>6, <1>7
  <2> QED
    BY <1>1, <1>9, <2>1 DEF NeverWidens
<1>18. (\A i \in Ids \ skipped' :
          (\A a \in answered' : i \in Match(a.snapshot, a.sources)) => i \in Found')
       \/ hasNext
  BY <1>8, <1>11, <1>12
<1>19. NoneMissed'
  BY <1>1, <1>2, <1>18 DEF NoneMissed, Match
<1>20. Continues' /\ NoneMissedYet'
  <2>1. CASE ~hasNext
    BY <1>2, <2>1 DEF Continues, NoneMissedYet
  <2>2. CASE hasNext
    <3>1. PICK last \in ids : /\ \A i \in ids : i <= last
                              /\ ask' = NextLink(ask, last, sources)
      BY <1>2, <2>2
    <3>2. ask'.cursor = last /\ ask'.sources = sources
      BY <3>1, <1>15, <1>3 DEF NextLink, TypeOK
    <3>3. last \in Nat /\ last # 0 /\ last \in F
      BY <1>4, <1>6, <1>14
    <3>4. \A i \in Found' : i <= last
      <4>1. ASSUME NEW i \in Found PROVE i <= last
        <5>1. i < last
          BY <1>13, <3>3
        <5>2. i \in Nat
          BY <1>3, <1>4 DEF Found, TypeOK
        <5> QED
          BY <3>3, <5>1, <5>2
      <4> QED
        BY <1>8, <3>1, <4>1
    <3>5. sources # None
      BY <1>5, PagesAssumption
    <3>6. Continues'
      BY <1>1, <1>9, <3>2, <3>3, <3>4, <3>5 DEF Continues
    <3>7. NoneMissedYet'
      <4> SUFFICES ASSUME NEW i \in Ids \ skipped', i <= last,
                          \A a \in answered' : i \in Match(a.snapshot, a.sources)
                   PROVE  i \in Found'
        BY <1>1, <3>2 DEF NoneMissedYet, Match
      <4>1. i \in Found \/ i \in F
        BY <1>12
      <4> QED
        BY <1>8, <1>10, <4>1
    <3> QED
      BY <3>6, <3>7
  <2> QED
    BY <2>1, <2>2
<1> QED
  BY <1>15, <1>16, <1>17, <1>19, <1>20 DEF Inv

(* Inv holds in every state. *)
LEMMA InvInvariant == Spec => []Inv
<1>1. Init => Inv
  BY PagesAssumption
  DEF Init, Inv, TypeOK, Continues, NoneMissedYet, PagesAscend, NoneMissed, NeverWidens
<1>2. Inv /\ [Next]_vars => Inv'
  <2> SUFFICES ASSUME Inv, [Next]_vars PROVE Inv'
    OBVIOUS
  <2>0. /\ TypeOK /\ Continues /\ NoneMissedYet /\ PagesAscend
        /\ NoneMissed /\ NeverWidens
    BY DEF Inv
  <2>1. CASE Start
    <3>1. TypeOK'
      <4>1. PICK l \in Limits, o \in Offsets, q \in Asked, d \in Datetimes :
              ask' = [limit |-> l, offset |-> o, cursor |-> 0,
                      sources |-> q, datetime |-> d]
        BY <2>1 DEF Start
      <4> QED
        BY <2>0, <2>1, <4>1, PagesAssumption DEF Start, TypeOK
    <3>2. ask'.cursor = 0
      BY <2>1 DEF Start
    <3>3. \A i \in Ids : ~(i <= ask'.cursor)
      BY <3>2, PagesAssumption
    <3>4. Continues' /\ NoneMissedYet' /\ NoneMissed'
      BY <2>1, <3>2, <3>3 DEF Start, Continues, NoneMissedYet, NoneMissed
    <3> QED
      BY <2>1, <3>1, <3>4 DEF Start, Inv, PagesAscend, NeverWidens
  <2>2. CASE Refuse
    BY <2>0, <2>2
    DEF Refuse, Inv, TypeOK, Continues, NoneMissedYet, PagesAscend, NoneMissed,
        NeverWidens
  <2>3. ASSUME NEW r \in Replicas, NEW h \in Headers, Answer(r, h) PROVE Inv'
    BY <2>3, AnswerKeeps
  <2>4. ASSUME NEW r \in Replicas, Roll(r) PROVE Inv'
    <3>1. live' \in [Replicas -> 1..Snapshots]
      BY <2>0, <2>4 DEF Roll, TypeOK
    <3> QED
      BY <2>0, <2>4, <3>1
      DEF Roll, Inv, TypeOK, Continues, NoneMissedYet, PagesAscend, NoneMissed,
          NeverWidens, Found, Match
  <2>5. CASE UNCHANGED vars
    BY <2>0, <2>5
    DEF vars, Inv, TypeOK, Continues, NoneMissedYet, PagesAscend, NoneMissed,
        NeverWidens, Found, Match
  <2> QED
    BY <2>1, <2>2, <2>3, <2>4, <2>5 DEF Next, Follow
<1> QED
  BY <1>1, <1>2, PTL DEF Spec

(* Every variable keeps its type. *)
THEOREM TypeCorrect == Spec => []TypeOK
BY InvInvariant, PTL DEF Inv

(* The ids of a walk ascend from page to page, across replicas and         *)
(* snapshots: no feature is returned twice (itemsHandler, PageParts).      *)
THEOREM WalksAscend == Spec => []PagesAscend
BY InvInvariant, PTL DEF Inv

(* A walk that is over has returned every feature that every snapshot it   *)
(* met would have shown (itemsHandler, PageParts).                         *)
THEOREM WalksMissNothing == Spec => []NoneMissed
BY InvInvariant, PTL DEF Inv

(* Following links never shows more sources (filter.Sources, CanonicalQS). *)
THEOREM LinksNeverWiden == Spec => []NeverWidens
BY InvInvariant, PTL DEF Inv

-----------------------------------------------------------------------------
(* Every walk ends: what WalkEnds needs besides fairness.                  *)

(* The ids that a request may still return. *)
Ahead(q) == {i \in Ids : i > q.cursor}

(***************************************************************************)
(* A next link leaves fewer ids ahead than the request it answers, however *)
(* often replicas move to later snapshots in between, so there is an end   *)
(* to the links of a walk.                                                 *)
(***************************************************************************)
LinksAdvance ==
  [][phase = "walking" /\ phase' = "walking" =>
       \/ ask' = ask
       \/ /\ Cardinality(Ahead(ask')) \in Nat
          /\ Cardinality(Ahead(ask')) < Cardinality(Ahead(ask))]_vars

(***************************************************************************)
(* The walk of a valid request is refused at none of its links, unless it  *)
(* has a datetime with a "+".                                              *)
(***************************************************************************)
LinksStayValid ==
  [][phase = "walking" /\ Valid(ask) /\ ask.datetime \notin WithPlus =>
       /\ phase' \in {"walking", "done"}
       /\ Valid(ask') /\ ask'.datetime \notin WithPlus]_vars

(* The page that replica r returns for q under a header, and the row more. *)
PageOf(q, r, header) ==
  Take(Fetched(Match(live[r], Effective(q.sources, header)), q), q.limit)

(***************************************************************************)
(* Whatever replica and header a valid request meets, a page with a next   *)
(* link has a last feature for it to continue from.                        *)
(***************************************************************************)
LinksHaveACursor ==
  phase = "walking" /\ Valid(ask) =>
    \A r \in Replicas, h \in Headers :
      Cardinality(Fetched(Match(live[r], Effective(ask.sources, h)), ask)) > ask.limit
        => \E last \in PageOf(ask, r, h) : \A i \in PageOf(ask, r, h) : i <= last

(* A set of ids that is not empty has a greatest member. *)
LEMMA GreatestId ==
  ASSUME NEW S \in SUBSET Ids, S # {}
  PROVE  \E i \in S : \A j \in S : j <= i
<1> DEFINE Above(i) == {j \in S : j > i}
           Ranks == {Cardinality(Above(i)) : i \in S}
<1>1. S \subseteq Nat
  BY PagesAssumption
<1>2. \A i \in S : IsFiniteSet(Above(i)) /\ Cardinality(Above(i)) \in Nat
  <2> SUFFICES ASSUME NEW i \in S
               PROVE  IsFiniteSet(Above(i)) /\ Cardinality(Above(i)) \in Nat
    OBVIOUS
  <2>1. Above(i) \in SUBSET Ids
    OBVIOUS
  <2> QED
    BY <2>1, PagesAssumption, FS_Subset, FS_CardinalityType
<1>3. Ranks \subseteq Nat /\ Ranks # {}
  BY <1>2
<1> HIDE DEF Ranks
<1>4. PICK m \in Ranks : \A n \in Ranks : <<n, m>> \notin OpToRel(<, Nat)
  BY <1>3, NatLessThanWellFounded, WFMin
<1>5. PICK i \in S : m = Cardinality(Above(i))
  BY DEF Ranks
<1>6. ASSUME NEW j \in S, j > i PROVE FALSE
  <2>1. Above(j) \in SUBSET Above(i) /\ j \in Above(i) /\ j \notin Above(j)
    <3>1. i \in Nat /\ j \in Nat /\ j > i /\ \A k \in S : k \in Nat
      BY <1>1, <1>6
    <3>2. ~(j > j) /\ \A k \in S : k > j => k > i
      BY <3>1
    <3> QED
      BY <1>6, <3>2
  <2>2. /\ IsFiniteSet(Above(i)) /\ Cardinality(Above(i)) \in Nat
        /\ Cardinality(Above(j)) \in Nat
    BY <1>2
  <2>3. Cardinality(Above(j)) \in Ranks
    BY DEF Ranks
  <2> HIDE DEF Above
  <2>4. /\ Cardinality(Above(j)) <= Cardinality(Above(i))
        /\ Cardinality(Above(j)) # Cardinality(Above(i))
    BY <2>1, <2>2, FS_Subset
  <2>5. Cardinality(Above(j)) < m
    BY <1>5, <2>2, <2>4
  <2> QED
    BY <1>3, <1>4, <2>3, <2>5 DEF OpToRel
<1> QED
  BY <1>1, <1>6

(* LIMIT n, with n positive, takes something of what is not empty. *)
LEMMA TakeTakes ==
  ASSUME NEW S \in SUBSET Ids, NEW n \in Nat \ {0}, S # {}
  PROVE  Take(S, n) # {}
<1>1. PICK i \in S : \A j \in S : i <= j
  BY LeastId
<1>2. Below(S, i) = {}
  BY <1>1, PagesAssumption DEF Below
<1>3. Cardinality(Below(S, i)) = 0
  BY <1>2, FS_EmptySet
<1> QED
  BY <1>1, <1>3 DEF Take

(* The next request of a walk starts after a later id. *)
LEMMA AnswerAdvances ==
  ASSUME Inv, NEW r \in Replicas, NEW h \in Headers, Answer(r, h),
         phase' = "walking"
  PROVE  /\ Cardinality(Ahead(ask')) \in Nat
         /\ Cardinality(Ahead(ask')) < Cardinality(Ahead(ask))
<1> DEFINE S == Match(live[r], Effective(ask.sources, h))
           ids == Take(Fetched(S, ask), ask.limit)
<1>1. PICK last \in ids : ask' = NextLink(ask, last, Effective(ask.sources, h))
  BY DEF Answer
<1>2. last \in From(S, ask) /\ last \in Ids /\ ask'.cursor = last
  <2>1. last \in From(S, ask) /\ last \in Ids
    BY DEF Take, Fetched, From, Match
  <2>2. ask'.cursor = last
    BY <1>1 DEF NextLink, Inv, TypeOK
  <2> QED
    BY <2>1, <2>2
<1>3. ask.cursor \in Nat /\ last \in Nat /\ ask.cursor < last
  <2>1. ask.cursor \in Nat /\ last \in Nat \ {0}
    BY <1>2, PagesAssumption DEF Inv, TypeOK
  <2>2. CASE ask.cursor # 0
    BY <1>2, <2>1, <2>2 DEF From
  <2> QED
    BY <2>1, <2>2
<1>4. /\ Ahead(ask') \in SUBSET Ahead(ask) /\ Ahead(ask) \in SUBSET Ids
      /\ last \in Ahead(ask) /\ last \notin Ahead(ask')
  BY <1>2, <1>3, PagesAssumption DEF Ahead
<1>5. IsFiniteSet(Ahead(ask)) /\ Cardinality(Ahead(ask)) \in Nat
  BY <1>4, PagesAssumption, FS_Subset, FS_CardinalityType
<1>6. Cardinality(Ahead(ask')) \in Nat
  BY <1>4, <1>5, FS_Subset, FS_CardinalityType
<1> QED
  BY <1>4, <1>5, <1>6, FS_Subset

(* Links cannot go on for ever (itemsHandler, PageParts). *)
THEOREM EveryWalkAdvances == Spec => LinksAdvance
<1>1. ASSUME Inv, [Next]_vars, phase = "walking", phase' = "walking", ask' # ask
      PROVE  /\ Cardinality(Ahead(ask')) \in Nat
             /\ Cardinality(Ahead(ask')) < Cardinality(Ahead(ask))
  <2>1. PICK r \in Replicas, h \in Headers : Answer(r, h)
    BY <1>1 DEF Next, Follow, Start, Refuse, Roll, vars
  <2> QED
    BY <1>1, <2>1, AnswerAdvances
<1>2. Inv /\ [Next]_vars =>
        (phase = "walking" /\ phase' = "walking" =>
           \/ ask' = ask
           \/ /\ Cardinality(Ahead(ask')) \in Nat
              /\ Cardinality(Ahead(ask')) < Cardinality(Ahead(ask)))
  BY <1>1
<1> QED
  BY <1>2, InvInvariant, PTL DEF Spec, LinksAdvance

(* Without a "+" in the datetime, next links are never refused             *)
(* (itemsHandler, CanonicalQS).                                            *)
THEOREM ValidWalksStayValid == Spec => LinksStayValid
<1>1. ASSUME Inv, [Next]_vars, phase = "walking", Valid(ask),
             ask.datetime \notin WithPlus
      PROVE  /\ phase' \in {"walking", "done"}
             /\ Valid(ask') /\ ask'.datetime \notin WithPlus
  <2>1. CASE UNCHANGED <<phase, ask>>
    BY <1>1, <2>1
  <2>2. ASSUME NEW r \in Replicas, NEW h \in Headers, Answer(r, h)
        PROVE  /\ phase' \in {"walking", "done"}
               /\ Valid(ask') /\ ask'.datetime \notin WithPlus
    <3>1. CASE phase' = "done" /\ ask' = ask
      BY <1>1, <3>1
    <3>2. ASSUME NEW last, ask' = NextLink(ask, last, Effective(ask.sources, h)),
                 phase' = phase
          PROVE  /\ phase' \in {"walking", "done"}
                 /\ Valid(ask') /\ ask'.datetime \notin WithPlus
      <4>1. ask'.limit = ask.limit /\ ask'.datetime = ask.datetime
        BY <1>1, <3>2 DEF NextLink
      <4> QED
        BY <1>1, <3>2, <4>1 DEF Valid
    <3> QED
      BY <2>2, <3>1, <3>2 DEF Answer
  <2> QED
    BY <1>1, <2>1, <2>2 DEF Next, Follow, Start, Refuse, Roll, vars
<1>2. Inv /\ [Next]_vars =>
        (phase = "walking" /\ Valid(ask) /\ ask.datetime \notin WithPlus =>
           /\ phase' \in {"walking", "done"}
           /\ Valid(ask') /\ ask'.datetime \notin WithPlus)
  BY <1>1
<1> QED
  BY <1>2, InvInvariant, PTL DEF Spec, LinksStayValid

(* And a valid request is always answered: where there is a next page the  *)
(* handler has a last id to put in its link (itemsHandler, PageParts).     *)
THEOREM ValidRequestsAreAnswered == Spec => []LinksHaveACursor
<1>1. ASSUME Inv, phase = "walking", Valid(ask), NEW r \in Replicas, NEW h \in Headers,
             Cardinality(Fetched(Match(live[r], Effective(ask.sources, h)), ask))
               > ask.limit
      PROVE  \E last \in PageOf(ask, r, h) : \A i \in PageOf(ask, r, h) : i <= last
  <2> DEFINE F == Fetched(Match(live[r], Effective(ask.sources, h)), ask)
  <2>1. F \in SUBSET Ids
    BY DEF Fetched, Take, From, Match
  <2>2. ask.limit \in Nat \ {0}
    BY <1>1, PagesAssumption DEF Valid
  <2>3. F # {}
    BY <1>1, <2>2, FS_EmptySet
  <2>4. PageOf(ask, r, h) \in SUBSET Ids /\ PageOf(ask, r, h) # {}
    <3> HIDE DEF F
    <3>1. PageOf(ask, r, h) = Take(F, ask.limit)
      BY DEF PageOf, F
    <3> QED
      BY <2>1, <2>2, <2>3, <3>1, TakeTakes DEF Take
  <2> QED
    BY <2>4, GreatestId
<1>2. Inv => LinksHaveACursor
  BY <1>1 DEF LinksHaveACursor
<1> QED
  BY <1>2, InvInvariant, PTL
=============================================================================
