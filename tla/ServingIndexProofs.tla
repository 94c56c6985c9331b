------------------------- MODULE ServingIndexProofs -------------------------
(***************************************************************************)
(* Pruning loses a row only on the rim of the extent that the rounded grid *)
(* misses, for any number of files, any rows, any sphere and any rounding. *)
(* The argument is geometric: a row and a request that meet have a point   *)
(* in common, and where the grid covers that point, its cell overlaps      *)
(* both.  The cell is found without induction, as the least edge not below *)
(* the point.                                                              *)
(***************************************************************************)
EXTENDS ServingIndex, TLAPS, NaturalsInduction, WellFoundedInduction

-----------------------------------------------------------------------------
(* Least and greatest members, which Hull, PerAxis and the grid choose.    *)

(* A set of naturals has a least member. *)
LEMMA LeastNatural ==
  ASSUME NEW S \in SUBSET Nat, S # {}
  PROVE  \E x \in S : \A y \in S : x <= y
<1>1. IsWellFoundedOn(OpToRel(<, Nat), Nat)
  BY NatLessThanWellFounded
<1>2. PICK x \in S : \A y \in S : <<y, x>> \notin OpToRel(<, Nat)
  BY <1>1, WFMin
<1>3. \A y \in S : ~(y < x)
  BY <1>2 DEF OpToRel
<1> QED
  BY <1>3

(* Least(S) is the least member of a set of integers bounded below. *)
LEMMA LeastInt ==
  ASSUME NEW lo \in Int, NEW S \in SUBSET Int, S # {}, \A x \in S : lo <= x
  PROVE  Least(S) \in S /\ \A y \in S : Least(S) <= y
<1> DEFINE T == {t \in Nat : \E x \in S : x = lo + t}
<1>1. T \in SUBSET Nat /\ T # {}
  <2>1. PICK x \in S : TRUE
    OBVIOUS
  <2>2. x - lo \in T
    BY <2>1
  <2> QED
    BY <2>2
<1>2. PICK t \in T : \A u \in T : t <= u
  BY <1>1, LeastNatural
<1>3. PICK x \in S : x = lo + t
  BY <1>2
<1>4. \A y \in S : x <= y
  <2>1. TAKE y \in S
  <2>2. y - lo \in T
    OBVIOUS
  <2> QED
    BY <1>2, <1>3, <2>2
<1> QED
  BY <1>4 DEF Least

(* Greatest(S) is the greatest member of a set of integers bounded above. *)
LEMMA GreatestInt ==
  ASSUME NEW hi \in Int, NEW S \in SUBSET Int, S # {}, \A x \in S : x <= hi
  PROVE  Greatest(S) \in S /\ \A y \in S : y <= Greatest(S)
<1> DEFINE T == {t \in Nat : \E x \in S : x = hi - t}
<1>1. T \in SUBSET Nat /\ T # {}
  <2>1. PICK x \in S : TRUE
    OBVIOUS
  <2>2. hi - x \in T
    BY <2>1
  <2> QED
    BY <2>2
<1>2. PICK t \in T : \A u \in T : t <= u
  BY <1>1, LeastNatural
<1>3. PICK x \in S : x = hi - t
  BY <1>2
<1>4. \A y \in S : y <= x
  <2>1. TAKE y \in S
  <2>2. hi - y \in T
    OBVIOUS
  <2> QED
    BY <1>2, <1>3, <2>2
<1> QED
  BY <1>4 DEF Greatest

(* The hull of some boxes is a box around each of them. *)
LEMMA HullIsAround ==
  ASSUME NEW B \in SUBSET RowBox, B # {}
  PROVE  /\ Hull(B) \in RowBox
         /\ \A b \in B : /\ Hull(B).w <= b.w /\ b.e <= Hull(B).e
                         /\ Hull(B).s <= b.s /\ b.n <= Hull(B).n
<1> DEFINE W == {b.w : b \in B}  S == {b.s : b \in B}
           E == {b.e : b \in B}  M == {b.n : b \in B}
<1>0. Antimeridian \in Nat /\ Pole \in Nat
  BY IndexAssumption
<1>1. \A b \in B : /\ b.w \in Lon /\ b.e \in Lon /\ b.w <= b.e
                   /\ b.s \in Lat /\ b.n \in Lat /\ b.s <= b.n
  BY DEF RowBox, Box
<1>2. Least(W) \in W /\ \A y \in W : Least(W) <= y
  <2>1. W \in SUBSET Int /\ W # {} /\ \A y \in W : -Antimeridian <= y
    BY <1>0, <1>1 DEF Lon
  <2> HIDE DEF W
  <2> QED
    BY <1>0, <2>1, LeastInt, -Antimeridian \in Int
<1>3. Least(S) \in S /\ \A y \in S : Least(S) <= y
  <2>1. S \in SUBSET Int /\ S # {} /\ \A y \in S : -Pole <= y
    BY <1>0, <1>1 DEF Lat
  <2> HIDE DEF S
  <2> QED
    BY <1>0, <2>1, LeastInt, -Pole \in Int
<1>4. Greatest(E) \in E /\ \A y \in E : y <= Greatest(E)
  <2>1. E \in SUBSET Int /\ E # {} /\ \A y \in E : y <= Antimeridian
    BY <1>0, <1>1 DEF Lon
  <2> HIDE DEF E
  <2> QED
    BY <1>0, <2>1, GreatestInt, Antimeridian \in Int
<1>5. Greatest(M) \in M /\ \A y \in M : y <= Greatest(M)
  <2>1. M \in SUBSET Int /\ M # {} /\ \A y \in M : y <= Pole
    BY <1>0, <1>1 DEF Lat
  <2> HIDE DEF M
  <2> QED
    BY <1>0, <2>1, GreatestInt, Pole \in Int
<1>6. Hull(B) = [w |-> Least(W), s |-> Least(S), e |-> Greatest(E), n |-> Greatest(M)]
  BY DEF Hull
<1>7. \A b \in B : /\ Least(W) <= b.w /\ b.e <= Greatest(E)
                   /\ Least(S) <= b.s /\ b.n <= Greatest(M)
  BY <1>2, <1>3, <1>4, <1>5
<1>8. /\ Least(W) \in Lon /\ Greatest(E) \in Lon
      /\ Least(S) \in Lat /\ Greatest(M) \in Lat
  BY <1>1, <1>2, <1>3, <1>4, <1>5
<1>9. Least(W) <= Greatest(E) /\ Least(S) <= Greatest(M)
  <2>1. PICK b \in B : TRUE
    OBVIOUS
  <2>2. /\ b.w \in Int /\ b.e \in Int /\ b.s \in Int /\ b.n \in Int
        /\ Least(W) \in Int /\ Greatest(E) \in Int
        /\ Least(S) \in Int /\ Greatest(M) \in Int
    BY <1>0, <1>1, <1>8 DEF Lon, Lat
  <2> HIDE DEF W, S, E, M
  <2> QED
    BY <1>1, <1>7, <2>2
<1> HIDE DEF W, S, E, M
<1>10. Hull(B) \in RowBox
  BY <1>6, <1>8, <1>9 DEF RowBox, Box
<1> QED
  BY <1>6, <1>7, <1>10

-----------------------------------------------------------------------------
(* The grid.                                                               *)

(* The grid has at least one cell on each axis. *)
LEMMA PerAxisIsPositive == PerAxis \in Nat \ {0}
<1> DEFINE S == {k \in 1..N : N <= k * k}
<1>1. N \in Nat \ {0}
  BY IndexAssumption
<1>2. N <= N * N
  BY <1>1
<1>3. N \in S
  BY <1>1, <1>2
<1>4. S \in SUBSET Int /\ S # {} /\ \A k \in S : 1 <= k
  BY <1>1, <1>3
<1>5. S \subseteq Nat \ {0}
  BY <1>1
<1>6. PerAxis = Least(S)
  BY DEF PerAxis
<1> HIDE DEF S
<1>7. Least(S) \in S
  BY <1>4, LeastInt, 1 \in Int
<1> QED
  BY <1>5, <1>6, <1>7

(* Edges are integers, and the grid of a proper interval starts at its     *)
(* lower end.                                                              *)
LEMMA EdgeIsInteger ==
  ASSUME NEW lo \in Int, NEW hi \in Int, NEW k \in Nat, NEW r \in Int
  PROVE  Edge(lo, hi, k, r) \in Int /\ Edge(lo, hi, 0, r) = lo
<1>1. PerAxis \in Nat \ {0}
  BY PerAxisIsPositive
<1>2. k * (hi - lo) \in Int
  OBVIOUS
<1>3. (k * (hi - lo)) \div PerAxis \in Int
  BY <1>1, <1>2
<1> QED
  BY <1>3 DEF Edge

(* Every point of the interval up to where the last edge comes lies        *)
(* between two neighbouring edges.                                         *)
LEMMA EdgesCover ==
  ASSUME NEW lo \in Int, NEW hi \in Int, NEW r \in Int,
         NEW x \in Int, lo <= x, x <= hi, lo = hi \/ x <= hi + r
  PROVE  \E k \in 0..(PerAxis - 1) :
           Edge(lo, hi, k, r) <= x /\ x <= Edge(lo, hi, k + 1, r)
<1>1. PerAxis \in Nat \ {0}
  BY PerAxisIsPositive
<1> DEFINE S == {k \in Nat : k >= 1 /\ k <= PerAxis /\ x <= Edge(lo, hi, k, r)}
<1>2. x <= Edge(lo, hi, PerAxis, r)
  BY <1>1 DEF Edge
<1>3. PerAxis \in S
  BY <1>1, <1>2
<1>4. PICK k \in S : \A j \in S : k <= j
  BY <1>3, LeastNatural
<1>5. k - 1 \in 0..(PerAxis - 1) /\ k - 1 \in Nat
  BY <1>1, <1>4
<1>6. Edge(lo, hi, k - 1, r) <= x
  <2>1. CASE k = 1
    BY <2>1 DEF Edge
  <2>2. CASE k # 1
    <3>1. k - 1 \notin S
      BY <1>4
    <3>0. k - 1 >= 1 /\ k - 1 <= PerAxis
      BY <1>1, <1>5, <2>2
    <3>2. ~(x <= Edge(lo, hi, k - 1, r))
      BY <1>5, <3>0, <3>1
    <3>3. Edge(lo, hi, k - 1, r) \in Int
      BY <1>5, EdgeIsInteger, r \in Int
    <3> QED
      BY <3>2, <3>3
  <2> QED
    BY <2>1, <2>2
<1>7. x <= Edge(lo, hi, (k - 1) + 1, r)
  BY <1>4
<1> QED
  BY <1>5, <1>6, <1>7

(* The lobes of a box that does not cross the antimeridian. *)
LEMMA PlainLobes ==
  ASSUME NEW b, b.w \in Int, b.e \in Int, b.s \in Int, b.n \in Int,
         b.w <= b.e, b.s <= b.n
  PROVE  Lobes(b) = {b}
BY DEF Lobes

(* The lobes of a request are boxes of integers. *)
LEMMA LobesOfBounds ==
  ASSUME NEW b \in Bounds, NEW m \in Lobes(b)
  PROVE  m.w \in Int /\ m.e \in Int /\ m.s \in Int /\ m.n \in Int
<1>1. Antimeridian \in Nat /\ Pole \in Nat
  BY IndexAssumption
<1>2. b \in Box /\ b.w \in Int /\ b.e \in Int /\ b.s \in Int /\ b.n \in Int
  BY <1>1 DEF Bounds, Box, Lon, Lat
<1>3. \/ m = b
      \/ m = [b EXCEPT !.e = Antimeridian]
      \/ m = [b EXCEPT !.w = -Antimeridian]
  BY DEF Lobes
<1> QED
  BY <1>1, <1>2, <1>3 DEF Box

(***************************************************************************)
(* PruneFiles picks every file that shares a point with the request, if    *)
(* the grid covers that point: the argument behind the "may intersect" of  *)
(* index.go:102.                                                           *)
(***************************************************************************)
LEMMA PruneFindsCovered ==
  ASSUME NEW boxes \in [File -> RowBox], NEW rx \in Int, NEW ry \in Int,
         NEW b \in Bounds, NEW f \in File, NEW m \in Lobes(b),
         NEW x \in Int, NEW y \in Int,
         boxes[f].w <= x, x <= boxes[f].e, boxes[f].s <= y, y <= boxes[f].n,
         m.w <= x, x <= m.e, m.s <= y, y <= m.n,
         Covered(Hull({boxes[g] : g \in File}), rx, ry, x, y)
  PROVE  f \in PruneFiles(BuildIndex(boxes, rx, ry), b)
<1> DEFINE B == {boxes[g] : g \in File}
           h == Hull(B)
           l == boxes[f]
<1>0. Antimeridian \in Nat /\ Pole \in Nat
  BY IndexAssumption
<1>1. h \in RowBox /\ h.w <= l.w /\ l.e <= h.e /\ h.s <= l.s /\ l.n <= h.n
  <2>1. B \in SUBSET RowBox /\ l \in B
    OBVIOUS
  <2> QED
    BY <2>1, HullIsAround
<1>2. \A c \in RowBox : /\ c.w \in Int /\ c.e \in Int /\ c.w <= c.e
                        /\ c.s \in Int /\ c.n \in Int /\ c.s <= c.n
  BY <1>0 DEF RowBox, Box, Lon, Lat
<1>3. /\ l \in RowBox /\ Covered(h, rx, ry, x, y)
      /\ l.w <= x /\ x <= l.e /\ l.s <= y /\ y <= l.n
  OBVIOUS
<1> HIDE DEF l, h, B
<1>4. Lobes(l) = {l}
  BY <1>2, <1>3, PlainLobes
<1>6. m.w \in Int /\ m.e \in Int /\ m.s \in Int /\ m.n \in Int
  BY LobesOfBounds
<1>7. h.w <= x /\ x <= h.e /\ h.s <= y /\ y <= h.n
  BY <1>1, <1>2, <1>3
<1>9. h.w \in Int /\ h.e \in Int /\ h.s \in Int /\ h.n \in Int
  BY <1>1, <1>2
<1>10. PICK ix \in 0..(PerAxis - 1) :
         Edge(h.w, h.e, ix, rx) <= x /\ x <= Edge(h.w, h.e, ix + 1, rx)
  BY <1>3, <1>7, <1>9, EdgesCover DEF Covered
<1>11. PICK iy \in 0..(PerAxis - 1) :
         Edge(h.s, h.n, iy, ry) <= y /\ y <= Edge(h.s, h.n, iy + 1, ry)
  BY <1>3, <1>7, <1>9, EdgesCover DEF Covered
<1> DEFINE c == Cell(h, ix, iy, rx, ry)
<1>12. /\ c.w <= x /\ x <= c.e /\ c.s <= y /\ y <= c.n
       /\ c.w \in Int /\ c.e \in Int /\ c.s \in Int /\ c.n \in Int
  <2>1. /\ ix \in Nat /\ ix + 1 \in Nat /\ iy \in Nat /\ iy + 1 \in Nat
        /\ rx \in Int /\ ry \in Int
    BY PerAxisIsPositive
  <2>2. /\ Edge(h.w, h.e, ix, rx) \in Int /\ Edge(h.w, h.e, ix + 1, rx) \in Int
        /\ Edge(h.s, h.n, iy, ry) \in Int /\ Edge(h.s, h.n, iy + 1, ry) \in Int
    BY <1>9, <2>1, EdgeIsInteger
  <2> QED
    BY <1>10, <1>11, <2>2 DEF Cell
<1> HIDE DEF c
<1>13. Lobes(c) = {c}
  BY <1>12, PlainLobes
<1>14. BBoxesOverlap(c, l)
  BY <1>2, <1>3, <1>4, <1>12, <1>13 DEF BBoxesOverlap, Overlaps1D
<1>15. BBoxesOverlap(c, b)
  BY <1>6, <1>12, <1>13 DEF BBoxesOverlap, Overlaps1D
<1> DEFINE part == Partition(c, boxes)
<1>16. f \in part.files /\ part.files # {} /\ part.bbox = c
  BY <1>14 DEF l, Partition
<1>17. part \in BuildIndex(boxes, rx, ry).partitions
  <2> DEFINE at == <<ix, iy>>
  <2>1. at \in (0..(PerAxis - 1)) \X (0..(PerAxis - 1)) /\ at[1] = ix /\ at[2] = iy
    OBVIOUS
  <2>2. part = Partition(Cell(h, at[1], at[2], rx, ry), boxes)
    BY <2>1 DEF c
  <2> HIDE DEF part, at
  <2>3. part \in PartitionFiles(h, boxes, rx, ry)
    BY <1>16, <2>1, <2>2 DEF PartitionFiles
  <2> QED
    BY <2>3 DEF BuildIndex, h, B
<1>18. BuildIndex(boxes, rx, ry).stats = boxes
  BY DEF BuildIndex
<1>19. BBoxesOverlap(boxes[f], b)
  <2>1. BBoxesOverlap(l, b)
    BY <1>2, <1>3, <1>4, <1>6 DEF BBoxesOverlap, Overlaps1D
  <2> QED
    BY <2>1 DEF l
<1> HIDE DEF part
<1> QED
  BY <1>15, <1>16, <1>17, <1>18, <1>19 DEF PruneFiles

-----------------------------------------------------------------------------
(* The rows.                                                               *)

(* The coordinates of rows and requests are integers between the bounds of *)
(* the sphere.                                                             *)
LEMMA BoxesAreIntegers ==
  ASSUME NEW r \in Box
  PROVE  /\ r.w \in Int /\ r.e \in Int /\ r.s \in Int /\ r.n \in Int
         /\ -Antimeridian <= r.w /\ r.w <= Antimeridian
         /\ -Antimeridian <= r.e /\ r.e <= Antimeridian
         /\ Antimeridian \in Nat /\ Pole \in Nat
BY IndexAssumption DEF Box, Lon, Lat

(* The SQL asks for the rows that have a point in common with the request. *)
LEMMA PredicateIsWanted ==
  ASSUME NEW r \in RowBox, NEW b \in Bounds \cup {None}
  PROVE  Predicate(r, b) <=> Wanted(r, b)
<1>1. CASE b = None
  BY <1>1 DEF Predicate, Wanted
<1>2. CASE b \in Bounds
  <2>1. /\ r.w \in Int /\ r.e \in Int /\ r.s \in Int /\ r.n \in Int
        /\ r.w <= r.e /\ r.s <= r.n
        /\ -Antimeridian <= r.w /\ r.e <= Antimeridian /\ Antimeridian \in Nat
        /\ -Antimeridian <= r.e /\ r.w <= Antimeridian
    BY BoxesAreIntegers DEF RowBox
  <2>2. /\ b.w \in Int /\ b.e \in Int /\ b.s \in Int /\ b.n \in Int
        /\ b.s <= b.n
    BY <1>2, BoxesAreIntegers DEF Bounds
  <2>3. b # None
    BY <1>2, IndexAssumption
  <2>4. ASSUME Predicate(r, b) PROVE Wanted(r, b)
    <3> DEFINE x == IF b.w <= b.e THEN (IF b.w <= r.w THEN r.w ELSE b.w)
                    ELSE IF b.w <= r.e THEN r.e ELSE r.w
               y == IF b.s <= r.s THEN r.s ELSE b.s
    <3>1. SpatialPredicate(r, b)
      BY <2>3, <2>4 DEF Predicate
    <3>2. y \in r.s..r.n /\ b.s <= y /\ y <= b.n
      BY <2>1, <2>2, <3>1 DEF SpatialPredicate
    <3>3. x \in r.w..r.e
      BY <2>1, <2>2, <3>1 DEF SpatialPredicate
    <3>4. IF b.w <= b.e THEN b.w <= x /\ x <= b.e ELSE b.w <= x \/ x <= b.e
      BY <2>1, <2>2, <3>1 DEF SpatialPredicate
    <3> HIDE DEF x, y
    <3> QED
      BY <3>2, <3>3, <3>4 DEF Wanted, Asks
  <2>5. ASSUME Wanted(r, b) PROVE Predicate(r, b)
    <3>1. PICK x \in r.w..r.e, y \in r.s..r.n : Asks(b, x, y)
      BY <2>3, <2>5 DEF Wanted
    <3>2. SpatialPredicate(r, b) /\ BBoxOverlap(r, b)
      BY <2>1, <2>2, <3>1 DEF SpatialPredicate, BBoxOverlap, Asks
    <3> QED
      BY <3>2 DEF Predicate
  <2> QED
    BY <2>4, <2>5
<1> QED
  BY <1>1, <1>2

-----------------------------------------------------------------------------
(* The invariant: the index is the one of the rows, and a server without   *)
(* it reads every file.                                                    *)
Inv ==
  /\ TypeOK
  /\ stats # None => stats = [f \in File |-> Hull(rows[f])]
  /\ index # None => \E rx, ry \in Roundings : index = BuildIndex(stats, rx, ry)
  /\ index = None => source = File

(* The rows of a file are boxes, and there are some. *)
LEMMA RowsAreBoxes ==
  ASSUME TypeOK, NEW f \in File
  PROVE  rows[f] \in SUBSET RowBox /\ rows[f] # {}
BY IndexAssumption DEF TypeOK

(* Inv holds in every state. *)
LEMMA InvInvariant == Spec => []Inv
<1>1. Init => Inv
  <2> SUFFICES ASSUME Init PROVE Inv
    OBVIOUS
  <2>1. rows \in [File -> SUBSET RowBox]
    BY IndexAssumption DEF Init
  <2>2. TypeOK
    BY <2>1 DEF Init, TypeOK
  <2> QED
    BY <2>2 DEF Init, Inv
<1>2. Inv /\ [Next]_vars => Inv'
  <2> SUFFICES ASSUME Inv, [Next]_vars PROVE Inv'
    OBVIOUS
  <2>1. CASE Footers
    <3>1. [f \in File |-> Hull(rows[f])] \in [File -> RowBox]
      BY RowsAreBoxes, HullIsAround DEF Inv
    <3>2. index = None
      BY <2>1 DEF Footers, Inv, TypeOK
    <3>3. TypeOK'
      BY <2>1, <3>1, <3>2 DEF Footers, Inv, TypeOK
    <3> QED
      BY <2>1, <3>2, <3>3 DEF Footers, Inv
  <2>2. CASE Build
    <3>1. PICK rx, ry \in Roundings : index' = BuildIndex(stats, rx, ry)
      BY <2>2 DEF Build
    <3>2. index'.stats = stats
      BY <3>1 DEF BuildIndex
    <3>3. TypeOK'
      BY <2>2, <3>2 DEF Build, Inv, TypeOK
    <3>4. source' = File
      BY <2>2 DEF Build, Inv
    <3> QED
      BY <2>2, <3>1, <3>3, <3>4 DEF Build, Inv
  <2>3. ASSUME NEW b \in Bounds \cup {None}, Query(b) PROVE Inv'
    <3>1. source' \in SUBSET File /\ (index = None => source' = File)
      BY <2>3 DEF Query, ReadSource, PruneFiles
    <3>2. answer' \in [File -> SUBSET RowBox]
      BY <2>3, RowsAreBoxes DEF Query, Inv
    <3>3. TypeOK'
      BY <2>3, <3>1, <3>2 DEF Query, Inv, TypeOK
    <3> QED
      BY <2>3, <3>1, <3>3 DEF Query, Inv
  <2>4. CASE UNCHANGED vars
    BY <2>4 DEF vars, Inv, TypeOK
  <2> QED
    BY <2>1, <2>2, <2>3, <2>4 DEF Next
<1> QED
  BY <1>1, <1>2, PTL DEF Spec

(* Every variable keeps its type. *)
THEOREM TypeCorrect == Spec => []TypeOK
BY InvInvariant, PTL DEF Inv

-----------------------------------------------------------------------------
(* What is answered.                                                       *)

(* A point of the sphere that the request asks for is in one of its lobes. *)
LEMMA AskedIsInALobe ==
  ASSUME NEW b \in Bounds, NEW x \in Lon, NEW y \in Int, Asks(b, x, y)
  PROVE  \E m \in Lobes(b) : m.w <= x /\ x <= m.e /\ m.s <= y /\ y <= m.n
<1>1. /\ b \in Box /\ b.w \in Int /\ b.e \in Int /\ b.s \in Int /\ b.n \in Int
      /\ b.s <= b.n
  BY BoxesAreIntegers DEF Bounds
<1>2. x \in Int /\ -Antimeridian <= x /\ x <= Antimeridian
  BY IndexAssumption DEF Lon
<1>3. CASE b.w <= b.e
  BY <1>1, <1>3 DEF Asks, Lobes
<1>4. CASE ~(b.w <= b.e)
  <2> DEFINE east == [b EXCEPT !.e = Antimeridian]
             west == [b EXCEPT !.w = -Antimeridian]
  <2>1. Lobes(b) = {east, west}
    BY <1>1, <1>4 DEF Lobes
  <2>2. /\ east.w = b.w /\ east.e = Antimeridian /\ east.s = b.s /\ east.n = b.n
        /\ west.w = -Antimeridian /\ west.e = b.e /\ west.s = b.s /\ west.n = b.n
    BY <1>1 DEF Box
  <2> HIDE DEF east, west
  <2> QED
    BY <1>2, <1>4, <2>1, <2>2 DEF Asks
<1> QED
  BY <1>3, <1>4

(* A row that is left out shares no covered point with the request.        *)
LEMMA LostRowsAreUncovered ==
  ASSUME Inv, NEW rx \in Int, NEW ry \in Int, index # None,
         index = BuildIndex(stats, rx, ry), NEW b \in Bounds, NEW f \in File,
         f \notin PruneFiles(index, b), NEW r \in rows[f],
         NEW x \in r.w..r.e, NEW y \in r.s..r.n, Asks(b, x, y)
  PROVE  ~Covered(Hull({stats[g] : g \in File}), rx, ry, x, y)
<1>1. stats \in [File -> RowBox] /\ stats[f] = Hull(rows[f])
  BY DEF Inv, TypeOK
<1>2. rows[f] \in SUBSET RowBox /\ rows[f] # {} /\ r \in RowBox
  BY RowsAreBoxes DEF Inv
<1>3. /\ Hull(rows[f]) \in RowBox
      /\ Hull(rows[f]).w <= r.w /\ r.e <= Hull(rows[f]).e
      /\ Hull(rows[f]).s <= r.s /\ r.n <= Hull(rows[f]).n
  BY <1>2, HullIsAround
<1>4. \A c \in RowBox :
        /\ c.w \in Int /\ c.e \in Int /\ c.s \in Int /\ c.n \in Int
        /\ -Antimeridian <= c.w /\ c.e <= Antimeridian
  BY BoxesAreIntegers DEF RowBox
<1>5. /\ x \in Int /\ y \in Int
      /\ stats[f].w <= x /\ x <= stats[f].e /\ stats[f].s <= y /\ y <= stats[f].n
      /\ -Antimeridian <= x /\ x <= Antimeridian
  BY <1>1, <1>2, <1>3, <1>4, IndexAssumption
<1>6. PICK m \in Lobes(b) : m.w <= x /\ x <= m.e /\ m.s <= y /\ y <= m.n
  BY <1>5, AskedIsInALobe, IndexAssumption DEF Lon
<1> QED
  BY <1>1, <1>5, <1>6, PruneFindsCovered

(***************************************************************************)
(* Whatever the grid rounds to, no answer has a row too many, and a row it *)
(* lacks meets the request nowhere but on the rim that the grid misses: in *)
(* particular, a grid that reaches its extent loses none.                  *)
(***************************************************************************)
THEOREM AnswersLackOnlyTheRim == Spec => []OnlyTheRimIsLost
<1>1. Init => OnlyTheRimIsLost
  BY DEF Init, OnlyTheRimIsLost, Wanted
<1>2. Inv /\ OnlyTheRimIsLost /\ [Next]_vars => OnlyTheRimIsLost'
  <2> SUFFICES ASSUME Inv, OnlyTheRimIsLost, [Next]_vars PROVE OnlyTheRimIsLost'
    OBVIOUS
  <2>1. CASE Footers
    <3>1. index = None /\ index' = None
      BY <2>1 DEF Footers, Inv, TypeOK
    <3> QED
      BY <2>1, <3>1 DEF Footers, OnlyTheRimIsLost
  <2>2. CASE Build
    <3>1. UNCHANGED <<rows, stats, asked, answer>> /\ index = None
      BY <2>2 DEF Build
    <3>2. PICK rx, ry \in Roundings : index' = BuildIndex(stats, rx, ry)
      BY <2>2 DEF Build
    <3>3. \A f \in File : \A r \in rows[f] : Wanted(r, asked) => r \in answer[f]
      BY <3>1 DEF OnlyTheRimIsLost
    <3>4. \A f \in File : answer[f] \subseteq {r \in rows[f] : Wanted(r, asked)}
      BY DEF OnlyTheRimIsLost
    <3>5. ASSUME asked # None, NEW f \in File, NEW r \in rows[f] \ answer[f],
                 NEW x \in r.w..r.e, NEW y \in r.s..r.n
          PROVE  ~Asks(asked, x, y)
      BY <3>3, <3>5 DEF Wanted
    <3> QED
      BY <3>1, <3>2, <3>3, <3>4, <3>5 DEF OnlyTheRimIsLost
  <2>3. ASSUME NEW b \in Bounds \cup {None}, Query(b) PROVE OnlyTheRimIsLost'
    <3>1. /\ answer' = [f \in File |-> {r \in rows[f] : f \in ReadSource(b) /\ Predicate(r, b)}]
          /\ asked' = b /\ UNCHANGED <<rows, stats, index>>
      BY <2>3 DEF Query
    <3>2. \A f \in File : \A r \in rows[f] : Predicate(r, b) <=> Wanted(r, b)
      BY PredicateIsWanted, RowsAreBoxes DEF Inv
    <3>3. \A f \in File : answer'[f] =
            {r \in rows[f] : f \in ReadSource(b) /\ Wanted(r, b)}
      BY <3>1, <3>2
    <3>4. \A f \in File : answer'[f] \subseteq {r \in rows'[f] : Wanted(r, asked')}
      BY <3>1, <3>3
    <3>5. CASE index = None \/ b = None
      <4>1. ReadSource(b) = File
        BY <3>5 DEF ReadSource
      <4> QED
        BY <3>1, <3>3, <3>4, <3>5, <4>1 DEF OnlyTheRimIsLost
    <3>6. CASE index # None /\ b # None
      <4>1. PICK rx, ry \in Roundings : index = BuildIndex(stats, rx, ry)
        BY <3>6 DEF Inv
      <4>2. rx \in Int /\ ry \in Int /\ b \in Bounds /\ ReadSource(b) = PruneFiles(index, b)
        BY <3>6, IndexAssumption DEF ReadSource
      <4>3. ASSUME NEW f \in File, NEW r \in rows[f] \ answer'[f],
                   NEW x \in r.w..r.e, NEW y \in r.s..r.n, Asks(b, x, y)
            PROVE  ~Covered(Hull({stats[g] : g \in File}), rx, ry, x, y)
        <5>1. Wanted(r, b)
          BY <4>3 DEF Wanted
        <5>2. f \notin PruneFiles(index, b)
          BY <3>3, <4>2, <4>3, <5>1
        <5> QED
          BY <3>6, <4>1, <4>2, <4>3, <5>2, LostRowsAreUncovered
      <4> QED
        BY <3>1, <3>4, <3>6, <4>1, <4>3 DEF OnlyTheRimIsLost
    <3> QED
      BY <3>5, <3>6
  <2>4. CASE UNCHANGED vars
    BY <2>4 DEF vars, OnlyTheRimIsLost
  <2> QED
    BY <2>1, <2>2, <2>3, <2>4 DEF Next
<1> QED
  BY <1>1, <1>2, InvInvariant, PTL DEF Spec
=============================================================================
