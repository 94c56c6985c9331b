---------------------------- MODULE ServingIndex ----------------------------
(***************************************************************************)
(* Spatial pruning end to end: the `index` command reads the bounding box  *)
(* of each data file (fileBboxes), package index puts the files in a grid  *)
(* (BuildIndex, PartitionFiles), and for each request ReadSource chooses   *)
(* the files DuckDB scans (PruneFiles) while store.Predicate chooses the   *)
(* rows of those files.                                                    *)
(*                                                                         *)
(* A coordinate is an integer: what matters of a float64 is its order, and *)
(* that the arithmetic of the grid rounds.  A row stands for its box, so   *)
(* ST_Intersects is the intersection of boxes.                             *)
(***************************************************************************)
EXTENDS Integers, FiniteSets

CONSTANTS
  N,            \* the number of data files
  Antimeridian, \* 180 degrees
  Pole,         \* 90 degrees
  RowSets,      \* the boxes of the rows a file may hold
  Roundings,    \* by how much the last edge of the grid may miss its extent
  None          \* "no sidecar", "no bbox in the request"

File == 1..N
Lon == (-Antimeridian)..Antimeridian
Lat == (-Pole)..Pole
Box == [w : Lon, s : Lat, e : Lon, n : Lat]

(* A row or a file: ST_XMin <= ST_XMax.  A request may also run from a     *)
(* west to an east across the antimeridian, but never to the south.        *)
RowBox == {b \in Box : b.w <= b.e /\ b.s <= b.n}

(* filter.BBox *)
Bounds == {b \in Box : b.s <= b.n}

ASSUME IndexAssumption ==
  /\ N \in Nat \ {0} /\ Antimeridian \in Nat /\ Pole \in Nat
  /\ \A R \in RowSets : R \subseteq RowBox /\ R # {}
  /\ Roundings \subseteq Int
  /\ None \notin Bounds

VARIABLES
  rows,   \* the rows of each file of the pinned snapshot
  stats,  \* the box of each file, as the index command read it
  index,  \* the serving index of the server, or None
  asked,  \* the bounds of the last request, or None
  source, \* the files its FROM clause names
  answer  \* the rows it returned, by file

vars == <<rows, stats, index, asked, source, answer>>

-----------------------------------------------------------------------------
(* Package index *)

Lobes_Plain(b) == IF b.s > b.n THEN {} ELSE {b}

(* lobes *)
Lobes(b) ==
  IF b.s > b.n THEN {}
  ELSE IF b.w <= b.e THEN {b}
  ELSE {[b EXCEPT !.e = Antimeridian], [b EXCEPT !.w = -Antimeridian]}

(* overlaps1D *)
Overlaps1D(a0, a1, b0, b1) == a0 <= b1 /\ b0 <= a1

BBoxesOverlap(a, b) ==
  \E l \in Lobes(a), m \in Lobes(b) :
    Overlaps1D(l.w, l.e, m.w, m.e) /\ Overlaps1D(l.s, l.n, m.s, m.n)

Least(S) == CHOOSE x \in S : \A y \in S : x <= y
Greatest(S) == CHOOSE x \in S : \A y \in S : y <= x

(* The smallest box around a set of boxes. *)
Hull(B) ==
  [w |-> Least({b.w : b \in B}), s |-> Least({b.s : b \in B}),
   e |-> Greatest({b.e : b \in B}), n |-> Greatest({b.n : b \in B})]

(* ceil(sqrt(N)) cells on each axis. *)
PerAxis == Least({k \in 1..N : N <= k * k})

(***************************************************************************)
(* The k-th edge of the grid, lo + k * ((hi - lo) / PerAxis).  The sum is  *)
(* exact for k = 0, and two neighbouring cells share the same rounded      *)
(* edge; but nothing makes the last one hi.                                *)
(***************************************************************************)
Edge(lo, hi, k, rounding) ==
  IF k = 0 \/ lo = hi THEN lo
  ELSE IF k = PerAxis THEN hi + rounding
  ELSE lo + (k * (hi - lo)) \div PerAxis

Cell(extent, ix, iy, rx, ry) ==
  [w |-> Edge(extent.w, extent.e, ix, rx),
   s |-> Edge(extent.s, extent.n, iy, ry),
   e |-> Edge(extent.w, extent.e, ix + 1, rx),
   n |-> Edge(extent.s, extent.n, iy + 1, ry)]

Partition(c, boxes) ==
  [bbox |-> c, files |-> {f \in File : BBoxesOverlap(c, boxes[f])}]

PartitionFiles_NoLast(extent, boxes, rx, ry) ==
  {p \in {Partition(Cell(extent, at[1], at[2], rx, ry), boxes) :
            at \in (0..(PerAxis - 2)) \X (0..(PerAxis - 2))} : p.files # {}}

(* Each cell with the files that overlap it; empty cells are left out. *)
PartitionFiles(extent, boxes, rx, ry) ==
  {p \in {Partition(Cell(extent, at[1], at[2], rx, ry), boxes) :
            at \in (0..(PerAxis - 1)) \X (0..(PerAxis - 1))} : p.files # {}}

BuildIndex(boxes, rx, ry) ==
  [stats |-> boxes,
   partitions |-> PartitionFiles(Hull({boxes[f] : f \in File}), boxes, rx, ry)]

(* The files of the cells that overlap the request and overlap it too. *)
PruneFiles(idx, b) ==
  {f \in File : /\ \E p \in idx.partitions :
                     BBoxesOverlap(p.bbox, b) /\ f \in p.files
                /\ BBoxesOverlap(idx.stats[f], b)}

-----------------------------------------------------------------------------
(* Packages filter and store *)

(* filter.BBoxOverlap *)
BBoxOverlap(r, b) ==
  /\ r.n >= b.s /\ r.s <= b.n
  /\ IF b.w <= b.e THEN r.e >= b.w /\ r.w <= b.e
                   ELSE r.e >= b.w \/ r.w <= b.e

(* filter.BBoxContained *)
BBoxContained(r, b) ==
  /\ r.s >= b.s /\ r.n <= b.n
  /\ IF b.w <= b.e THEN r.w >= b.w /\ r.e <= b.e
                   ELSE r.w >= b.w \/ r.e <= b.e

(* filter.SpatialPredicate: ST_Intersects with one envelope, or with two. *)
SpatialPredicate(r, b) ==
  /\ r.n >= b.s /\ r.s <= b.n
  /\ IF b.w > b.e
     THEN \/ r.e >= b.w /\ r.w <= Antimeridian
          \/ r.e >= -Antimeridian /\ r.w <= b.e
     ELSE r.e >= b.w /\ r.w <= b.e

(* store.Predicate on top of filter.Predicate, without layer and sources. *)
Predicate(r, b) ==
  b # None =>
    /\ SpatialPredicate(r, b)
    /\ BBoxOverlap(r, b)
    /\ BBoxContained(r, b) \/ SpatialPredicate(r, b)

(***************************************************************************)
(* store.ReadSource.  Picking every file is reading the table, and a pick  *)
(* of none is one file WHERE FALSE, which has no rows.                     *)
(***************************************************************************)
ReadSource(b) == IF index = None \/ b = None THEN File ELSE PruneFiles(index, b)

-----------------------------------------------------------------------------
Init ==
  /\ rows \in [File -> RowSets]
  /\ stats = None
  /\ index = None
  /\ asked = None
  /\ source = File
  /\ answer = rows

(* fileBboxes: min(xmin), max(xmax), min(ymin) and max(ymax) of each file,  *)
(* put in the order of a bbox.                                             *)
Footers ==
  /\ stats = None
  /\ stats' = [f \in File |-> Hull(rows[f])]
  /\ UNCHANGED <<rows, index, asked, source, answer>>

(* The sidecar is built, and a server opens the snapshot with it. *)
Build ==
  /\ stats # None /\ index = None
  /\ \E rx, ry \in Roundings : index' = BuildIndex(stats, rx, ry)
  /\ UNCHANGED <<rows, stats, asked, source, answer>>

(***************************************************************************)
(* A request of any of the handlers, with or without a bbox.  A request    *)
(* leaves nothing behind, so of all the orders of requests those are       *)
(* enough in which one with a bbox follows one without (the bound).        *)
(***************************************************************************)
Query(b) ==
  /\ asked = None \/ b = None
  /\ asked' = b
  /\ source' = ReadSource(b)
  /\ answer' = [f \in File |-> {r \in rows[f] : f \in source' /\ Predicate(r, b)}]
  /\ UNCHANGED <<rows, stats, index>>

Next == Footers \/ Build \/ \E b \in Bounds \cup {None} : Query(b)

Spec == Init /\ [][Next]_vars

-----------------------------------------------------------------------------
(* Every variable has its type; what is read before the index is there.    *)
TypeOK ==
  /\ rows \in [File -> RowSets]
  /\ stats = None \/ stats \in [File -> RowBox]
  /\ index # None => stats # None /\ index.stats = stats
  /\ asked \in Bounds \cup {None}
  /\ source \subseteq File
  /\ answer \in [File -> SUBSET RowBox]

(* A point of the sphere lies in the request, whichever way round it goes. *)
Asks(b, x, y) ==
  /\ b.s <= y /\ y <= b.n
  /\ IF b.w <= b.e THEN b.w <= x /\ x <= b.e ELSE b.w <= x \/ x <= b.e

Wanted(r, b) ==
  b # None => \E x \in r.w..r.e, y \in r.s..r.n : Asks(b, x, y)

(* The grid of an extent h covers the point x, y of it, when the last      *)
(* edges of the grid miss their ends of h by rx and ry.                    *)
Covered(h, rx, ry, x, y) ==
  /\ h.w = h.e \/ x <= h.e + rx
  /\ h.s = h.n \/ y <= h.n + ry

(***************************************************************************)
(* The answer of a request is the rows that have a point in common with it *)
(* (the two bounding-box shortcuts of the SQL lose none, at the            *)
(* antimeridian included), and PruneFiles loses a row only if all that it  *)
(* shares with the request lies on the rim of the extent that the last     *)
(* edge of the grid has missed by rounding: none, where that edge reaches  *)
(* the extent.  PruneFiles claims more ("file indices whose bbox may       *)
(* intersect bounds", index.go:102), which the sums of index.go:138 do not *)
(* keep.                                                                   *)
(***************************************************************************)
OnlyTheRimIsLost ==
  /\ \A f \in File : answer[f] \subseteq {r \in rows[f] : Wanted(r, asked)}
  /\ index = None \/ asked = None =>
       \A f \in File : \A r \in rows[f] : Wanted(r, asked) => r \in answer[f]
  /\ index # None /\ asked # None =>
       \E rx, ry \in Roundings :
         /\ index = BuildIndex(stats, rx, ry)
         /\ \A f \in File : \A r \in rows[f] \ answer[f] :
              \A x \in r.w..r.e, y \in r.s..r.n :
                Asks(asked, x, y) =>
                  ~Covered(Hull({stats[g] : g \in File}), rx, ry, x, y)
=============================================================================
