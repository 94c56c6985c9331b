--------------------------- MODULE MCServingIndex ---------------------------
(* Two files on a small sphere, for TLC. *)
EXTENDS ServingIndex

(* Points on the rim of an extent, inside it, and at the antimeridian. *)
Points == {b \in RowBox : /\ b.w = b.e /\ b.w # -1
                          /\ b.s = b.n /\ b.s >= 0
                          /\ b.s = 0 \/ b.w \in {0, 2}}

Wide == {b \in RowBox : /\ b.w \in {-2, 0} /\ b.e \in {1, 2}
                        /\ b.s >= 0 /\ b.n = 1}

(* A file of one wide row, or of a point or two. *)
MCRowSets == {{r} : r \in Wide} \cup {{p, q} : p, q \in Points}

(* The last edge of the grid may also round down. *)
MCRoundings == {-1, 0, 1}
=============================================================================
