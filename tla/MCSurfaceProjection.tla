-------------------------- MODULE MCSurfaceProjection --------------------------
(* Small instances of SurfaceProjection for TLC. *)
EXTENDS SurfaceProjection

CONSTANTS b1, b2, k1, k2

BootSymmetry == Permutations({b1, b2})

(* A daemon without optional encodings, and one with all of them. *)
MCWelcomes == {{}, Encodings}
FullWelcome == {Encodings}

(* Each image fits alone and the two together do not: the byte limit bites. *)
BigSizes == (k1 :> 1) @@ (k2 :> 2)

(* Two small images of which one may be kept: the count limit bites. *)
PairSizes == (k1 :> 1) @@ (k2 :> 1)

TwoRevs == 0..1
ThreeRevs == 0..2
====
