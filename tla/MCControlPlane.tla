--------------------------- MODULE MCControlPlane ----------------------------
(* Small instances of the control planes alone. *)
EXTENDS ControlPlane, TLC

CONSTANTS g1, g2

Request(val, lease) == [val |-> val, lease |-> lease, reversible |-> TRUE, known |-> TRUE]

OneRequest == {Request(1, 1)}

PlaneSymmetry == Permutations(Planes)
=============================================================================
