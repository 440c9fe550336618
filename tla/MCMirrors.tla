------------------------------ MODULE MCMirrors ------------------------------
(* Instances of Mirrors for TLC: package p2 is the next version of p1. *)
EXTENDS Mirrors

CONSTANTS p1, p2, q

MCSupersedes == [p \in Pkgs |-> IF p = p2 THEN {p1} ELSE {}]
=============================================================================
