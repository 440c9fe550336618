--------------------------- MODULE MCChangeQueue ---------------------------
(* The instance of ChangeQueue that TLC checks.                            *)
EXTENDS ChangeQueue, FiniteSets

CONSTANTS c1, c2, c3, c4, c5

MCChanges == {c1, c2, c3, c4, c5}

(***************************************************************************)
(* The tests see, of the changes of one stream, only the latest; a batch   *)
(* fails when a bad change is seen.  c1 and c2 are bad, c3 comes after c2  *)
(* in its stream and fixes it.                                             *)
(***************************************************************************)
MCBroken == {S \in SUBSET MCChanges : c1 \in S \/ (c2 \in S /\ c3 \notin S)}
=============================================================================
