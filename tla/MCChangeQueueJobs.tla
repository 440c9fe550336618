------------------------- MODULE MCChangeQueueJobs -------------------------
(* Instances of ChangeQueueJobs for TLC.                                   *)
EXTENDS ChangeQueueJobs

CONSTANTS c1, c2, c3, c4, i1, i2, i3, i4, s1

(***************************************************************************)
(* c2 requires c1 and c4 requires c2; c1 and c3 are in one stream; c1 is   *)
(* bad, and c2 without c3.                                                 *)
(***************************************************************************)
MCId == [c \in Changes |-> (c1 :> i1 @@ c2 :> i2 @@ c3 :> i3 @@ c4 :> i4)[c]]
MCRequires == [c \in Changes |-> (c1 :> {} @@ c2 :> {i1} @@ c3 :> {} @@ c4 :> {i2})[c]]
MCStream == [c \in Changes |-> IF c \in {c1, c3} THEN s1 ELSE NoStream]
MCBroken == {S \in SUBSET Changes : c1 \in S \/ (c2 \in S /\ c3 \notin S)}
=============================================================================
