---------------------------- MODULE ChangeGate ----------------------------
(***************************************************************************)
(* What a change queue promises, with no sections, keys or testers: the    *)
(* changes pending are judged first come first served; what is let through *)
(* is a run of them that passes the tests together, and what is turned     *)
(* away is a change that fails them on its own.                            *)
(***************************************************************************)
EXTENDS Integers, Sequences, SequencesExt

CONSTANTS Changes, Broken

VARIABLES pending, passed, failed

gateVars == <<pending, passed, failed>>

GateInit == pending = << >> /\ passed = << >> /\ failed = << >>

Submit(c) ==
    /\ pending' = Append(pending, c)
    /\ UNCHANGED <<passed, failed>>

LetThrough(n) ==
    LET batch == SubSeq(pending, 1, n)
    IN  /\ ToSet(batch) \notin Broken
        /\ passed' = Append(passed, batch)

TurnAway(c) ==
    /\ {c} \in Broken
    /\ failed' = Append(failed, c)

\* The first n pass; the change after them may be turned away with them.
Judge(n) ==
    \/ /\ n > 0
       /\ LetThrough(n)
       /\ pending' = SubSeq(pending, n + 1, Len(pending))
       /\ UNCHANGED failed
    \/ /\ n < Len(pending)
       /\ IF n > 0 THEN LetThrough(n) ELSE UNCHANGED passed
       /\ TurnAway(pending[n + 1])
       /\ pending' = SubSeq(pending, n + 2, Len(pending))

GateNext ==
    \/ \E c \in Changes : Submit(c)
    \/ \E n \in 0..Len(pending) : Judge(n)

GateSpec == GateInit /\ [][GateNext]_gateVars
=============================================================================
