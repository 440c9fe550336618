------------------------------ MODULE Sections ------------------------------
(***************************************************************************)
(* The deque of sections of stdci_libs/change_queue/__init__.py (_state):  *)
(* what the methods of ChangeQueue do to it.  The first section is the     *)
(* next to be tested, the last is where changes are added.                 *)
(***************************************************************************)
EXTENDS Integers, Sequences, SequencesExt

AddToLast(st, c) == [st EXCEPT ![Len(st)] = Append(@, c)]

\* Slips in AfterFailure: the halves come out in the order extendleft gives
\* them unreversed,
MutHalvesSwapped(st) ==
    LET first == Head(st)
        half  == Len(first) \div 2
    IN  IF Len(first) = 1
        THEN << FlattenSeq(Tail(st)) >>
        ELSE << SubSeq(first, half + 1, Len(first)), SubSeq(first, 1, half) >>
                \o Tail(st)

\* the sections left are not united when a culprit is found,
MutKeepSections(st) ==
    LET first == Head(st)
        half  == Len(first) \div 2
    IN  IF Len(first) = 1 /\ Len(st) > 1
        THEN Tail(st)
        ELSE << SubSeq(first, 1, half), SubSeq(first, half + 1, Len(first)) >>
                \o Tail(st)

\* or the halves are cut one too far.
MutHalfAndOne(st) ==
    LET first == Head(st)
        half  == Len(first) \div 2 + 1
    IN  IF Len(first) = 1
        THEN << FlattenSeq(Tail(st)) >>
        ELSE << SubSeq(first, 1, half), SubSeq(first, half + 1, Len(first)) >>
                \o Tail(st)

\* What on_test_failure leaves of the queue when its first section failed.
AfterFailure(st) ==
    LET first == Head(st)
        half  == Len(first) \div 2
    IN  IF Len(first) = 1
        THEN << FlattenSeq(Tail(st)) >>
        ELSE << SubSeq(first, 1, half), SubSeq(first, half + 1, Len(first)) >>
                \o Tail(st)

\* What on_test_failure blames: the one change of a section of length one.
Culprits(st) == IF Len(Head(st)) = 1 THEN Head(st) ELSE << >>
=============================================================================
