---------------------------- MODULE ChangeQueue ----------------------------
(***************************************************************************)
(* The bisecting queue of stdci_libs/change_queue/__init__.py, class       *)
(* ChangeQueue.  Changes are tested in batches; when a batch fails, the    *)
(* queue splits it in two and tests the halves until one change is left.   *)
(*                                                                         *)
(* The class is driven by calls that arrive in any order: changes are      *)
(* added while a test runs, several testers may hold the same test, and a  *)
(* verdict may arrive late or more than once.                              *)
(***************************************************************************)
EXTENDS Sections

CONSTANTS
    Changes,    \* the changes people submit
    Broken      \* the sets of changes on which the tests really fail

(***************************************************************************)
(* Bisection presumes of the tests that a failing batch has a failing      *)
(* part: a batch that fails cannot be cut into two that pass.  It does not *)
(* presume that adding changes to a failing batch keeps it failing: a fix  *)
(* later in the same stream hides the change it fixes.                     *)
(***************************************************************************)
ASSUME BrokenAssumption ==
    /\ Broken \in SUBSET SUBSET Changes
    /\ {} \notin Broken
    /\ \A S, T \in SUBSET Changes :
          S \cup T \in Broken => S \in Broken \/ T \in Broken

VARIABLES
    state,      \* _state: the sections of the queue, first to be tested first
    test_key,   \* _test_key: the key of the test under way, or NoKey
    keys,       \* how many keys were made (uuid4 never repeats one)
    handed,     \* every [key, list] a call of get_next_test returned
    added,      \* every change added, in order
    passed,     \* the batches returned as successful, in order
    failed      \* the changes returned as failed, in order

vars == <<state, test_key, keys, handed, added, passed, failed>>

NoKey == 0
-----------------------------------------------------------------------------
MutAnyKeyMatches(key) == key # NoKey

TestKeyMatch(key) == key # NoKey /\ key = test_key
-----------------------------------------------------------------------------
Init ==
    /\ state = << << >> >>
    /\ test_key = NoKey
    /\ keys = 0
    /\ handed = {}
    /\ added = << >>
    /\ passed = << >>
    /\ failed = << >>

Add(c) ==
    /\ c \notin ToSet(added)
    /\ state' = AddToLast(state, c)
    /\ added' = Append(added, c)
    /\ UNCHANGED <<test_key, keys, handed, passed, failed>>

\* Slips in get_next_test: the section under test stays open for additions,
\* and a key is made only together with the new section.
MutNoNewSection ==
    /\ Head(state) # << >>
    /\ state' = state
    /\ IF test_key = NoKey
       THEN keys' = keys + 1 /\ test_key' = keys'
       ELSE UNCHANGED <<keys, test_key>>
    /\ handed' = handed \cup {[key |-> test_key', list |-> Head(state)]}
    /\ UNCHANGED <<added, passed, failed>>
MutKeyWithSection ==
    /\ Head(state) # << >>
    /\ state' = IF Len(state) <= 1 THEN Append(state, << >>) ELSE state
    /\ IF test_key = NoKey /\ Len(state) <= 1
       THEN keys' = keys + 1 /\ test_key' = keys'
       ELSE UNCHANGED <<keys, test_key>>
    /\ handed' = handed \cup {[key |-> test_key', list |-> Head(state)]}
    /\ UNCHANGED <<added, passed, failed>>

\* With nothing in the first section the call changes and returns nothing.
GetNextTest ==
    /\ Head(state) # << >>
    /\ state' = IF Len(state) <= 1 THEN Append(state, << >>) ELSE state
    /\ IF test_key = NoKey
       THEN keys' = keys + 1 /\ test_key' = keys'
       ELSE UNCHANGED <<keys, test_key>>
    /\ handed' = handed \cup {[key |-> test_key', list |-> Head(state)]}
    /\ UNCHANGED <<added, passed, failed>>

\* A slip in on_test_success: what is left is always presumed to fail.
MutPresumeFailure(key) ==
    /\ TestKeyMatch(key)
    /\ state' = AfterFailure(Tail(state))
    /\ failed' = failed \o Culprits(Tail(state))
    /\ passed' = Append(passed, Head(state))
    /\ test_key' = NoKey
    /\ UNCHANGED <<keys, handed, added>>

OnTestSuccess(key) ==
    /\ TestKeyMatch(key)
    /\ LET rest == Tail(state)
       IN  IF Len(rest) > 1
           THEN state' = AfterFailure(rest) /\ failed' = failed \o Culprits(rest)
           ELSE state' = rest /\ UNCHANGED failed
    /\ passed' = Append(passed, Head(state))
    /\ test_key' = NoKey
    /\ UNCHANGED <<keys, handed, added>>

OnTestFailure(key) ==
    /\ TestKeyMatch(key)
    /\ state' = AfterFailure(state)
    /\ failed' = failed \o Culprits(state)
    /\ test_key' = NoKey
    /\ UNCHANGED <<keys, handed, added, passed>>

\* A verdict whose key is not the current one is ignored.
IgnoredVerdict(key) == ~TestKeyMatch(key) /\ UNCHANGED vars

(***************************************************************************)
(* Any test ever handed out may report, whatever it found, at any time and *)
(* any number of times.                                                    *)
(***************************************************************************)
Next ==
    \/ \E c \in Changes : Add(c)
    \/ GetNextTest
    \/ \E t \in handed : OnTestSuccess(t.key)
    \/ \E t \in handed : OnTestFailure(t.key)
    \/ \E t \in handed : IgnoredVerdict(t.key)

Spec == Init /\ [][Next]_vars

(* Tests whose verdict is what Broken says of the list they were handed.   *)
TruthfulSuccess == \E t \in handed : ToSet(t.list) \notin Broken /\ OnTestSuccess(t.key)
TruthfulFailure == \E t \in handed : ToSet(t.list) \in Broken /\ OnTestFailure(t.key)

TruthfulNext ==
    \/ \E c \in Changes : Add(c)
    \/ GetNextTest
    \/ TruthfulSuccess
    \/ TruthfulFailure
    \/ \E t \in handed : IgnoredVerdict(t.key)

TruthfulSpec == Init /\ [][TruthfulNext]_vars

(***************************************************************************)
(* Every call of the queue job ends by scheduling a tester, and a tester   *)
(* asks for the next test and always reports one verdict.                  *)
(***************************************************************************)
Verdict == \E t \in handed : OnTestSuccess(t.key) \/ OnTestFailure(t.key)

FairSpec == Spec /\ WF_vars(GetNextTest) /\ WF_vars(Verdict)
-----------------------------------------------------------------------------
TypeOK ==
    /\ state \in Seq(Seq(Changes)) /\ state # << >>
    /\ keys \in Nat
    /\ test_key \in 0..keys
    /\ handed \subseteq [key : 1..keys, list : Seq(Changes)]
    /\ added \in Seq(Changes)
    /\ passed \in Seq(Seq(Changes))
    /\ failed \in Seq(Changes)

(***************************************************************************)
(* Only the last section may be empty, and a section under test is never   *)
(* the last, the one that additions go to: no test is asked of an empty    *)
(* batch, no half of a failed batch is empty, and no addition slips into a *)
(* batch whose verdict is awaited.                                         *)
(***************************************************************************)
SectionsInUse ==
    /\ test_key # NoKey => Len(state) >= 2
    /\ \A i \in 1..(Len(state) - 1) : state[i] # << >>

Searching == Len(state) >= 3        \* a batch failed and was split

(***************************************************************************)
(* While a test is under way its key stands for the first section of the   *)
(* queue and for nothing else: adding changes, a second tester asking for  *)
(* the same test or a late verdict never change what the key's verdict     *)
(* will be applied to.                                                     *)
(***************************************************************************)
KeyNamesFirstSection ==
    \A t \in handed : t.key = test_key => t.list = Head(state)

(***************************************************************************)
(* Changes are judged in the order of arrival: what was returned, as       *)
(* successful or as failed, is what arrived first, each change once, and   *)
(* what is in the queue is the rest, section after section as it arrived.  *)
(***************************************************************************)
NothingLostOrReordered ==
    LET out == FlattenSeq(passed) \o failed
    IN  /\ Len(added) = Len(out) + Len(FlattenSeq(state))
        /\ ToSet(out) = ToSet(SubSeq(added, 1, Len(out)))
        /\ FlattenSeq(state) = SubSeq(added, Len(out) + 1, Len(added))

(***************************************************************************)
(* on_test_success blames the section after the one that passed without    *)
(* testing it.  That is right because, while a failed batch is being       *)
(* searched, its two first sections fail together.                         *)
(***************************************************************************)
SuspectsFail == Searching => ToSet(state[1]) \cup ToSet(state[2]) \in Broken

\* What the queue returns as successful passed its test as a batch ...
OnlySoundBatchesPass == \A i \in 1..Len(passed) : ToSet(passed[i]) \notin Broken

\* ... and a change it returns as the culprit fails on its own.
OnlyCulpritsFail == \A i \in 1..Len(failed) : {failed[i]} \in Broken

(***************************************************************************)
(* Every change added is returned in the end, however often the testers    *)
(* are wrong.                                                              *)
(***************************************************************************)
EveryChangeIsJudged ==
    \A c \in Changes :
        c \in ToSet(added) ~> c \in ToSet(FlattenSeq(passed) \o failed)
-----------------------------------------------------------------------------
(***************************************************************************)
(* With truthful tests the queue implements the gate: its sections in      *)
(* order are what is pending, and each call either judges a run of changes *)
(* from its front or changes nothing there.                                *)
(***************************************************************************)
Gate == INSTANCE ChangeGate WITH pending <- FlattenSeq(state)
ImplementsGate == Gate!GateSpec
=============================================================================
