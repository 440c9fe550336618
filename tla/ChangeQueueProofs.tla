------------------------- MODULE ChangeQueueProofs -------------------------
(***************************************************************************)
(* Proofs about ChangeQueue, for every set of changes and whatever sets of *)
(* them the tests fail on.                                                 *)
(***************************************************************************)
EXTENDS ChangeQueue, Lemmas

-----------------------------------------------------------------------------
(***************************************************************************)
(* TypeOK is inductive only with the shape of the deque: on_test_success   *)
(* needs a second section to be left with, and a half of a section is      *)
(* never empty only if no section but the last is.                         *)
(***************************************************************************)
Inv == TypeOK /\ SectionsInUse /\ KeyNamesFirstSection

LEMMA InitInv == Init => Inv
BY DEF Init, Inv, TypeOK, SectionsInUse, KeyNamesFirstSection, NoKey

LEMMA AddInv ==
    ASSUME Inv, NEW c \in Changes, Add(c)
    PROVE  Inv'
<1> USE DEF Inv, TypeOK, SectionsInUse, KeyNamesFirstSection
<1>1. PICK U : U = Seq(Changes)
  OBVIOUS
<1>2. PICK s : s = Append(state[Len(state)], c)
  OBVIOUS
<1>3. state[Len(state)] \in Seq(Changes) /\ Len(state) \in Nat \ {0}
  OBVIOUS
<1>4. s \in U
  BY <1>1, <1>2, <1>3, AppendProperties
<1>5. state' = [state EXCEPT ![Len(state)] = s]
  BY <1>2, Zenon DEF Add, AddToLast
<1>6. /\ state' \in Seq(U) /\ Len(state') = Len(state)
      /\ \A i \in 1..(Len(state) - 1) : state'[i] = state[i]
  BY <1>1, <1>3, <1>4, <1>5
<1>7. added' \in Seq(Changes) /\ UNCHANGED <<test_key, keys, handed, passed, failed>>
  BY DEF Add
<1>8. test_key # NoKey => Head(state') = Head(state)
  <2>1. SUFFICES ASSUME test_key # NoKey PROVE Head(state') = Head(state)
    OBVIOUS
  <2>2. 1 \in 1..(Len(state) - 1)
    BY <1>3, <2>1
  <2> QED BY <1>1, <1>6, <2>2
<1>9. TypeOK'
  BY <1>1, <1>3, <1>6, <1>7
<1>10. SectionsInUse'
  BY <1>6, <1>7
<1>11. KeyNamesFirstSection'
  BY <1>7, <1>8 DEF NoKey
<1> QED BY <1>9, <1>10, <1>11

LEMMA GetNextTestInv ==
    ASSUME Inv, GetNextTest
    PROVE  Inv'
<1> USE DEF Inv, TypeOK, SectionsInUse, KeyNamesFirstSection
<1>1. Len(state) \in Nat \ {0} /\ state[1] \in Seq(Changes) /\ Head(state) = state[1]
  OBVIOUS
<1>2. /\ state' \in Seq(Seq(Changes)) /\ state' # << >>
      /\ Head(state') = Head(state) /\ Len(state') >= 2
      /\ \A i \in 1..(Len(state') - 1) : state'[i] = state[i] /\ state[i] # << >>
  <2>1. CASE Len(state) <= 1
    <3>1. state' = Append(state, << >>)
      BY <2>1 DEF GetNextTest
    <3>2. PICK U : U = Seq(Changes)
      OBVIOUS
    <3>3. << >> \in U
      BY <3>2
    <3>4. PICK e : e = << >>
      OBVIOUS
    <3>5. /\ state' \in Seq(U) /\ Len(state') = 2 /\ state'[1] = state[1]
      BY <1>1, <2>1, <3>1, <3>2, <3>3, AppendProperties
    <3>6. state[1] # << >>
      BY <1>1 DEF GetNextTest
    <3>7. Head(state') = state'[1] /\ state' # << >>
      <4>1. state' \in Seq(U) /\ Len(state') >= 1
        BY <3>5
      <4> QED BY <4>1, HeadIsFirst, Zenon
    <3> QED BY <1>1, <3>2, <3>5, <3>6, <3>7
  <2>2. CASE ~(Len(state) <= 1)
    <3>1. state' = state
      BY <2>2 DEF GetNextTest
    <3> QED BY <1>1, <2>2, <3>1
  <2> QED BY <2>1, <2>2
<1>3. PICK k, l : k = test_key' /\ l = Head(state)
  OBVIOUS
<1>4. /\ keys' \in Nat /\ k \in 1..keys' /\ keys <= keys'
      /\ k = test_key \/ k > keys
  BY <1>3 DEF GetNextTest, NoKey
<1>5. handed' = handed \cup {[key |-> k, list |-> l]}
  BY <1>3 DEF GetNextTest
<1>6. l \in Seq(Changes)
  BY <1>1, <1>3
<1>7. handed' \subseteq [key : 1..keys', list : Seq(Changes)]
  BY <1>4, <1>5, <1>6
<1>8. TypeOK'
  BY <1>2, <1>3, <1>4, <1>7 DEF GetNextTest
<1>9. SectionsInUse'
  BY <1>2
<1>10. KeyNamesFirstSection'
  <2>1. SUFFICES ASSUME NEW t \in handed', t.key = test_key'
                 PROVE  t.list = Head(state')
    OBVIOUS
  <2>2. CASE t \in handed
    BY <1>2, <1>3, <1>4, <2>1, <2>2
  <2>3. CASE t = [key |-> k, list |-> l]
    BY <1>2, <1>3, <2>3
  <2> QED BY <1>5, <2>1, <2>2, <2>3
<1> QED BY <1>8, <1>9, <1>10

LEMMA OnTestFailureInv ==
    ASSUME Inv, NEW key, OnTestFailure(key)
    PROVE  Inv'
<1> USE DEF Inv, TypeOK, SectionsInUse, KeyNamesFirstSection
<1>1. test_key # NoKey /\ Len(state) >= 2
  BY DEF OnTestFailure, TestKeyMatch
<1>2. /\ AfterFailure(state) \in Seq(Seq(Changes))
      /\ AfterFailure(state) # << >>
      /\ \A i \in 1..(Len(AfterFailure(state)) - 1) : AfterFailure(state)[i] # << >>
      /\ Culprits(state) \in Seq(Changes)
  BY <1>1, AfterFailureShape
<1>3. /\ state' = AfterFailure(state) /\ failed' = failed \o Culprits(state)
      /\ test_key' = NoKey /\ UNCHANGED <<keys, handed, added, passed>>
  BY DEF OnTestFailure
<1>4. failed' \in Seq(Changes)
  BY <1>2, <1>3
<1> QED BY <1>2, <1>3, <1>4 DEF NoKey

LEMMA OnTestSuccessInv ==
    ASSUME Inv, NEW key, OnTestSuccess(key)
    PROVE  Inv'
<1> USE DEF Inv, TypeOK, SectionsInUse, KeyNamesFirstSection
<1>1. PICK rest : rest = Tail(state)
  OBVIOUS
<1>2. test_key # NoKey /\ Len(state) >= 2
  BY DEF OnTestSuccess, TestKeyMatch
<1>3. /\ rest \in Seq(Seq(Changes)) /\ rest # << >>
      /\ Len(rest) = Len(state) - 1
      /\ \A i \in 1..(Len(state) - 1) : rest[i] = state[i + 1]
  BY <1>1, <1>2, TailShape
<1>4. ASSUME NEW i \in 1..(Len(rest) - 1) PROVE rest[i] # << >>
  <2>1. i \in 1..(Len(state) - 1) /\ i + 1 \in 1..(Len(state) - 1)
    BY <1>2, <1>3
  <2>2. state[i + 1] # << >>
    BY <2>1
  <2> QED BY <1>3, <2>1, <2>2, Zenon
<1>5. /\ IF Len(rest) > 1
         THEN state' = AfterFailure(rest) /\ failed' = failed \o Culprits(rest)
         ELSE state' = rest /\ UNCHANGED failed
      /\ passed' = Append(passed, Head(state))
      /\ test_key' = NoKey /\ UNCHANGED <<keys, handed, added>>
  BY <1>1 DEF OnTestSuccess
<1>6. /\ state' \in Seq(Seq(Changes)) /\ state' # << >>
      /\ \A i \in 1..(Len(state') - 1) : state'[i] # << >>
      /\ failed' \in Seq(Changes)
  <2>1. CASE Len(rest) > 1
    <3>1. /\ AfterFailure(rest) \in Seq(Seq(Changes))
          /\ AfterFailure(rest) # << >>
          /\ \A i \in 1..(Len(AfterFailure(rest)) - 1) : AfterFailure(rest)[i] # << >>
          /\ Culprits(rest) \in Seq(Changes)
      <4>1. Len(rest) >= 2
        BY <1>3, <2>1
      <4> QED BY <1>3, <1>4, <4>1, AfterFailureShape, Zenon
    <3>2. state' = AfterFailure(rest) /\ failed' = failed \o Culprits(rest)
      BY <1>5, <2>1
    <3>3. failed' \in Seq(Changes)
      BY <3>1, <3>2
    <3> QED BY <3>1, <3>2, <3>3, Zenon
  <2>2. CASE ~(Len(rest) > 1)
    BY <1>3, <1>4, <1>5, <2>2
  <2> QED BY <2>1, <2>2
<1>7. passed' \in Seq(Seq(Changes))
  <2>1. PICK U : U = Seq(Changes)
    OBVIOUS
  <2>2. Head(state) \in U /\ passed \in Seq(U)
    BY <2>1
  <2> QED BY <1>5, <2>1, <2>2, AppendProperties, Zenon
<1> QED BY <1>5, <1>6, <1>7 DEF NoKey

LEMMA NextInv == ASSUME Inv, [Next]_vars PROVE Inv'
<1>1. CASE Next
  <2>1. CASE \E c \in Changes : Add(c)
    BY <2>1, AddInv
  <2>2. CASE GetNextTest
    BY <2>2, GetNextTestInv
  <2>3. CASE \E t \in handed : OnTestSuccess(t.key)
    BY <2>3, OnTestSuccessInv
  <2>4. CASE \E t \in handed : OnTestFailure(t.key)
    BY <2>4, OnTestFailureInv
  <2>5. CASE \E t \in handed : IgnoredVerdict(t.key)
    BY <2>5 DEF IgnoredVerdict, vars, Inv, TypeOK, SectionsInUse, KeyNamesFirstSection
  <2> QED BY <1>1, <2>1, <2>2, <2>3, <2>4, <2>5 DEF Next
<1>2. CASE UNCHANGED vars
  BY <1>2 DEF vars, Inv, TypeOK, SectionsInUse, KeyNamesFirstSection
<1> QED BY <1>1, <1>2

LEMMA SpecInv == Spec => []Inv
<1>1. Init => Inv
  BY InitInv
<1>2. Inv /\ [Next]_vars => Inv'
  BY NextInv
<1> QED BY <1>1, <1>2, PTL DEF Spec

(***************************************************************************)
(* The variables keep their types: in particular on_test_success always    *)
(* has a section left after the one that passed, so popleft never empties  *)
(* the deque.                                                              *)
(***************************************************************************)
THEOREM TypeCorrect == Spec => []TypeOK
BY SpecInv, PTL DEF Inv

(***************************************************************************)
(* No empty batch is ever tested and no half of a failed batch is empty,   *)
(* and a section under test is never the one additions go to.              *)
(***************************************************************************)
THEOREM SectionsAreInUse == Spec => []SectionsInUse
BY SpecInv, PTL DEF Inv

(***************************************************************************)
(* A key stands for the list it was handed out with, for as long as it is  *)
(* current, whatever is added, asked or reported meanwhile.                *)
(***************************************************************************)
THEOREM KeysNameFirstSection == Spec => []KeyNamesFirstSection
BY SpecInv, PTL DEF Inv

-----------------------------------------------------------------------------
(***************************************************************************)
(* With verdicts that are true of the list handed out.  The invariant that *)
(* carries the search is SuspectsFail: what on_test_success presumes to    *)
(* fail without testing it really does.                                    *)
(***************************************************************************)
Sound == SuspectsFail /\ OnlySoundBatchesPass /\ OnlyCulpritsFail

TruthfulInv == Inv /\ Sound

LEMMA InitSound == Init => Sound
BY DEF Init, Sound, SuspectsFail, Searching, OnlySoundBatchesPass, OnlyCulpritsFail

(***************************************************************************)
(* Splitting a section that fails leaves two suspects that fail together,  *)
(* or names a culprit that fails on its own.                               *)
(***************************************************************************)
LEMMA SplitSound ==
    ASSUME NEW st \in Seq(Seq(Changes)), Len(st) >= 2,
           ToSet(st[1]) \in Broken, st[1] # << >>
    PROVE  /\ Len(AfterFailure(st)) >= 3 =>
                 ToSet(AfterFailure(st)[1]) \cup ToSet(AfterFailure(st)[2]) \in Broken
           /\ Culprits(st) \in Seq(Changes)
           /\ \A i \in 1..Len(Culprits(st)) : {Culprits(st)[i]} \in Broken
<1>1. st[1] \in Seq(Changes) /\ Head(st) = st[1] /\ st # << >>
  OBVIOUS
<1>2. Len(st[1]) \in Nat \ {0}
  BY <1>1
<1>3. CASE Len(st[1]) = 1
  <2>1. Len(AfterFailure(st)) = 1
    BY <1>1, <1>3, AfterCulprit
  <2>2. Culprits(st) = st[1]
    BY <1>1, <1>3, Zenon DEF Culprits
  <2>3. {st[1][1]} \in Broken
    BY <1>1, <1>3, SetOfOne
  <2>4. ~(Len(AfterFailure(st)) >= 3)
    BY <2>1
  <2>5. \A i \in 1..Len(st[1]) : i = 1
    BY <1>3
  <2> QED BY <1>1, <2>2, <2>3, <2>4, <2>5, Zenon
<1>4. CASE Len(st[1]) # 1
  <2>1. AfterFailure(st)[1] = First(st[1]) /\ AfterFailure(st)[2] = Second(st[1])
    BY <1>1, <1>2, <1>4, AfterSplit
  <2>2. ToSet(First(st[1])) \cup ToSet(Second(st[1])) = ToSet(st[1])
    BY <1>1, <1>2, <1>4, Halves
  <2>3. Culprits(st) = << >>
    BY <1>1, <1>4, Zenon DEF Culprits
  <2>4. << >> \in Seq(Changes) /\ 1..Len(<< >>) = {}
    OBVIOUS
  <2>5. ToSet(AfterFailure(st)[1]) \cup ToSet(AfterFailure(st)[2]) \in Broken
    BY <2>1, <2>2
  <2> QED BY <2>3, <2>4, <2>5, Zenon
<1> QED BY <1>3, <1>4

\* Culprits that fail on their own, put after others that do.
LEMMA MoreCulprits ==
    ASSUME NEW s \in Seq(Changes), NEW t \in Seq(Changes),
           \A i \in 1..Len(s) : {s[i]} \in Broken,
           \A i \in 1..Len(t) : {t[i]} \in Broken
    PROVE  \A i \in 1..Len(s \o t) : {(s \o t)[i]} \in Broken
<1>1. SUFFICES ASSUME NEW i \in 1..Len(s \o t)
               PROVE  {(s \o t)[i]} \in Broken
  OBVIOUS
<1>2. CASE i <= Len(s)
  <2>1. i \in 1..Len(s) /\ (s \o t)[i] = s[i]
    BY <1>2
  <2> QED BY <2>1
<1>3. CASE i > Len(s)
  <2>1. i - Len(s) \in 1..Len(t) /\ (s \o t)[i] = t[i - Len(s)]
    BY <1>3
  <2> QED BY <2>1
<1> QED BY <1>1, <1>2, <1>3

LEMMA AddSound ==
    ASSUME TruthfulInv, NEW c \in Changes, Add(c)
    PROVE  Sound'
<1> USE DEF TruthfulInv, Inv, TypeOK, Sound
<1>1. PICK U, s : U = Seq(Changes) /\ s = Append(state[Len(state)], c)
  OBVIOUS
<1>2. state[Len(state)] \in Seq(Changes) /\ Len(state) \in Nat \ {0}
  OBVIOUS
<1>3. s \in U
  BY <1>1, <1>2, AppendProperties
<1>4. state' = [state EXCEPT ![Len(state)] = s]
  BY <1>1, Zenon DEF Add, AddToLast
<1>5. Len(state') = Len(state) /\ \A i \in 1..(Len(state) - 1) : state'[i] = state[i]
  BY <1>1, <1>2, <1>3, <1>4
<1>6. SuspectsFail'
  <2>1. SUFFICES ASSUME Len(state) >= 3
                 PROVE  ToSet(state'[1]) \cup ToSet(state'[2]) \in Broken
    BY <1>5 DEF SuspectsFail, Searching
  <2>2. state'[1] = state[1] /\ state'[2] = state[2]
    BY <1>5, <2>1
  <2> QED BY <2>1, <2>2, Zenon DEF SuspectsFail, Searching
<1>7. OnlySoundBatchesPass' /\ OnlyCulpritsFail'
  BY DEF Add, OnlySoundBatchesPass, OnlyCulpritsFail
<1> QED BY <1>6, <1>7

LEMMA GetNextTestSound ==
    ASSUME TruthfulInv, GetNextTest
    PROVE  Sound'
<1> USE DEF TruthfulInv, Inv, TypeOK, Sound
<1>1. SuspectsFail'
  <2>1. CASE Len(state) <= 1
    <3>1. PICK U, e : U = Seq(Changes) /\ e = << >>
      OBVIOUS
    <3>2. state' = Append(state, e) /\ e \in U /\ state \in Seq(U)
      BY <2>1, <3>1 DEF GetNextTest
    <3>3. Len(state') = Len(state) + 1 /\ Len(state) \in Nat
      BY <3>2, AppendProperties
    <3>4. ~(Len(state') >= 3)
      BY <2>1, <3>3
    <3> QED BY <3>4, Zenon DEF SuspectsFail, Searching
  <2>2. CASE ~(Len(state) <= 1)
    BY <2>2 DEF GetNextTest, SuspectsFail, Searching
  <2> QED BY <2>1, <2>2
<1>2. OnlySoundBatchesPass' /\ OnlyCulpritsFail'
  BY DEF GetNextTest, OnlySoundBatchesPass, OnlyCulpritsFail
<1> QED BY <1>1, <1>2

LEMMA FailureSound ==
    ASSUME TruthfulInv, TruthfulFailure
    PROVE  Sound'
<1> USE DEF TruthfulInv, Inv, Sound
<1>1. PICK t \in handed : ToSet(t.list) \in Broken /\ OnTestFailure(t.key)
  BY DEF TruthfulFailure
<1>2. t.key = test_key /\ test_key # NoKey
  BY <1>1 DEF OnTestFailure, TestKeyMatch
<1>3. t.list = Head(state) /\ Len(state) >= 2
  BY <1>2 DEF KeyNamesFirstSection, SectionsInUse
<1>4. state \in Seq(Seq(Changes)) /\ Head(state) = state[1] /\ state[1] # << >>
  BY <1>3 DEF TypeOK, SectionsInUse
<1>5. /\ Len(AfterFailure(state)) >= 3 =>
            ToSet(AfterFailure(state)[1]) \cup ToSet(AfterFailure(state)[2]) \in Broken
      /\ Culprits(state) \in Seq(Changes)
      /\ \A i \in 1..Len(Culprits(state)) : {Culprits(state)[i]} \in Broken
  <2>1. ToSet(state[1]) \in Broken
    BY <1>1, <1>3, <1>4
  <2> QED BY <1>3, <1>4, <2>1, SplitSound
<1>6. state' = AfterFailure(state) /\ failed' = failed \o Culprits(state) /\ passed' = passed
  BY <1>1 DEF OnTestFailure
<1>7. SuspectsFail'
  BY <1>5, <1>6, Zenon DEF SuspectsFail, Searching
<1>8. OnlySoundBatchesPass'
  BY <1>6 DEF OnlySoundBatchesPass
<1>9. OnlyCulpritsFail'
  <2>1. failed \in Seq(Changes)
    BY DEF TypeOK
  <2> QED BY <1>5, <1>6, <2>1, MoreCulprits DEF OnlyCulpritsFail
<1> QED BY <1>7, <1>8, <1>9

\* Of two suspects that fail together, when the first passes the second fails.
LEMMA OtherSuspect ==
    ASSUME NEW s \in Seq(Changes), NEW t \in Seq(Changes),
           ToSet(s) \cup ToSet(t) \in Broken, ToSet(s) \notin Broken
    PROVE  ToSet(t) \in Broken
<1>1. ToSet(s) \in SUBSET Changes /\ ToSet(t) \in SUBSET Changes
  BY DEF ToSet
<1> QED BY <1>1, BrokenAssumption DEF BrokenAssumption

LEMMA SuccessSound ==
    ASSUME TruthfulInv, TruthfulSuccess
    PROVE  Sound'
<1> USE DEF TruthfulInv, Inv, Sound
<1>1. PICK t \in handed : ToSet(t.list) \notin Broken /\ OnTestSuccess(t.key)
  BY DEF TruthfulSuccess
<1>2. t.key = test_key /\ test_key # NoKey
  BY <1>1 DEF OnTestSuccess, TestKeyMatch
<1>3. t.list = Head(state) /\ Len(state) >= 2
  BY <1>2 DEF KeyNamesFirstSection, SectionsInUse
<1>4. state \in Seq(Seq(Changes)) /\ Head(state) = state[1] /\ state[1] \in Seq(Changes)
  BY <1>3 DEF TypeOK
<1>5. ToSet(state[1]) \notin Broken
  BY <1>1, <1>3, <1>4
<1>6. PICK rest : rest = Tail(state)
  OBVIOUS
<1>7. /\ rest \in Seq(Seq(Changes)) /\ Len(rest) = Len(state) - 1
      /\ \A i \in 1..(Len(state) - 1) : rest[i] = state[i + 1]
  BY <1>3, <1>4, <1>6, TailShape
<1>8. /\ IF Len(rest) > 1
         THEN state' = AfterFailure(rest) /\ failed' = failed \o Culprits(rest)
         ELSE state' = rest /\ UNCHANGED failed
      /\ passed' = Append(passed, state[1])
  BY <1>1, <1>4, <1>6 DEF OnTestSuccess
<1>9. SuspectsFail' /\ OnlyCulpritsFail'
  <2>1. CASE Len(rest) > 1
    <3>1. Len(rest) >= 2 /\ Len(state) >= 3 /\ 1 \in 1..(Len(state) - 1)
          /\ 2 \in 1..(Len(state) - 1)
      BY <1>7, <2>1
    <3>2. rest[1] = state[2] /\ state[2] \in Seq(Changes) /\ state[2] # << >>
      BY <1>4, <1>7, <3>1 DEF SectionsInUse
    <3>3. ToSet(state[1]) \cup ToSet(state[2]) \in Broken
      BY <3>1, Zenon DEF SuspectsFail, Searching
    <3>4. ToSet(rest[1]) \in Broken
      BY <1>4, <1>5, <3>2, <3>3, OtherSuspect
    <3>5. /\ Len(AfterFailure(rest)) >= 3 =>
                ToSet(AfterFailure(rest)[1]) \cup ToSet(AfterFailure(rest)[2]) \in Broken
          /\ Culprits(rest) \in Seq(Changes)
          /\ \A i \in 1..Len(Culprits(rest)) : {Culprits(rest)[i]} \in Broken
      BY <1>7, <3>1, <3>2, <3>4, SplitSound
    <3>6. state' = AfterFailure(rest) /\ failed' = failed \o Culprits(rest)
      BY <1>8, <2>1
    <3>7. SuspectsFail'
      BY <3>5, <3>6, Zenon DEF SuspectsFail, Searching
    <3>8. failed \in Seq(Changes)
      BY DEF TypeOK
    <3> QED BY <3>5, <3>6, <3>7, <3>8, MoreCulprits DEF OnlyCulpritsFail
  <2>2. CASE ~(Len(rest) > 1)
    <3>1. state' = rest /\ failed' = failed /\ ~(Len(rest) >= 3)
      BY <1>7, <1>8, <2>2
    <3> QED BY <3>1, Zenon DEF SuspectsFail, Searching, OnlyCulpritsFail
  <2> QED BY <2>1, <2>2
<1>10. OnlySoundBatchesPass'
  <2>1. PICK U : U = Seq(Changes)
    OBVIOUS
  <2>2. passed \in Seq(U) /\ state[1] \in U
    BY <1>4, <2>1 DEF TypeOK
  <2>3. /\ Len(passed') = Len(passed) + 1 /\ Len(passed) \in Nat
        /\ passed'[Len(passed) + 1] = state[1]
        /\ \A i \in 1..Len(passed) : passed'[i] = passed[i]
    BY <1>8, <2>2, AppendProperties
  <2>4. SUFFICES ASSUME NEW i \in 1..Len(passed') PROVE ToSet(passed'[i]) \notin Broken
    BY DEF OnlySoundBatchesPass
  <2>5. i \in 1..Len(passed) \/ i = Len(passed) + 1
    BY <2>3
  <2>6. CASE i \in 1..Len(passed)
    BY <2>3, <2>6 DEF OnlySoundBatchesPass
  <2>7. CASE i = Len(passed) + 1
    BY <1>5, <2>3, <2>7
  <2> QED BY <2>5, <2>6, <2>7
<1> QED BY <1>9, <1>10

LEMMA TruthfulNextIsNext == TruthfulNext => Next
BY Zenon DEF TruthfulNext, Next, TruthfulSuccess, TruthfulFailure

LEMMA TruthfulNextSound == ASSUME TruthfulInv, TruthfulNext PROVE Sound'
<1>1. CASE \E c \in Changes : Add(c)
  BY <1>1, AddSound
<1>2. CASE GetNextTest
  BY <1>2, GetNextTestSound
<1>3. CASE TruthfulSuccess
  BY <1>3, SuccessSound
<1>4. CASE TruthfulFailure
  BY <1>4, FailureSound
<1>5. CASE \E t \in handed : IgnoredVerdict(t.key)
  BY <1>5 DEF IgnoredVerdict, vars, TruthfulInv, Sound, SuspectsFail, Searching,
              OnlySoundBatchesPass, OnlyCulpritsFail
<1> QED BY <1>1, <1>2, <1>3, <1>4, <1>5 DEF TruthfulNext

LEMMA TruthfulNextInv == ASSUME TruthfulInv, [TruthfulNext]_vars PROVE TruthfulInv'
<1>1. Inv'
  <2>1. Inv /\ [Next]_vars
    BY TruthfulNextIsNext DEF TruthfulInv
  <2> QED BY <2>1, NextInv
<1>2. ASSUME UNCHANGED vars PROVE Sound'
  BY <1>2 DEF vars, TruthfulInv, Sound, SuspectsFail, Searching,
              OnlySoundBatchesPass, OnlyCulpritsFail
<1> QED BY <1>1, <1>2, TruthfulNextSound DEF TruthfulInv

LEMMA TruthfulSpecInv == TruthfulSpec => []TruthfulInv
<1>1. Init => TruthfulInv
  BY InitInv, InitSound DEF TruthfulInv
<1>2. TruthfulInv /\ [TruthfulNext]_vars => TruthfulInv'
  BY TruthfulNextInv
<1> QED BY <1>1, <1>2, PTL DEF TruthfulSpec

(***************************************************************************)
(* While a failed batch is being searched its first two sections fail      *)
(* together, which is what lets on_test_success blame the second when the  *)
(* first passes, without testing it.                                       *)
(***************************************************************************)
THEOREM SuspectsReallyFail == TruthfulSpec => []SuspectsFail
BY TruthfulSpecInv, PTL DEF TruthfulInv, Sound

(***************************************************************************)
(* Every batch on_test_success returned as successful passes its tests.    *)
(***************************************************************************)
THEOREM PassedBatchesAreSound == TruthfulSpec => []OnlySoundBatchesPass
BY TruthfulSpecInv, PTL DEF TruthfulInv, Sound

(***************************************************************************)
(* Every change the queue returned as failed, by a test of its own or by   *)
(* the presumption of on_test_success, fails on its own.                   *)
(***************************************************************************)
THEOREM BlamedChangesAreCulprits == TruthfulSpec => []OnlyCulpritsFail
BY TruthfulSpecInv, PTL DEF TruthfulInv, Sound

-----------------------------------------------------------------------------
(***************************************************************************)
(* The order of arrival, whatever the tests report.  The inductive form of *)
(* NothingLostOrReordered says that the changes added are a run that has   *)
(* been judged followed by the queue.  It rests on one fact about what a   *)
(* failure does: read in order, the queue is what is blamed followed by    *)
(* what is left.                                                           *)
(***************************************************************************)
LEMMA FailureEffect ==
    ASSUME Inv, NEW key, OnTestFailure(key)
    PROVE  \E c \in Seq(Changes) :
               /\ c = << >> \/ Len(c) = 1
               /\ FlattenSeq(state) = Cat(c, FlattenSeq(state'))
               /\ failed' = failed \o c
               /\ UNCHANGED <<added, passed>>
<1>1. Inv'
  BY OnTestFailureInv
<1>2. state' = AfterFailure(state) /\ state' \in Seq(Seq(Changes))
      /\ failed' = failed \o Culprits(state) /\ UNCHANGED <<added, passed>>
  BY <1>1 DEF Inv, TypeOK, OnTestFailure
<1>3. state \in Seq(Seq(Changes)) /\ state # << >> /\ Head(state) # << >>
  <2>1. state \in Seq(Seq(Changes)) /\ Len(state) >= 2 /\ state[1] # << >>
    BY DEF Inv, TypeOK, SectionsInUse, OnTestFailure, TestKeyMatch
  <2> QED BY <2>1
<1>4. /\ FlattenSeq(state) = Cat(Culprits(state), FlattenSeq(AfterFailure(state)))
      /\ Culprits(state) \in Seq(Changes)
      /\ Culprits(state) = << >> \/ Len(Culprits(state)) = 1
  BY <1>2, <1>3, FailureKeepsOrder, Zenon
<1> QED BY <1>2, <1>4, Zenon

LEMMA SuccessEffect ==
    ASSUME Inv, NEW key, OnTestSuccess(key)
    PROVE  \E c \in Seq(Changes) :
               /\ c = << >> \/ Len(c) = 1
               /\ FlattenSeq(state) = Cat(Head(state), Cat(c, FlattenSeq(state')))
               /\ Head(state) \in Seq(Changes) /\ Head(state) # << >>
               /\ passed' = Append(passed, Head(state))
               /\ failed' = failed \o c
               /\ UNCHANGED added
<1>1. Inv'
  BY OnTestSuccessInv
<1>2. PICK rest : rest = Tail(state)
  OBVIOUS
<1>3. /\ IF Len(rest) > 1
         THEN state' = AfterFailure(rest) /\ failed' = failed \o Culprits(rest)
         ELSE state' = rest /\ UNCHANGED failed
      /\ passed' = Append(passed, Head(state)) /\ UNCHANGED added
  BY <1>2 DEF OnTestSuccess
<1>4. state \in Seq(Seq(Changes)) /\ Len(state) >= 2 /\ state # << >>
      /\ Head(state) = state[1] /\ state[1] \in Seq(Changes) /\ state[1] # << >>
  BY DEF Inv, TypeOK, SectionsInUse, OnTestSuccess, TestKeyMatch
<1>5. /\ rest \in Seq(Seq(Changes)) /\ rest # << >> /\ Len(rest) = Len(state) - 1
      /\ \A i \in 1..(Len(state) - 1) : rest[i] = state[i + 1]
  BY <1>2, <1>4, TailShape
<1>6. FlattenSeq(state) = Cat(Head(state), FlattenSeq(rest))
  BY <1>2, <1>4, FlattenHead, Zenon
<1>7. CASE Len(rest) > 1
  <2>1. Head(rest) # << >>
    <3>1. 1 \in 1..(Len(state) - 1) /\ 2 \in 1..(Len(state) - 1) /\ Len(rest) >= 1
      BY <1>4, <1>5, <1>7
    <3>2. state[2] # << >>
      BY <3>1 DEF Inv, SectionsInUse
    <3>3. Head(rest) = rest[1] /\ rest[1] = state[2]
      BY <1>5, <3>1
    <3> QED BY <3>2, <3>3
  <2>2. state' = AfterFailure(rest) /\ state' \in Seq(Seq(Changes))
        /\ failed' = failed \o Culprits(rest)
    BY <1>1, <1>3, <1>7 DEF Inv, TypeOK
  <2>3. /\ FlattenSeq(rest) = Cat(Culprits(rest), FlattenSeq(AfterFailure(rest)))
        /\ Culprits(rest) \in Seq(Changes)
        /\ Culprits(rest) = << >> \/ Len(Culprits(rest)) = 1
    BY <1>5, <2>1, <2>2, FailureKeepsOrder, Zenon
  <2> QED BY <1>3, <1>4, <1>6, <2>2, <2>3, Zenon
<1>8. CASE ~(Len(rest) > 1)
  <2>1. state' = rest /\ failed' = failed
    BY <1>3, <1>8
  <2>2. << >> \in Seq(Changes) /\ failed \in Seq(Changes)
    BY DEF Inv, TypeOK
  <2>3. FlattenSeq(rest) \in Seq(Changes)
    BY <1>5, FlattenType, Zenon
  <2>4. Cat(<< >>, FlattenSeq(rest)) = FlattenSeq(rest) /\ failed \o << >> = failed
    BY <2>2, <2>3, CatEmpty, Zenon DEF Cat
  <2> QED BY <1>3, <1>4, <1>6, <2>1, <2>2, <2>4, Zenon
<1> QED BY <1>7, <1>8, Zenon

Out == FlattenSeq(passed) \o failed

InOrder ==
    \E judged \in Seq(Changes) :
        /\ added = Cat(judged, FlattenSeq(state))
        /\ Len(judged) = Len(Out)
        /\ ToSet(judged) = ToSet(Out)

OrderInv == Inv /\ InOrder

LEMMA OutType ==
    ASSUME TypeOK
    PROVE  /\ Out \in Seq(Changes) /\ FlattenSeq(passed) \in Seq(Changes)
           /\ FlattenSeq(state) \in Seq(Changes)
           /\ Len(Out) = Len(FlattenSeq(passed)) + Len(failed)
           /\ ToSet(Out) = ToSet(FlattenSeq(passed)) \cup ToSet(failed)
<1>1. failed \in Seq(Changes) /\ passed \in Seq(Seq(Changes)) /\ state \in Seq(Seq(Changes))
  BY DEF TypeOK
<1>2. FlattenSeq(passed) \in Seq(Changes) /\ FlattenSeq(state) \in Seq(Changes)
  BY <1>1, FlattenType, Zenon
<1> QED BY <1>1, <1>2, SetOfCat, Zenon DEF Out

\* Cut at the end of the first, a concatenation gives back its two parts.
LEMMA CatCut ==
    ASSUME NEW S, NEW s \in Seq(S), NEW t \in Seq(S)
    PROVE  /\ Len(s \o t) = Len(s) + Len(t)
           /\ SubSeq(s \o t, 1, Len(s)) = s
           /\ SubSeq(s \o t, Len(s) + 1, Len(s \o t)) = t
<1>1. PICK r : r = s \o t
  OBVIOUS
<1>2. /\ r \in Seq(S) /\ Len(r) = Len(s) + Len(t)
      /\ \A i \in 1..Len(s) : r[i] = s[i]
      /\ \A i \in 1..Len(t) : r[Len(s) + i] = t[i]
  BY <1>1
<1>3. PICK a, b : a = SubSeq(r, 1, Len(s)) /\ b = SubSeq(r, Len(s) + 1, Len(r))
  OBVIOUS
<1>4. a = s
  BY <1>2, <1>3
<1>5. b = t
  BY <1>2, <1>3
<1> QED BY <1>1, <1>2, <1>3, <1>4, <1>5, Zenon

LEMMA InOrderSuffices ==
    ASSUME TypeOK, InOrder
    PROVE  NothingLostOrReordered
<1>1. PICK o, p : o = Out /\ p = FlattenSeq(state)
  OBVIOUS
<1>2. o \in Seq(Changes) /\ p \in Seq(Changes)
  BY <1>1, OutType, Zenon
<1>3. PICK j \in Seq(Changes) : added = Cat(j, p) /\ Len(j) = Len(o) /\ ToSet(j) = ToSet(o)
  BY <1>1, Zenon DEF InOrder
<1>4. PICK a : a = added
  OBVIOUS
<1>5. a = j \o p
  BY <1>3, <1>4, Zenon DEF Cat
<1>6. /\ Len(a) = Len(j) + Len(p)
      /\ SubSeq(a, 1, Len(j)) = j
      /\ SubSeq(a, Len(j) + 1, Len(a)) = p
  BY <1>2, <1>5, CatCut
<1>7. /\ Len(added) = Len(o) + Len(p)
      /\ ToSet(o) = ToSet(SubSeq(added, 1, Len(o)))
      /\ p = SubSeq(added, Len(o) + 1, Len(added))
  BY <1>3, <1>4, <1>6, Zenon
<1> QED BY <1>1, <1>7, Zenon DEF NothingLostOrReordered, Out

\* What is judged next is a run from the front of the queue.
LEMMA JudgedInOrder ==
    ASSUME InOrder, TypeOK, TypeOK', added' = added, NEW j \in Seq(Changes),
           FlattenSeq(state) = Cat(j, FlattenSeq(state')),
           Len(Out') = Len(Out) + Len(j), ToSet(Out') = ToSet(Out) \cup ToSet(j)
    PROVE  InOrder'
<1>1. PICK p, q : p = FlattenSeq(state) /\ q = FlattenSeq(state')
  OBVIOUS
<1>2. p \in Seq(Changes) /\ q \in Seq(Changes)
  <2>1. state' \in Seq(Seq(Changes))
    BY DEF TypeOK
  <2> QED BY <1>1, <2>1, OutType, FlattenType, Zenon
<1>3. PICK i \in Seq(Changes) : added = Cat(i, p) /\ Len(i) = Len(Out) /\ ToSet(i) = ToSet(Out)
  BY <1>1, Zenon DEF InOrder
<1>4. Cat(i, p) = Cat(Cat(i, j), q)
  <2>1. p = Cat(j, q)
    BY <1>1, Zenon
  <2> QED BY <1>2, <2>1, CatAssociates
<1>5. /\ Cat(i, j) \in Seq(Changes) /\ Len(Cat(i, j)) = Len(i) + Len(j)
      /\ ToSet(Cat(i, j)) = ToSet(i) \cup ToSet(j)
  BY SetOfCat DEF Cat
<1>6. added' = Cat(Cat(i, j), q) /\ Len(Cat(i, j)) = Len(Out') /\ ToSet(Cat(i, j)) = ToSet(Out')
  BY <1>3, <1>4, <1>5, Zenon
<1> QED BY <1>1, <1>5, <1>6, Zenon DEF InOrder

LEMMA AddOrder ==
    ASSUME OrderInv, NEW c \in Changes, Add(c)
    PROVE  InOrder'
<1>1. TypeOK /\ TypeOK' /\ state \in Seq(Seq(Changes)) /\ state # << >>
  BY AddInv DEF OrderInv, Inv, TypeOK
<1>2. state' = [state EXCEPT ![Len(state)] = Append(@, c)] /\ added' = Append(added, c)
      /\ UNCHANGED <<passed, failed>>
  BY DEF Add, AddToLast
<1>3. FlattenSeq(state') = Append(FlattenSeq(state), c)
  BY <1>1, <1>2, FlattenAddLast, Zenon
<1>4. PICK j \in Seq(Changes) :
           added = Cat(j, FlattenSeq(state)) /\ Len(j) = Len(Out) /\ ToSet(j) = ToSet(Out)
  BY Zenon DEF OrderInv, InOrder
<1>5. PICK p \in Seq(Changes) : p = FlattenSeq(state)
  BY <1>1, OutType, Zenon
<1>6. Append(Cat(j, p), c) = Cat(j, Append(p, c))
  BY AppendCat
<1>7. added' = Cat(j, FlattenSeq(state'))
  BY <1>2, <1>3, <1>4, <1>5, <1>6, Zenon
<1>8. Out' = Out
  BY <1>2, Zenon DEF Out
<1> QED BY <1>4, <1>7, <1>8, Zenon DEF InOrder

LEMMA GetNextTestKeeps ==
    ASSUME Inv, GetNextTest
    PROVE  FlattenSeq(state') = FlattenSeq(state)
<1>1. TypeOK /\ state \in Seq(Seq(Changes))
  BY DEF Inv, TypeOK
<1>2. CASE Len(state) <= 1
  <2>1. PICK e : e = << >>
    OBVIOUS
  <2>2. state' = Append(state, e) /\ e \in Seq(Changes)
    BY <1>2, <2>1 DEF GetNextTest
  <2>3. FlattenSeq(state') = Cat(FlattenSeq(state), e)
    BY <1>1, <2>2, FlattenAppend, Zenon DEF Cat
  <2>4. FlattenSeq(state) \in Seq(Changes)
    BY <1>1, OutType, Zenon
  <2> QED BY <2>1, <2>3, <2>4, CatEmpty, Zenon
<1>3. CASE ~(Len(state) <= 1)
  <2>1. state' = state
    BY <1>3 DEF GetNextTest
  <2> QED BY <2>1, Zenon
<1> QED BY <1>2, <1>3, Zenon

LEMMA GetNextTestOrder ==
    ASSUME OrderInv, GetNextTest
    PROVE  InOrder'
<1>1. UNCHANGED <<added, passed, failed>>
  BY DEF GetNextTest
<1>2. FlattenSeq(state') = FlattenSeq(state)
  BY GetNextTestKeeps DEF OrderInv
<1>3. Out' = Out
  BY <1>1, Zenon DEF Out
<1> QED BY <1>1, <1>2, <1>3, Zenon DEF OrderInv, InOrder

LEMMA OnTestFailureOrder ==
    ASSUME OrderInv, NEW key, OnTestFailure(key)
    PROVE  InOrder'
<1>1. Inv /\ TypeOK /\ TypeOK' /\ InOrder
  BY OnTestFailureInv DEF OrderInv, Inv
<1>2. PICK c \in Seq(Changes) :
          /\ FlattenSeq(state) = Cat(c, FlattenSeq(state'))
          /\ failed' = failed \o c
          /\ UNCHANGED <<added, passed>>
  BY <1>1, FailureEffect, Zenon
<1>3. failed \in Seq(Changes)
  BY <1>1 DEF TypeOK
<1>4. Len(failed') = Len(failed) + Len(c) /\ ToSet(failed') = ToSet(failed) \cup ToSet(c)
  BY <1>2, <1>3, SetOfCat, Zenon
<1>5. PICK b \in Seq(Changes) : b = FlattenSeq(passed)
  BY <1>1, OutType, Zenon
<1>6. /\ Len(Out) = Len(b) + Len(failed) /\ ToSet(Out) = ToSet(b) \cup ToSet(failed)
  BY <1>1, <1>5, OutType, Zenon
<1>7. Out' = b \o failed' /\ failed' \in Seq(Changes)
  BY <1>1, <1>2, <1>5, Zenon DEF Out, TypeOK
<1>8. /\ Len(Out') = Len(b) + Len(failed') /\ ToSet(Out') = ToSet(b) \cup ToSet(failed')
  BY <1>7, SetOfCat, Zenon
<1>9. Len(Out') = Len(Out) + Len(c) /\ ToSet(Out') = ToSet(Out) \cup ToSet(c)
  <2>1. Len(b) \in Nat /\ Len(failed) \in Nat /\ Len(c) \in Nat
    BY <1>3
  <2>2. Len(Out') = Len(Out) + Len(c)
    BY <1>4, <1>6, <1>8, <2>1
  <2>3. ToSet(Out') = ToSet(Out) \cup ToSet(c)
    BY <1>4, <1>6, <1>8, Zenon
  <2> QED BY <2>2, <2>3
<1>10. added' = added
  BY <1>2
<1> QED BY <1>1, <1>2, <1>9, <1>10, JudgedInOrder, Zenon

LEMMA OnTestSuccessOrder ==
    ASSUME OrderInv, NEW key, OnTestSuccess(key)
    PROVE  InOrder'
<1>1. Inv /\ TypeOK /\ TypeOK' /\ InOrder
  BY OnTestSuccessInv DEF OrderInv, Inv
<1>2. PICK c \in Seq(Changes) :
          /\ FlattenSeq(state) = Cat(Head(state), Cat(c, FlattenSeq(state')))
          /\ Head(state) \in Seq(Changes)
          /\ passed' = Append(passed, Head(state))
          /\ failed' = failed \o c
          /\ UNCHANGED added
  BY <1>1, SuccessEffect, Zenon
<1>3. PICK h \in Seq(Changes) : h = Head(state)
  BY <1>2
<1>4. failed \in Seq(Changes) /\ passed \in Seq(Seq(Changes))
      /\ FlattenSeq(state') \in Seq(Changes)
  <2>1. state' \in Seq(Seq(Changes))
    BY <1>1 DEF TypeOK
  <2> QED BY <1>1, <2>1, FlattenType DEF TypeOK
<1>5. FlattenSeq(state) = Cat(Cat(h, c), FlattenSeq(state'))
  BY <1>2, <1>3, <1>4, CatAssociates
<1>6. /\ Cat(h, c) \in Seq(Changes) /\ Len(Cat(h, c)) = Len(h) + Len(c)
      /\ ToSet(Cat(h, c)) = ToSet(h) \cup ToSet(c)
  BY SetOfCat, Zenon DEF Cat
<1>7. PICK b \in Seq(Changes) : b = FlattenSeq(passed)
  BY <1>1, OutType, Zenon
<1>8. FlattenSeq(passed') = b \o h
  BY <1>2, <1>3, <1>4, <1>7, FlattenAppend, Zenon
<1>9. PICK x, y : x = b \o h /\ y = failed \o c
  OBVIOUS
<1>10. /\ x \in Seq(Changes) /\ Len(x) = Len(b) + Len(h)
       /\ ToSet(x) = ToSet(b) \cup ToSet(h)
       /\ y \in Seq(Changes) /\ Len(y) = Len(failed) + Len(c)
       /\ ToSet(y) = ToSet(failed) \cup ToSet(c)
  BY <1>4, <1>9, SetOfCat
<1>11. Len(Out') = Len(x) + Len(y) /\ ToSet(Out') = ToSet(x) \cup ToSet(y)
  <2>1. Len(x \o y) = Len(x) + Len(y) /\ ToSet(x \o y) = ToSet(x) \cup ToSet(y)
    <3>1. x \in Seq(Changes) /\ y \in Seq(Changes)
      BY <1>10
    <3> QED BY <3>1, SetOfCat, Zenon
  <2>2. Out' = x \o y
    BY <1>2, <1>8, <1>9, Zenon DEF Out
  <2> QED BY <2>1, <2>2, Zenon
<1>12. Len(Out) = Len(b) + Len(failed) /\ ToSet(Out) = ToSet(b) \cup ToSet(failed)
  BY <1>1, <1>7, OutType, Zenon
<1>13. Len(Out') = Len(Out) + Len(Cat(h, c)) /\ ToSet(Out') = ToSet(Out) \cup ToSet(Cat(h, c))
  <2>1. Len(b) \in Nat /\ Len(failed) \in Nat /\ Len(c) \in Nat /\ Len(h) \in Nat
    BY <1>4
  <2>2. Len(Out') = Len(Out) + Len(Cat(h, c))
    BY <1>6, <1>10, <1>11, <1>12, <2>1
  <2>3. ToSet(Out') = ToSet(Out) \cup ToSet(Cat(h, c))
    BY <1>6, <1>10, <1>11, <1>12, Zenon
  <2> QED BY <2>2, <2>3
<1>14. added' = added
  BY <1>2
<1> QED BY <1>1, <1>5, <1>6, <1>13, <1>14, JudgedInOrder, Zenon

LEMMA OrderNext == ASSUME OrderInv, [Next]_vars PROVE OrderInv'
<1>1. Inv'
  BY NextInv DEF OrderInv
<1>2. InOrder'
  <2>1. CASE \E c \in Changes : Add(c)
    BY <2>1, AddOrder
  <2>2. CASE GetNextTest
    BY <2>2, GetNextTestOrder
  <2>3. CASE \E t \in handed : OnTestSuccess(t.key)
    BY <2>3, OnTestSuccessOrder
  <2>4. CASE \E t \in handed : OnTestFailure(t.key)
    BY <2>4, OnTestFailureOrder
  <2>5. CASE UNCHANGED vars
    BY <2>5, Zenon DEF vars, OrderInv, InOrder, Out
  <2>6. (\E t \in handed : IgnoredVerdict(t.key)) => UNCHANGED vars
    BY DEF IgnoredVerdict
  <2> QED BY <2>1, <2>2, <2>3, <2>4, <2>5, <2>6 DEF Next
<1> QED BY <1>1, <1>2 DEF OrderInv

LEMMA InitOrder == Init => InOrder
<1>1. SUFFICES ASSUME Init PROVE InOrder
  OBVIOUS
<1>2. PICK e : e = << >>
  OBVIOUS
<1>3. state = << e >> /\ added = e /\ passed = e /\ failed = e /\ e \in Seq(Changes)
  BY <1>1, <1>2 DEF Init
<1>4. FlattenSeq(state) = e /\ FlattenSeq(passed) = e
  BY <1>2, <1>3, FlattenSingle, FlattenEmpty, Zenon
<1>5. Cat(e, e) = e
  BY <1>2, <1>3, CatEmpty, Zenon
<1>6. Out = e
  BY <1>3, <1>4, <1>5, Zenon DEF Out, Cat
<1> QED BY <1>3, <1>4, <1>5, <1>6, Zenon DEF InOrder

(***************************************************************************)
(* Whatever the testers report, and in whatever order their verdicts come, *)
(* changes leave the queue in the order they were added, each once, and    *)
(* what is left is in that order: add, get_next_test, on_test_success and  *)
(* on_test_failure neither lose a change nor overtake one.                 *)
(***************************************************************************)
THEOREM ChangesAreJudgedInOrder == Spec => []NothingLostOrReordered
<1>1. Init => OrderInv
  BY InitInv, InitOrder DEF OrderInv
<1>2. OrderInv /\ [Next]_vars => OrderInv'
  BY OrderNext
<1>3. OrderInv => NothingLostOrReordered
  BY InOrderSuffices DEF OrderInv, Inv
<1> QED BY <1>1, <1>2, <1>3, PTL DEF Spec

-----------------------------------------------------------------------------
(***************************************************************************)
(* The refinement of ChangeGate.  Adding a change submits it, asking for a *)
(* test changes nothing the gate shows, a success lets the first section   *)
(* through and may turn away the change after it, a failure turns away the *)
(* first change or, where it only splits a section, changes nothing.       *)
(***************************************************************************)
LEMMA InitGate == Init => Gate!GateInit
<1>1. SUFFICES ASSUME Init PROVE Gate!GateInit
  OBVIOUS
<1>2. PICK e : e = << >>
  OBVIOUS
<1>3. state = << e >> /\ passed = e /\ failed = e /\ e \in Seq(Changes)
  BY <1>1, <1>2 DEF Init
<1>4. FlattenSeq(state) = e
  BY <1>3, FlattenSingle, Zenon
<1> QED BY <1>2, <1>3, <1>4, Zenon DEF Gate!GateInit

LEMMA AddGate ==
    ASSUME Inv, NEW c \in Changes, Add(c)
    PROVE  Gate!Submit(c)
<1>1. state \in Seq(Seq(Changes)) /\ state # << >>
  BY DEF Inv, TypeOK
<1>2. state' = [state EXCEPT ![Len(state)] = Append(@, c)] /\ UNCHANGED <<passed, failed>>
  BY DEF Add, AddToLast
<1>3. FlattenSeq(state') = Append(FlattenSeq(state), c)
  BY <1>1, <1>2, FlattenAddLast, Zenon
<1> QED BY <1>2, <1>3 DEF Gate!Submit

LEMMA GetNextTestGate ==
    ASSUME Inv, GetNextTest
    PROVE  UNCHANGED Gate!gateVars
<1>1. state \in Seq(Seq(Changes)) /\ UNCHANGED <<passed, failed>>
  BY DEF Inv, TypeOK, GetNextTest
<1>2. FlattenSeq(state') = FlattenSeq(state)
  BY GetNextTestKeeps
<1> QED BY <1>1, <1>2, Zenon DEF Gate!gateVars

\* Where a comes first, in front of q.
InFront(p, a, q) ==
    /\ Len(p) = Len(a) + Len(q) /\ SubSeq(p, 1, Len(a)) = a
    /\ SubSeq(p, Len(a) + 1, Len(p)) = q

LEMMA CutFront ==
    ASSUME NEW S, NEW a \in Seq(S), NEW q \in Seq(S)
    PROVE  InFront(Cat(a, q), a, q)
<1>1. /\ Len(a \o q) = Len(a) + Len(q)
      /\ SubSeq(a \o q, 1, Len(a)) = a
      /\ SubSeq(a \o q, Len(a) + 1, Len(a \o q)) = q
  BY CatCut
<1> QED BY <1>1, Zenon DEF Cat, InFront

LEMMA OneOf ==
    ASSUME NEW S, NEW c \in Seq(S), Len(c) = 1, NEW f \in Seq(S)
    PROVE  /\ c[1] \in S /\ Len(f) \in Nat /\ Len(f \o c) = Len(f) + 1
           /\ (f \o c)[Len(f) + 1] = c[1] /\ f \o c = Append(f, c[1])
<1>1. PICK e, r, t : e = c[1] /\ r = f \o c /\ t = Append(f, e)
  OBVIOUS
<1>2. e \in S
  <2>1. Len(c) >= 1
    OBVIOUS
  <2> QED BY <1>1, <2>1, HeadIsFirst, Zenon
<1>3. /\ r \in Seq(S) /\ Len(r) = Len(f) + 1 /\ r[Len(f) + 1] = e /\ Len(f) \in Nat
      /\ \A i \in 1..Len(f) : r[i] = f[i]
  <2>1. Len(f) \in Nat /\ Len(f) + 1 \in 1..(Len(f) + 1) /\ (Len(f) + 1) - Len(f) = 1
    OBVIOUS
  <2>2. /\ r \in Seq(S) /\ Len(r) = Len(f) + 1
        /\ \A i \in 1..(Len(f) + 1) :
              r[i] = IF i <= Len(f) THEN f[i] ELSE c[i - Len(f)]
    <3>1. /\ f \o c \in Seq(S) /\ Len(f \o c) = Len(f) + Len(c)
          /\ \A i \in 1..(Len(f) + Len(c)) :
                (f \o c)[i] = IF i <= Len(f) THEN f[i] ELSE c[i - Len(f)]
      BY ConcatProperties, Zenon
    <3> QED BY <1>1, <3>1, Zenon
  <2>3. ~(Len(f) + 1 <= Len(f)) /\ \A i \in 1..Len(f) : i \in 1..(Len(f) + 1) /\ i <= Len(f)
    BY <2>1
  <2> QED BY <1>1, <2>1, <2>2, <2>3, Zenon
<1>4. /\ t \in Seq(S) /\ Len(t) = Len(f) + 1 /\ t[Len(f) + 1] = e
      /\ \A i \in 1..Len(f) : t[i] = f[i]
  BY <1>1, <1>2, AppendProperties
<1>5. \A i \in 1..Len(r) : r[i] = t[i]
  BY <1>3, <1>4
<1>6. r = t
  BY <1>3, <1>4, <1>5, SeqEqual
<1> QED BY <1>1, <1>2, <1>3, <1>6, Zenon

\* Where a comes first, and then the change e, in front of q.
ThenOne(p, a, e, q) ==
    /\ Len(p) = Len(a) + 1 + Len(q) /\ SubSeq(p, 1, Len(a)) = a
    /\ p[Len(a) + 1] = e /\ SubSeq(p, Len(a) + 2, Len(p)) = q

LEMMA CutAfter ==
    ASSUME NEW S, NEW a \in Seq(S), NEW c \in Seq(S), Len(c) = 1, NEW q \in Seq(S)
    PROVE  ThenOne(Cat(a, Cat(c, q)), a, c[1], q)
<1>1. PICK p, d : p = Cat(a, Cat(c, q)) /\ d = Cat(a, c)
  OBVIOUS
<1>2. p = Cat(d, q) /\ d \in Seq(S)
  <2>1. Cat(a, Cat(c, q)) = Cat(Cat(a, c), q)
    BY CatAssociates
  <2> QED BY <1>1, <2>1, CatType, Zenon
<1>3. Len(d) = Len(a) + 1 /\ d[Len(a) + 1] = c[1] /\ Len(a) \in Nat
  BY <1>1, OneOf DEF Cat
<1>4. Len(p) = Len(d) + Len(q) /\ SubSeq(p, Len(d) + 1, Len(p)) = q
  <2>1. InFront(Cat(d, q), d, q)
    BY <1>2, CutFront, Zenon
  <2> QED BY <1>2, <2>1, Zenon DEF InFront
<1>5. SubSeq(p, 1, Len(a)) = a
  <2>1. Cat(c, q) \in Seq(S)
    BY CatType, Zenon
  <2>2. InFront(Cat(a, Cat(c, q)), a, Cat(c, q))
    BY <2>1, CutFront, Zenon
  <2> QED BY <1>1, <2>2, Zenon DEF InFront
<1>6. p[Len(a) + 1] = d[Len(a) + 1]
  <2>1. p = d \o q /\ Len(a) + 1 \in 1..Len(d)
    BY <1>2, <1>3 DEF Cat
  <2> QED BY <1>2, <2>1
<1>7. Len(d) + 1 = Len(a) + 2
  BY <1>3
<1> QED BY <1>1, <1>3, <1>4, <1>5, <1>6, <1>7, Zenon DEF ThenOne

\* ToSet as ChangeGate has it.
LEMMA SameSet == \A s : Gate!ToSet(s) = ToSet(s)
BY DEF Gate!ToSet, ToSet

\* The last change blamed fails on its own, where all that are blamed do.
LEMMA BlamedFails ==
    ASSUME OnlyCulpritsFail', TypeOK, NEW c \in Seq(Changes), Len(c) = 1, failed' = failed \o c
    PROVE  /\ c[1] \in Changes /\ {c[1]} \in Broken
           /\ failed' = Append(failed, c[1])
<1>1. failed \in Seq(Changes)
  BY DEF TypeOK
<1>2. /\ c[1] \in Changes /\ failed' = Append(failed, c[1]) /\ Len(failed) \in Nat
      /\ Len(failed') = Len(failed) + 1 /\ failed'[Len(failed) + 1] = c[1]
  BY <1>1, OneOf
<1>3. Len(failed) + 1 \in 1..Len(failed')
  BY <1>2
<1>4. {failed'[Len(failed) + 1]} \in Broken
  BY <1>3 DEF OnlyCulpritsFail
<1> QED BY <1>2, <1>4

LEMMA FirstOfCat ==
    \A s, t \in Seq(Changes) : Len(s) >= 1 => (s \o t)[1] = s[1]
OBVIOUS

LEMMA FailureGate ==
    ASSUME TruthfulInv, TruthfulFailure
    PROVE  (\E n \in 0..Len(FlattenSeq(state)) : Gate!Judge(n)) \/ UNCHANGED Gate!gateVars
<1>1. PICK t \in handed : OnTestFailure(t.key)
  BY DEF TruthfulFailure
<1>2. TypeOK /\ TypeOK' /\ Inv /\ OnlyCulpritsFail'
  BY <1>1, FailureSound, OnTestFailureInv DEF TruthfulInv, Inv, Sound
<1>3. PICK c \in Seq(Changes) :
          /\ c = << >> \/ Len(c) = 1
          /\ FlattenSeq(state) = Cat(c, FlattenSeq(state'))
          /\ failed' = failed \o c
          /\ UNCHANGED <<added, passed>>
  BY <1>1, <1>2, FailureEffect, Zenon
<1>4. PICK p, q : p = FlattenSeq(state) /\ q = FlattenSeq(state')
  OBVIOUS
<1>5. q \in Seq(Changes) /\ failed \in Seq(Changes) /\ p = Cat(c, q)
  <2>1. state' \in Seq(Seq(Changes)) /\ failed \in Seq(Changes)
    BY <1>2 DEF TypeOK
  <2> QED BY <1>3, <1>4, <2>1, FlattenType, Zenon
<1>6. CASE c = << >>
  <2>1. p = q /\ failed' = failed
    BY <1>3, <1>5, <1>6, CatEmpty, Zenon DEF Cat
  <2> QED BY <1>3, <1>4, <2>1, Zenon DEF Gate!gateVars
<1>7. CASE Len(c) = 1
  <2>1. /\ Len(p) = 1 + Len(q) /\ p[1] = c[1] /\ SubSeq(p, 2, Len(p)) = q
    <3>1. InFront(Cat(c, q), c, q)
      BY <1>5, CutFront, Zenon
    <3>2. /\ Len(p) = Len(c) + Len(q) /\ SubSeq(p, Len(c) + 1, Len(p)) = q
      BY <1>5, <3>1, Zenon DEF InFront
    <3>3. p[1] = c[1]
      <4>1. p = c \o q /\ Len(c) >= 1
        BY <1>5, <1>7 DEF Cat
      <4>2. (c \o q)[1] = c[1]
        BY <1>5, <4>1, FirstOfCat, SMT
      <4> QED BY <4>1, <4>2, Zenon
    <3> QED BY <1>7, <3>2, <3>3
  <2>2. {c[1]} \in Broken /\ failed' = Append(failed, c[1])
    BY <1>2, <1>3, <1>7, BlamedFails, Zenon
  <2>3. 0 < Len(p) /\ 0 \in 0..Len(p) /\ 0 + 1 = 1 /\ 0 + 2 = 2 /\ ~(0 > 0)
    BY <1>5, <2>1
  <2>4. Gate!TurnAway(p[1])
    BY <2>1, <2>2, Zenon DEF Gate!TurnAway
  <2>5. Gate!Judge(0)
    BY <1>3, <1>4, <2>1, <2>3, <2>4 DEF Gate!Judge
  <2> QED BY <1>4, <2>3, <2>5, Zenon
<1> QED BY <1>3, <1>6, <1>7, Zenon

LEMMA SuccessGate ==
    ASSUME TruthfulInv, TruthfulSuccess
    PROVE  \E n \in 0..Len(FlattenSeq(state)) : Gate!Judge(n)
<1>1. PICK t \in handed : ToSet(t.list) \notin Broken /\ OnTestSuccess(t.key)
  BY DEF TruthfulSuccess
<1>2. TypeOK /\ TypeOK' /\ Inv /\ OnlyCulpritsFail'
  BY <1>1, SuccessSound, OnTestSuccessInv DEF TruthfulInv, Inv, Sound
<1>3. PICK c \in Seq(Changes) :
          /\ c = << >> \/ Len(c) = 1
          /\ FlattenSeq(state) = Cat(Head(state), Cat(c, FlattenSeq(state')))
          /\ Head(state) \in Seq(Changes) /\ Head(state) # << >>
          /\ passed' = Append(passed, Head(state))
          /\ failed' = failed \o c
          /\ UNCHANGED added
  BY <1>1, <1>2, SuccessEffect, Zenon
<1>4. PICK p, q, h : p = FlattenSeq(state) /\ q = FlattenSeq(state') /\ h = Head(state)
  OBVIOUS
<1>5. /\ q \in Seq(Changes) /\ failed \in Seq(Changes) /\ h \in Seq(Changes) /\ h # << >>
      /\ p = Cat(h, Cat(c, q)) /\ passed' = Append(passed, h)
  <2>1. state' \in Seq(Seq(Changes)) /\ failed \in Seq(Changes)
    BY <1>2 DEF TypeOK
  <2> QED BY <1>3, <1>4, <2>1, FlattenType, Zenon
<1>6. ToSet(h) \notin Broken
  <2>1. t.key = test_key
    BY <1>1 DEF OnTestSuccess, TestKeyMatch
  <2>2. t.list = h
    BY <1>2, <1>4, <2>1 DEF Inv, KeyNamesFirstSection
  <2> QED BY <1>1, <2>2
<1>7. Len(h) \in Nat /\ Len(h) > 0
  BY <1>5
<1>8. CASE c = << >>
  <2>1. p = Cat(h, q) /\ failed' = failed
    BY <1>3, <1>5, <1>8, CatEmpty, Zenon DEF Cat
  <2>2. /\ Len(p) = Len(h) + Len(q) /\ SubSeq(p, 1, Len(h)) = h
        /\ SubSeq(p, Len(h) + 1, Len(p)) = q
    <3>1. InFront(Cat(h, q), h, q)
      BY <1>5, CutFront, Zenon
    <3> QED BY <2>1, <3>1, Zenon DEF InFront
  <2>3. Len(h) \in 0..Len(p)
    BY <1>5, <1>7, <2>2
  <2>4. Gate!LetThrough(Len(h))
    BY <1>4, <1>5, <1>6, <2>2, SameSet, Zenon DEF Gate!LetThrough
  <2>5. Gate!Judge(Len(h))
    BY <1>4, <1>7, <2>1, <2>2, <2>4, Zenon DEF Gate!Judge
  <2> QED BY <1>4, <2>3, <2>5, Zenon
<1>9. CASE Len(c) = 1
  <2>1. /\ Len(p) = Len(h) + 1 + Len(q) /\ SubSeq(p, 1, Len(h)) = h
        /\ p[Len(h) + 1] = c[1] /\ SubSeq(p, Len(h) + 2, Len(p)) = q
    <3>1. ThenOne(Cat(h, Cat(c, q)), h, c[1], q)
      BY <1>5, <1>9, CutAfter, Zenon
    <3> QED BY <1>5, <3>1, Zenon DEF ThenOne
  <2>2. Len(h) \in 0..Len(p) /\ Len(h) < Len(p)
    BY <1>5, <1>7, <2>1
  <2>3. {c[1]} \in Broken /\ failed' = Append(failed, c[1])
    BY <1>2, <1>3, <1>9, BlamedFails, Zenon
  <2>4. Gate!LetThrough(Len(h))
    BY <1>4, <1>5, <1>6, <2>1, SameSet, Zenon DEF Gate!LetThrough
  <2>5. Gate!TurnAway(p[Len(h) + 1])
    BY <2>1, <2>3, Zenon DEF Gate!TurnAway
  <2>6. Gate!Judge(Len(h))
    BY <1>4, <1>7, <2>1, <2>2, <2>4, <2>5, Zenon DEF Gate!Judge
  <2> QED BY <1>4, <2>2, <2>6, Zenon
<1> QED BY <1>3, <1>8, <1>9, Zenon

LEMMA GateStep ==
    ASSUME TruthfulInv, [TruthfulNext]_vars
    PROVE  [Gate!GateNext]_Gate!gateVars
<1>1. Inv
  BY DEF TruthfulInv
<1>2. CASE \E c \in Changes : Add(c)
  BY <1>1, <1>2, AddGate DEF Gate!GateNext
<1>3. CASE GetNextTest
  BY <1>1, <1>3, GetNextTestGate
<1>4. CASE TruthfulSuccess
  BY <1>4, SuccessGate DEF Gate!GateNext
<1>5. CASE TruthfulFailure
  BY <1>5, FailureGate DEF Gate!GateNext
<1>6. CASE UNCHANGED vars
  BY <1>6, Zenon DEF vars, Gate!gateVars
<1>7. (\E t \in handed : IgnoredVerdict(t.key)) => UNCHANGED vars
  BY DEF IgnoredVerdict
<1> QED BY <1>2, <1>3, <1>4, <1>5, <1>6, <1>7 DEF TruthfulNext

(***************************************************************************)
(* With truthful tests the bisecting queue is the gate of ChangeGate: what *)
(* is let through is always a run from the front of what is pending that   *)
(* passes the tests together, and what is turned away comes next and fails *)
(* on its own, however the sections were cut to find it.                   *)
(***************************************************************************)
THEOREM QueueIsGate == TruthfulSpec => ImplementsGate
<1>1. Init => Gate!GateInit
  BY InitGate
<1>2. TruthfulInv /\ [TruthfulNext]_vars => [Gate!GateNext]_Gate!gateVars
  BY GateStep
<1> QED BY <1>1, <1>2, TruthfulSpecInv, PTL DEF TruthfulSpec, ImplementsGate, Gate!GateSpec

=============================================================================
