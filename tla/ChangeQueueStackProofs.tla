----------------------- MODULE ChangeQueueStackProofs -----------------------
(***************************************************************************)
(* A queue in memory, for any changes, requirements, streams and order of  *)
(* calls: requirements come first, who waits has a reason to, only loops   *)
(* are rejected, and the blame is the first culprit's of the stream.       *)
(***************************************************************************)
EXTENDS ChangeQueueStack, FindDependants, QueueMethodsProofs, FiniteSetTheorems, FunctionTheorems

Judgement == [change : Changes, part : {"passed", "culprit", "dependant"},
              cause : Changes \cup {NoChange}]
-----------------------------------------------------------------------------
(* The first culprit of a stream, as verdicts are put behind others.        *)

InStream(s, v) ==
    {i \in DOMAIN v : Stream[v[i].change] = s /\ v[i].part # "dependant"}

Since(s, v) == {i \in InStream(s, v) : \A j \in InStream(s, v) : j >= i => v[j].part = "culprit"}

LEMMA FirstCulpritIs ==
    \A s, v : FirstCulprit(s, v) =
        IF Since(s, v) = {} THEN NoChange ELSE v[Min(Since(s, v))].change
BY DEF FirstCulprit, Since, InStream

LEMMA MinOf ==
    ASSUME NEW T \in SUBSET Nat, T # {}
    PROVE  Min(T) \in T /\ \A y \in T : Min(T) <= y
<1>1. \E x \in T : \A y \in T : x <= y
  BY LeastNat
<1> QED BY <1>1 DEF Min

LEMMA MinIs ==
    ASSUME NEW T \in SUBSET Nat, NEW x \in T, \A y \in T : x <= y
    PROVE  Min(T) = x
<1>1. Min(T) \in T /\ \A y \in T : Min(T) <= y
  BY MinOf
<1>2. Min(T) <= x /\ x <= Min(T) /\ Min(T) \in Nat
  BY <1>1
<1> QED BY <1>2

LEMMA JudgementLength ==
    ASSUME NEW v \in Seq(Judgement)
    PROVE  /\ Len(v) \in Nat /\ DOMAIN v = 1..Len(v)
           /\ \A i \in 1..Len(v) : v[i] \in Judgement /\ v[i].change \in Changes
<1>1. PICK J : J = Judgement
  OBVIOUS
<1>2. v \in Seq(J)
  BY <1>1
<1>3. Len(v) \in Nat /\ DOMAIN v = 1..Len(v) /\ \A i \in 1..Len(v) : v[i] \in J
  BY <1>2
<1>4. \A e \in Judgement : e.change \in Changes
  BY DEF Judgement
<1> QED BY <1>1, <1>3, <1>4

LEMMA JudgementCat ==
    ASSUME NEW v \in Seq(Judgement), NEW t \in Seq(Judgement)
    PROVE  /\ v \o t \in Seq(Judgement) /\ Len(v \o t) = Len(v) + Len(t)
           /\ \A i \in 1..Len(v) : (v \o t)[i] = v[i]
           /\ \A i \in 1..Len(t) : (v \o t)[Len(v) + i] = t[i]
<1>1. PICK J : J = Judgement
  OBVIOUS
<1>2. v \in Seq(J) /\ t \in Seq(J)
  BY <1>1
<1>3. /\ v \o t \in Seq(J) /\ Len(v \o t) = Len(v) + Len(t)
      /\ \A i \in 1..Len(v) : (v \o t)[i] = v[i]
      /\ \A i \in 1..Len(t) : (v \o t)[Len(v) + i] = t[i]
  BY <1>2
<1> QED BY <1>1, <1>3

\* How u = v \o t relates to v, of length l, and t, of length m.
Joint(s, v, l, t, m, u) ==
    /\ l \in Nat /\ m \in Nat
    /\ InStream(s, v) \subseteq 1..l /\ InStream(s, t) \subseteq 1..m
    /\ \A i \in 1..l : u[i] = v[i] /\ (i \in InStream(s, u) <=> i \in InStream(s, v))
    /\ \A i \in 1..m : u[l + i] = t[i] /\ (l + i \in InStream(s, u) <=> i \in InStream(s, t))
    /\ \A i \in InStream(s, u) : i \in 1..l \/ (i - l \in 1..m /\ l + (i - l) = i)

LEMMA InStreamCat ==
    ASSUME NEW v \in Seq(Judgement), NEW t \in Seq(Judgement), NEW s
    PROVE  Joint(s, v, Len(v), t, Len(t), v \o t)
<1>0. PICK u : u = v \o t
  OBVIOUS
<1>a. PICK l : l = Len(v)
  OBVIOUS
<1>b. PICK m : m = Len(t)
  OBVIOUS
<1>1. l \in Nat /\ m \in Nat /\ DOMAIN v = 1..l /\ DOMAIN t = 1..m
  BY <1>a, <1>b, JudgementLength
<1>2. /\ u \in Seq(Judgement) /\ Len(u) = l + m
      /\ \A i \in 1..l : u[i] = v[i]
      /\ \A i \in 1..m : u[l + i] = t[i]
  BY <1>0, <1>a, <1>b, JudgementCat, Zenon
<1>3. DOMAIN u = 1..(l + m)
  BY <1>2, JudgementLength
<1>4. \A i \in 1..l : i \in 1..(l + m)
  BY <1>1
<1>5. \A i \in 1..m : l + i \in 1..(l + m)
  BY <1>1
<1>6. \A i \in 1..(l + m) : i \in 1..l \/ (i - l \in 1..m /\ l + (i - l) = i)
  BY <1>1
<1>7. InStream(s, v) \subseteq 1..l /\ InStream(s, t) \subseteq 1..m
      /\ InStream(s, u) \subseteq 1..(l + m)
  BY <1>1, <1>3 DEF InStream
<1>8. \A i \in 1..l : i \in InStream(s, u) <=> i \in InStream(s, v)
  BY <1>1, <1>2, <1>3, <1>4 DEF InStream
<1>9. \A i \in 1..m : l + i \in InStream(s, u) <=> i \in InStream(s, t)
  BY <1>1, <1>2, <1>3, <1>5 DEF InStream
<1>10. Joint(s, v, l, t, m, u)
  BY <1>1, <1>2, <1>6, <1>7, <1>8, <1>9 DEF Joint
<1> QED BY <1>0, <1>a, <1>b, <1>10, Zenon

\* Verdicts of other streams and of dependants change nothing.
LEMMA FirstCulpritSame ==
    ASSUME NEW v \in Seq(Judgement), NEW t \in Seq(Judgement), NEW s, InStream(s, t) = {}
    PROVE  FirstCulprit(s, v \o t) = FirstCulprit(s, v)
<1>1. PICK u, l, m : u = v \o t /\ l = Len(v) /\ m = Len(t)
  OBVIOUS
<1>0. Joint(s, v, l, t, m, u)
  BY <1>1, InStreamCat, Zenon
<1>2. /\ l \in Nat /\ m \in Nat /\ InStream(s, v) \subseteq 1..l
      /\ \A i \in 1..l : u[i] = v[i] /\ (i \in InStream(s, u) <=> i \in InStream(s, v))
      /\ \A i \in 1..m : l + i \in InStream(s, u) <=> i \in InStream(s, t)
      /\ \A i \in InStream(s, u) : i \in 1..l \/ (i - l \in 1..m /\ l + (i - l) = i)
  BY <1>0 DEF Joint
<1>3. InStream(s, u) = InStream(s, v)
  <2>1. ASSUME NEW i \in InStream(s, u) PROVE i \in InStream(s, v)
    <3>1. CASE i \in 1..l
      BY <1>2, <3>1
    <3>2. CASE i - l \in 1..m /\ l + (i - l) = i
      <4>1. PICK k \in 1..m : l + k = i
        BY <3>2
      <4>2. k \in InStream(s, t)
        BY <1>2, <4>1
      <4> QED BY <4>2
    <3> QED BY <1>2, <3>1, <3>2
  <2>2. ASSUME NEW i \in InStream(s, v) PROVE i \in InStream(s, u)
    BY <1>2
  <2> QED BY <2>1, <2>2
<1>4. \A i \in InStream(s, v) : u[i] = v[i]
  BY <1>2
<1>5. Since(s, u) = Since(s, v)
  BY <1>3, <1>4 DEF Since
<1>6. Since(s, v) # {} => u[Min(Since(s, v))] = v[Min(Since(s, v))]
  <2>1. Since(s, v) \in SUBSET Nat /\ Since(s, v) \subseteq InStream(s, v)
    BY <1>2 DEF Since
  <2> QED BY <1>4, <2>1, MinOf
<1>7. FirstCulprit(s, u) = FirstCulprit(s, v)
  BY <1>5, <1>6, FirstCulpritIs
<1> QED BY <1>1, <1>7

\* A change of the stream that passes ends the failure sequence.
LEMMA FirstCulpritForgiven ==
    ASSUME NEW v \in Seq(Judgement), NEW t \in Seq(Judgement), NEW s, NEW k \in InStream(s, t),
           \A i \in InStream(s, t) : t[i].part # "culprit"
    PROVE  FirstCulprit(s, v \o t) = NoChange
<1>1. PICK u, l, m : u = v \o t /\ l = Len(v) /\ m = Len(t)
  OBVIOUS
<1>2. /\ l \in Nat /\ m \in Nat /\ InStream(s, t) \subseteq 1..m
      /\ \A i \in 1..m : u[l + i] = t[i] /\ (l + i \in InStream(s, u) <=> i \in InStream(s, t))
      /\ \A i \in InStream(s, u) : i \in 1..l \/ (i - l \in 1..m /\ l + (i - l) = i)
  <2>1. Joint(s, v, l, t, m, u)
    BY <1>1, InStreamCat, Zenon
  <2> QED BY <2>1 DEF Joint
<1>3. k \in 1..m /\ l + k \in InStream(s, u) /\ u[l + k].part # "culprit"
  BY <1>2
<1>4. ASSUME NEW i \in InStream(s, u)
      PROVE  \E j \in InStream(s, u) : j >= i /\ u[j].part # "culprit"
  <2>1. CASE i \in 1..l
    <3>1. \A a \in Nat : \A b \in 1..m : \A c \in 1..a : a + b >= c
      OBVIOUS
    <3>2. l \in Nat /\ k \in 1..m
      BY <1>2, <1>3
    <3>3. l + k >= i
      BY <2>1, <3>1, <3>2, Zenon
    <3> QED BY <1>3, <3>3
  <2>2. CASE i - l \in 1..m /\ l + (i - l) = i
    <3>1. PICK j \in 1..m : l + j = i
      BY <2>2
    <3>2. u[i].part # "culprit"
      BY <1>2, <3>1
    <3>3. \A a \in Nat : \A b \in 1..m : a + b >= a + b
      OBVIOUS
    <3>4. i >= i
      BY <1>2, <3>1, <3>3, Zenon
    <3> QED BY <3>2, <3>4
  <2> QED BY <1>2, <2>1, <2>2
<1>5. Since(s, u) = {}
  BY <1>4 DEF Since
<1> QED BY <1>1, <1>5, FirstCulpritIs

LEMMA FirstCulpritType ==
    ASSUME NEW v \in Seq(Judgement), NEW s
    PROVE  /\ FirstCulprit(s, v) \in Changes \cup {NoChange}
           /\ FirstCulprit(s, v) = NoChange <=> Since(s, v) = {}
<1>1. /\ Len(v) \in Nat /\ DOMAIN v = 1..Len(v) /\ \A i \in 1..Len(v) : v[i].change \in Changes
  BY JudgementLength
<1>2. Since(s, v) \subseteq 1..Len(v)
  BY <1>1 DEF Since, InStream
<1>3. ASSUME Since(s, v) # {}
      PROVE  v[Min(Since(s, v))].change \in Changes /\ v[Min(Since(s, v))].change # NoChange
  <2>1. Since(s, v) \in SUBSET Nat
    BY <1>1, <1>2
  <2>2. Min(Since(s, v)) \in Since(s, v)
    BY <1>3, <2>1, MinOf
  <2> QED BY <1>1, <1>2, <2>2, StreamsAssumption
<1> QED BY <1>3, FirstCulpritIs

\* A culprit starts a failure sequence, or goes on with the one there is.
LEMMA FirstCulpritNext ==
    ASSUME NEW v \in Seq(Judgement), NEW e \in Judgement, e.part = "culprit"
    PROVE  FirstCulprit(Stream[e.change], v \o << e >>) =
              IF FirstCulprit(Stream[e.change], v) = NoChange THEN e.change
              ELSE FirstCulprit(Stream[e.change], v)
<1>1. PICK s : s = Stream[e.change]
  OBVIOUS
<1>2. PICK t : t = << e >>
  OBVIOUS
<1>3. t \in Seq(Judgement) /\ Len(t) = 1 /\ t[1] = e /\ DOMAIN t = {1}
  BY <1>2
<1>4. PICK u, l : u = v \o t /\ l = Len(v)
  OBVIOUS
<1>5. /\ l \in Nat /\ InStream(s, v) \subseteq 1..l
      /\ \A i \in 1..l : u[i] = v[i] /\ (i \in InStream(s, u) <=> i \in InStream(s, v))
      /\ \A i \in 1..1 : u[l + i] = t[i] /\ (l + i \in InStream(s, u) <=> i \in InStream(s, t))
      /\ \A i \in InStream(s, u) : i \in 1..l \/ (i - l \in 1..1 /\ l + (i - l) = i)
  <2>1. Joint(s, v, l, t, 1, u)
    BY <1>3, <1>4, InStreamCat, Zenon
  <2> QED BY <2>1 DEF Joint
<1>6. 1 \in InStream(s, t) /\ 1 \in 1..1
  BY <1>1, <1>3 DEF InStream
<1>7. l + 1 \in InStream(s, u) /\ u[l + 1] = e
  BY <1>3, <1>5, <1>6
<1>8. InStream(s, u) = InStream(s, v) \cup {l + 1}
  <2>1. \A i \in InStream(s, u) : i \in InStream(s, v) \/ i = l + 1
    BY <1>5
  <2>2. \A i \in InStream(s, v) : i \in InStream(s, u)
    BY <1>5
  <2> QED BY <1>7, <2>1, <2>2
<1>9. Since(s, u) = Since(s, v) \cup {l + 1}
  <2>1. ASSUME NEW i \in InStream(s, v) PROVE i \in Since(s, u) <=> i \in Since(s, v)
    BY <1>5, <1>7, <1>8 DEF Since
  <2>2. l + 1 \in Since(s, u)
    <3>1. \A j \in InStream(s, v) : ~(j >= l + 1)
      BY <1>5
    <3> QED BY <1>7, <1>8, <3>1 DEF Since
  <2>3. Since(s, v) \subseteq InStream(s, v) /\ Since(s, u) \subseteq InStream(s, u)
    BY DEF Since
  <2> QED BY <1>8, <2>1, <2>2, <2>3
<1>10. Since(s, v) \in SUBSET Nat /\ Since(s, u) \in SUBSET Nat /\ \A i \in Since(s, v) : i <= l + 1
  <2>1. Since(s, v) \subseteq 1..l
    BY <1>5 DEF Since
  <2> QED BY <1>5, <1>9, <2>1
<1>11. CASE Since(s, v) = {}
  <2>1. Min(Since(s, u)) = l + 1
    <3>1. \A y \in Since(s, u) : l + 1 <= y
      BY <1>5, <1>9, <1>11
    <3> QED BY <1>9, <1>10, <3>1, MinIs
  <2> QED BY <1>1, <1>2, <1>4, <1>7, <1>9, <1>11, <2>1, FirstCulpritIs
<1>12. CASE Since(s, v) # {}
  <2>1. Min(Since(s, v)) \in Since(s, v) /\ \A y \in Since(s, v) : Min(Since(s, v)) <= y
    BY <1>10, <1>12, MinOf
  <2>2. Min(Since(s, u)) = Min(Since(s, v))
    <3>1. \A y \in Since(s, u) : Min(Since(s, v)) <= y
      BY <1>9, <1>10, <2>1
    <3>2. Min(Since(s, v)) \in Since(s, u)
      BY <1>9, <2>1
    <3> QED BY <1>10, <3>1, <3>2, MinIs
  <2>3. Min(Since(s, v)) \in 1..l
    BY <1>5, <2>1 DEF Since
  <2>4. FirstCulprit(s, u) = FirstCulprit(s, v)
    BY <1>5, <1>9, <1>12, <2>2, <2>3, FirstCulpritIs
  <2>5. FirstCulprit(s, v) # NoChange
    BY <1>12, FirstCulpritType
  <2> QED BY <1>1, <1>2, <1>4, <2>4, <2>5
<1> QED BY <1>11, <1>12

-----------------------------------------------------------------------------
(* The verdicts of a call.                                                  *)

Roles == {"passed", "culprit", "dependant"}

Judging(cs, part, cause, t) ==
    /\ t \in Seq(Judgement) /\ Len(t) = Len(cs) /\ DOMAIN t = DOMAIN cs
    /\ \A i \in DOMAIN cs : t[i].change = cs[i] /\ t[i].part = part /\ t[i].cause = cause

LEMMA VerdictIs ==
    ASSUME NEW cs \in Seq(Changes), NEW part \in Roles, NEW cause \in Changes \cup {NoChange}
    PROVE  Judging(cs, part, cause, Verdict(cs, part, cause))
<1>1. PICK t : t = Verdict(cs, part, cause)
  OBVIOUS
<1>2. PICK l \in Nat : l = Len(cs)
  OBVIOUS
<1>3. DOMAIN cs = 1..l /\ \A i \in 1..l : cs[i] \in Changes
  BY <1>2
<1>4. t = [i \in 1..l |-> [change |-> cs[i], part |-> part, cause |-> cause]]
  BY <1>1, <1>3 DEF Verdict
<1>5. PICK J : J = Judgement
  OBVIOUS
<1>6. \A x \in Changes : [change |-> x, part |-> part, cause |-> cause] \in J
  BY <1>5 DEF Judgement, Roles
<1>7. t \in Seq(J) /\ Len(t) = l /\ DOMAIN t = 1..l
  BY <1>3, <1>4, <1>6
<1>8. \A i \in 1..l : t[i].change = cs[i] /\ t[i].part = part /\ t[i].cause = cause
  BY <1>4
<1>9. t \in Seq(Judgement)
  BY <1>5, <1>7, Zenon
<1>10. Judging(cs, part, cause, t)
  BY <1>2, <1>3, <1>7, <1>8, <1>9 DEF Judging
<1> QED BY <1>1, <1>10

PassedIn(v) == {v[i].change : i \in {j \in DOMAIN v : v[j].part = "passed"}}

LEMMA PassedCat ==
    ASSUME NEW v \in Seq(Judgement), NEW t \in Seq(Judgement)
    PROVE  PassedIn(v \o t) = PassedIn(v) \cup PassedIn(t)
<1>1. PICK u : u = v \o t
  OBVIOUS
<1>2. PICK l : l = Len(v)
  OBVIOUS
<1>3. PICK m : m = Len(t)
  OBVIOUS
<1>4. l \in Nat /\ m \in Nat /\ DOMAIN v = 1..l /\ DOMAIN t = 1..m
  BY <1>2, <1>3, JudgementLength
<1>5. /\ u \in Seq(Judgement) /\ Len(u) = l + m
      /\ \A i \in 1..l : u[i] = v[i]
      /\ \A i \in 1..m : u[l + i] = t[i]
  BY <1>1, <1>2, <1>3, JudgementCat, Zenon
<1>6. DOMAIN u = 1..(l + m)
  BY <1>5, JudgementLength
<1>7. \A i \in 1..l : i \in 1..(l + m)
  BY <1>4
<1>8. \A i \in 1..m : l + i \in 1..(l + m)
  BY <1>4
<1>9. \A i \in 1..(l + m) : i \in 1..l \/ \E j \in 1..m : i = l + j
  <2>1. \A i \in 1..(l + m) : i \in 1..l \/ (i - l \in 1..m /\ i = l + (i - l))
    BY <1>4
  <2> QED BY <2>1
<1>10. PassedIn(u) \subseteq PassedIn(v) \cup PassedIn(t)
  <2>1. ASSUME NEW i \in 1..(l + m), u[i].part = "passed"
        PROVE  u[i].change \in PassedIn(v) \cup PassedIn(t)
    <3>1. CASE i \in 1..l
      BY <1>4, <1>5, <2>1, <3>1 DEF PassedIn
    <3>2. CASE \E j \in 1..m : i = l + j
      BY <1>4, <1>5, <2>1, <3>2 DEF PassedIn
    <3> QED BY <1>9, <3>1, <3>2, Zenon
  <2> QED BY <1>6, <2>1, Zenon DEF PassedIn
<1>11. PassedIn(v) \subseteq PassedIn(u)
  BY <1>4, <1>5, <1>6, <1>7 DEF PassedIn
<1>12. PassedIn(t) \subseteq PassedIn(u)
  <2>1. ASSUME NEW i \in 1..m, t[i].part = "passed" PROVE t[i].change \in PassedIn(u)
    <3>1. u[l + i] = t[i] /\ l + i \in DOMAIN u
      BY <1>5, <1>6, <1>8
    <3>2. u[l + i].part = "passed" /\ u[l + i].change = t[i].change
      BY <2>1, <3>1, Zenon
    <3> QED BY <3>1, <3>2, Zenon DEF PassedIn
  <2> QED BY <1>4, <2>1, Zenon DEF PassedIn
<1>13. PassedIn(u) = PassedIn(v) \cup PassedIn(t)
  BY <1>10, <1>11, <1>12
<1> QED BY <1>1, <1>13, Zenon

LEMMA PassedOfJudging ==
    ASSUME NEW cs \in Seq(Changes), NEW part, NEW cause, NEW t, Judging(cs, part, cause, t)
    PROVE  /\ part = "passed" => PassedIn(t) = ToSet(cs)
           /\ part # "passed" => PassedIn(t) = {}
<1>1. DOMAIN t = DOMAIN cs /\ \A i \in DOMAIN cs : t[i].change = cs[i] /\ t[i].part = part
  BY DEF Judging
<1>2. PassedIn(t) = {t[i].change : i \in {j \in DOMAIN cs : t[j].part = "passed"}}
  BY <1>1 DEF PassedIn
<1>3. part = "passed" => PassedIn(t) = ToSet(cs)
  BY <1>1, <1>2 DEF ToSet
<1>4. part # "passed" => PassedIn(t) = {}
  BY <1>1, <1>2
<1> QED BY <1>3, <1>4
-----------------------------------------------------------------------------
(* The stream map and the causes, as verdicts are put behind others.        *)

CausesOK(v) ==
    \A i \in DOMAIN v :
        v[i].part = "culprit" =>
            v[i].cause = IF Stream[v[i].change] = NoStream THEN v[i].change
                         ELSE FirstCulprit(Stream[v[i].change], SubSeq(v, 1, i))

Tracks(map, v) == map = [s \in Streams |-> FirstCulprit(s, v)] /\ CausesOK(v)

LEMMA PrefixOfCat ==
    ASSUME NEW v \in Seq(Judgement), NEW t \in Seq(Judgement)
    PROVE  /\ \A i \in 1..Len(v) : SubSeq(v \o t, 1, i) = SubSeq(v, 1, i)
           /\ SubSeq(v \o t, 1, Len(v) + Len(t)) = v \o t
<1>1. PICK J : J = Judgement
  OBVIOUS
<1>2. v \in Seq(J) /\ t \in Seq(J)
  BY <1>1
<1>3. \A i \in 1..Len(v) : SubSeq(v \o t, 1, i) = SubSeq(v, 1, i)
  BY <1>2
<1>4. SubSeq(v \o t, 1, Len(v) + Len(t)) = v \o t
  BY <1>2
<1> QED BY <1>3, <1>4

LEMMA CausesCat ==
    ASSUME NEW v \in Seq(Judgement), NEW t \in Seq(Judgement), CausesOK(v),
           \A i \in DOMAIN t : t[i].part # "culprit"
    PROVE  CausesOK(v \o t)
<1>1. PICK u : u = v \o t
  OBVIOUS
<1>2. PICK l : l = Len(v)
  OBVIOUS
<1>3. PICK m : m = Len(t)
  OBVIOUS
<1>4. l \in Nat /\ m \in Nat /\ DOMAIN v = 1..l /\ DOMAIN t = 1..m
  BY <1>2, <1>3, JudgementLength
<1>5. /\ u \in Seq(Judgement) /\ Len(u) = l + m
      /\ \A i \in 1..l : u[i] = v[i]
      /\ \A i \in 1..m : u[l + i] = t[i]
  BY <1>1, <1>2, <1>3, JudgementCat, Zenon
<1>6. DOMAIN u = 1..(l + m)
  BY <1>5, JudgementLength
<1>7. \A i \in 1..l : SubSeq(u, 1, i) = SubSeq(v, 1, i)
  BY <1>1, <1>2, PrefixOfCat, Zenon
<1>8. ASSUME NEW i \in DOMAIN u, u[i].part = "culprit"
      PROVE  u[i].cause = IF Stream[u[i].change] = NoStream THEN u[i].change
                          ELSE FirstCulprit(Stream[u[i].change], SubSeq(u, 1, i))
  <2>1. i \in 1..l
    <3>1. i \in 1..l \/ (i - l \in 1..m /\ i = l + (i - l))
      BY <1>4, <1>6, <1>8
    <3>2. ASSUME i - l \in 1..m, i = l + (i - l) PROVE FALSE
      <4>1. PICK j \in 1..m : i = l + j
        BY <3>2
      <4>2. u[i] = t[j] /\ t[j].part # "culprit"
        BY <1>4, <1>5, <4>1
      <4> QED BY <1>8, <4>2
    <3> QED BY <3>1, <3>2
  <2>2. u[i] = v[i] /\ SubSeq(u, 1, i) = SubSeq(v, 1, i)
    BY <1>5, <1>7, <2>1
  <2>3. v[i].cause = IF Stream[v[i].change] = NoStream THEN v[i].change
                     ELSE FirstCulprit(Stream[v[i].change], SubSeq(v, 1, i))
    BY <1>4, <1>8, <2>1, <2>2, Zenon DEF CausesOK
  <2> QED BY <2>2, <2>3, Zenon
<1>9. CausesOK(u)
  BY <1>8, Zenon DEF CausesOK
<1> QED BY <1>1, <1>9, Zenon

LEMMA CausesNext ==
    ASSUME NEW v \in Seq(Judgement), NEW t \in Seq(Judgement), CausesOK(v), Len(t) = 1,
           t[1].cause = IF Stream[t[1].change] = NoStream THEN t[1].change
                        ELSE FirstCulprit(Stream[t[1].change], v \o t)
    PROVE  CausesOK(v \o t)
<1>1. PICK u : u = v \o t
  OBVIOUS
<1>2. PICK l : l = Len(v)
  OBVIOUS
<1>4. l \in Nat /\ DOMAIN v = 1..l
  BY <1>2, JudgementLength
<1>5. /\ u \in Seq(Judgement) /\ Len(u) = l + Len(t)
      /\ \A i \in 1..l : u[i] = v[i]
      /\ \A i \in 1..Len(t) : u[l + i] = t[i]
  BY <1>1, <1>2, JudgementCat, Zenon
<1>6. Len(u) = l + 1 /\ u[l + 1] = t[1] /\ DOMAIN u = 1..(l + 1)
  <2>1. 1 \in 1..1
    OBVIOUS
  <2>2. Len(u) = l + 1 /\ u[l + 1] = t[1]
    BY <1>5, <2>1, Zenon
  <2> QED BY <1>5, <2>2, JudgementLength
<1>7. \A i \in 1..l : SubSeq(u, 1, i) = SubSeq(v, 1, i)
  BY <1>1, <1>2, PrefixOfCat, Zenon
<1>8. SubSeq(u, 1, l + 1) = u
  BY <1>1, <1>2, PrefixOfCat, Zenon
<1>9. \A i \in DOMAIN u : i \in 1..l \/ i = l + 1
  BY <1>4, <1>6
<1>10. ASSUME NEW i \in DOMAIN u, u[i].part = "culprit"
      PROVE  u[i].cause = IF Stream[u[i].change] = NoStream THEN u[i].change
                          ELSE FirstCulprit(Stream[u[i].change], SubSeq(u, 1, i))
  <2>1. CASE i \in 1..l
    <3>1. u[i] = v[i] /\ SubSeq(u, 1, i) = SubSeq(v, 1, i)
      BY <1>5, <1>7, <2>1
    <3>2. v[i].cause = IF Stream[v[i].change] = NoStream THEN v[i].change
                       ELSE FirstCulprit(Stream[v[i].change], SubSeq(v, 1, i))
      BY <1>4, <1>10, <2>1, <3>1, Zenon DEF CausesOK
    <3> QED BY <3>1, <3>2, Zenon
  <2>2. CASE i = l + 1
    <3>1. u[i] = t[1] /\ SubSeq(u, 1, i) = u
      BY <1>6, <1>8, <2>2, Zenon
    <3> QED BY <1>1, <3>1, Zenon
  <2> QED BY <1>9, <1>10, <2>1, <2>2, Zenon
<1>11. CausesOK(u)
  BY <1>10, Zenon DEF CausesOK
<1> QED BY <1>1, <1>11, Zenon

LEMMA StreamsOfJudging ==
    ASSUME NEW cs \in Seq(Changes), NEW part, NEW cause, NEW t, Judging(cs, part, cause, t), NEW s
    PROVE  /\ part = "dependant" => InStream(s, t) = {}
           /\ part # "dependant" => InStream(s, t) = {i \in DOMAIN cs : Stream[cs[i]] = s}
<1>1. DOMAIN t = DOMAIN cs /\ \A i \in DOMAIN cs : t[i].change = cs[i] /\ t[i].part = part
  BY DEF Judging
<1>2. ASSUME part = "dependant" PROVE InStream(s, t) = {}
  BY <1>1, <1>2 DEF InStream
<1>3. ASSUME part # "dependant" PROVE InStream(s, t) = {i \in DOMAIN cs : Stream[cs[i]] = s}
  BY <1>1, <1>3 DEF InStream
<1> QED BY <1>2, <1>3

\* Dependants are judged without a trace in the stream map ...
LEMMA TracksDependants ==
    ASSUME NEW v \in Seq(Judgement), NEW map, Tracks(map, v), NEW cs \in Seq(Changes),
           NEW cause, NEW t \in Seq(Judgement), Judging(cs, "dependant", cause, t)
    PROVE  Tracks(map, v \o t)
<1>1. \A s \in Streams : FirstCulprit(s, v \o t) = FirstCulprit(s, v)
  BY StreamsOfJudging, FirstCulpritSame
<1>2. map = [s \in Streams |-> FirstCulprit(s, v)] /\ CausesOK(v)
  BY Zenon DEF Tracks
<1>3. [s \in Streams |-> FirstCulprit(s, v \o t)] = [s \in Streams |-> FirstCulprit(s, v)]
  BY <1>1
<1>4. \A i \in DOMAIN t : t[i].part # "culprit"
  BY DEF Judging
<1>5. CausesOK(v \o t)
  BY <1>2, <1>4, CausesCat, Zenon
<1> QED BY <1>2, <1>3, <1>5, Zenon DEF Tracks

\* ... changes that pass end the failure sequences of their streams ...
LEMMA TracksPassed ==
    ASSUME NEW v \in Seq(Judgement), NEW map, Tracks(map, v), NEW cs \in Seq(Changes),
           NEW cause, NEW t \in Seq(Judgement), Judging(cs, "passed", cause, t)
    PROVE  Tracks(Forgiven(map, cs), v \o t)
<1>1. map = [s \in Streams |-> FirstCulprit(s, v)] /\ CausesOK(v)
  BY Zenon DEF Tracks
<1>2. \A i \in DOMAIN cs : t[i].part = "passed"
  BY DEF Judging
<1>3. \A s : InStream(s, t) = {i \in DOMAIN cs : Stream[cs[i]] = s}
  BY StreamsOfJudging
<1>4. PICK S : S = {Stream[cs[i]] : i \in DOMAIN cs}
  OBVIOUS
<1>5. ASSUME NEW s \in Streams
      PROVE  FirstCulprit(s, v \o t) = IF s \in S THEN NoChange ELSE map[s]
  <2>1. CASE s \in S
    <3>1. PICK k \in DOMAIN cs : Stream[cs[k]] = s
      BY <1>4, <2>1
    <3>2. k \in InStream(s, t)
      BY <1>3, <3>1
    <3>3. \A i \in InStream(s, t) : t[i].part # "culprit"
      BY <1>2, <1>3
    <3>4. FirstCulprit(s, v \o t) = NoChange
      BY <3>2, <3>3, FirstCulpritForgiven, Zenon
    <3> QED BY <2>1, <3>4
  <2>2. CASE s \notin S
    <3>1. InStream(s, t) = {}
      BY <1>3, <1>4, <2>2
    <3>2. FirstCulprit(s, v \o t) = FirstCulprit(s, v)
      BY <3>1, FirstCulpritSame, Zenon
    <3>3. map[s] = FirstCulprit(s, v)
      BY <1>1
    <3> QED BY <2>2, <3>2, <3>3
  <2> QED BY <2>1, <2>2
<1>6. [s \in Streams |-> FirstCulprit(s, v \o t)]
        = [s \in Streams |-> IF s \in S THEN NoChange ELSE map[s]]
  BY <1>5
<1>7. Forgiven(map, cs) = [s \in Streams |-> FirstCulprit(s, v \o t)]
  BY <1>4, <1>6, Zenon DEF Forgiven
<1>8. \A i \in DOMAIN t : t[i].part # "culprit"
  BY DEF Judging
<1>9. CausesOK(v \o t)
  BY <1>1, <1>8, CausesCat, Zenon
<1> QED BY <1>7, <1>9, Zenon DEF Tracks

LEMMA OneJudgement ==
    ASSUME NEW t \in Seq(Judgement), Len(t) = 1
    PROVE  t = << t[1] >> /\ t[1] \in Judgement
<1>1. PICK J : J = Judgement
  OBVIOUS
<1>2. t \in Seq(J)
  BY <1>1
<1>3. t = << t[1] >> /\ t[1] \in J
  BY <1>2
<1> QED BY <1>1, <1>3

\* ... and a culprit starts one, unless its stream has one already.
LEMMA TracksCulprit ==
    ASSUME NEW v \in Seq(Judgement), NEW map, Tracks(map, v), NEW x \in Changes,
           NEW t \in Seq(Judgement), Judging(<< x >>, "culprit", Blamed(map, x), t)
    PROVE  Tracks(BlamedMap(map, x), v \o t)
<1>1. map = [s \in Streams |-> FirstCulprit(s, v)] /\ CausesOK(v)
  BY Zenon DEF Tracks
<1>2. << x >> \in Seq(Changes) /\ Len(<< x >>) = 1 /\ DOMAIN << x >> = {1} /\ << x >>[1] = x
  OBVIOUS
<1>3. Len(t) = 1 /\ t[1].change = x /\ t[1].part = "culprit" /\ t[1].cause = Blamed(map, x)
  BY <1>2 DEF Judging
<1>4. t = << t[1] >> /\ t[1] \in Judgement
  <2>1. Len(t) = 1
    BY <1>3
  <2> QED BY <2>1, OneJudgement, Zenon
<1>5. FirstCulprit(Stream[x], v \o t) = IF FirstCulprit(Stream[x], v) = NoChange THEN x
                                         ELSE FirstCulprit(Stream[x], v)
  <2>1. PICK e \in Judgement : e = t[1]
    BY <1>4
  <2>2. e.part = "culprit" /\ e.change = x
    BY <1>3, <2>1
  <2>3. FirstCulprit(Stream[e.change], v \o << e >>) =
          IF FirstCulprit(Stream[e.change], v) = NoChange THEN e.change
          ELSE FirstCulprit(Stream[e.change], v)
    BY <2>2, FirstCulpritNext, Zenon
  <2> QED BY <1>4, <2>1, <2>2, <2>3, Zenon
<1>6. Stream[x] \in Streams \cup {NoStream} /\ NoStream \notin Streams
  BY StreamsAssumption
<1>7. Stream[x] # NoStream => map[Stream[x]] = FirstCulprit(Stream[x], v)
  BY <1>1, <1>6
<1>8. Stream[x] # NoStream => Blamed(map, x) = FirstCulprit(Stream[x], v \o t)
  BY <1>5, <1>7, Zenon DEF Blamed
<1>9. Stream[x] = NoStream => Blamed(map, x) = x
  BY Zenon DEF Blamed
<1>10. CausesOK(v \o t)
  BY <1>1, <1>3, <1>8, <1>9, CausesNext, Zenon
<1>11. \A s \in Streams : s # Stream[x] => FirstCulprit(s, v \o t) = FirstCulprit(s, v)
  <2>1. ASSUME NEW s \in Streams, s # Stream[x]
        PROVE  FirstCulprit(s, v \o t) = FirstCulprit(s, v)
    <3>0. "culprit" # "dependant"
      OBVIOUS
    <3>1. InStream(s, t) = {i \in DOMAIN << x >> : Stream[<< x >>[i]] = s}
      <4>1. PICK cs : cs = << x >>
        OBVIOUS
      <4>2. cs \in Seq(Changes) /\ Judging(cs, "culprit", Blamed(map, x), t)
        BY <1>2, <4>1, Zenon
      <4>3. InStream(s, t) = {i \in DOMAIN cs : Stream[cs[i]] = s}
        BY <4>2, <3>0, StreamsOfJudging, Zenon
      <4> QED BY <4>1, <4>3
    <3>2. InStream(s, t) = {}
      BY <1>2, <2>1, <3>1
    <3> QED BY <3>2, FirstCulpritSame, Zenon
  <2> QED BY <2>1
<1>12. PICK f : f = BlamedMap(map, x)
  OBVIOUS
<1>13. f = [s \in Streams |-> FirstCulprit(s, v \o t)]
  <2>1. CASE Stream[x] = NoStream
    <3>1. f = map
      BY <1>12, <2>1, Zenon DEF BlamedMap
    <3>2. \A s \in Streams : FirstCulprit(s, v \o t) = FirstCulprit(s, v)
      BY <1>6, <1>11, <2>1
    <3>3. [s \in Streams |-> FirstCulprit(s, v \o t)] = [s \in Streams |-> FirstCulprit(s, v)]
      BY <3>2
    <3> QED BY <1>1, <3>1, <3>3, Zenon
  <2>2. CASE Stream[x] # NoStream
    <3>1. PICK w : w = Blamed(map, x)
      OBVIOUS
    <3>2. f = [map EXCEPT ![Stream[x]] = w]
      BY <1>12, <2>2, <3>1, Zenon DEF BlamedMap
    <3>3. w = FirstCulprit(Stream[x], v \o t)
      BY <1>8, <2>2, <3>1
    <3>4. DOMAIN map = Streams /\ \A s \in Streams : map[s] = FirstCulprit(s, v)
      BY <1>1
    <3>5. f = [s \in Streams |-> IF s = Stream[x] THEN w ELSE map[s]]
      BY <1>1, <3>2
    <3>6. ASSUME NEW s \in Streams
          PROVE  (IF s = Stream[x] THEN w ELSE map[s]) = FirstCulprit(s, v \o t)
      BY <1>11, <3>3, <3>4, Zenon
    <3>7. [s \in Streams |-> IF s = Stream[x] THEN w ELSE map[s]]
            = [s \in Streams |-> FirstCulprit(s, v \o t)]
      BY <3>6
    <3> QED BY <3>5, <3>7, Zenon
  <2> QED BY <2>1, <2>2
<1> QED BY <1>10, <1>12, <1>13, Zenon DEF Tracks
-----------------------------------------------------------------------------
(* What the verdicts of one call do to what was judged before.              *)

\* r was returned with the verdicts t.
Tells(r, t) ==
    IF r.failed = << >> THEN Judging(r.successful, "passed", r.cause, t)
    ELSE \E a, b, d \in Seq(Judgement) :
            /\ t = a \o (b \o d)
            /\ Judging(r.successful, "passed", r.cause, a)
            /\ Judging(<< Head(r.failed) >>, "culprit", r.cause, b)
            /\ Judging(Tail(r.failed), "dependant", r.cause, d)

LEMMA JudgementCats ==
    ASSUME NEW a \in Seq(Judgement), NEW b \in Seq(Judgement), NEW d \in Seq(Judgement)
    PROVE  /\ a \o b \in Seq(Judgement) /\ a \o (b \o d) \in Seq(Judgement)
           /\ a \o (b \o d) = (a \o b) \o d /\ a \o << >> = a
<1>1. PICK J : J = Judgement
  OBVIOUS
<1>2. a \in Seq(J) /\ b \in Seq(J) /\ d \in Seq(J)
  BY <1>1
<1>3. a \o b \in Seq(J) /\ b \o d \in Seq(J)
  BY <1>2
<1>4. a \o (b \o d) \in Seq(J)
  BY <1>2, <1>3
<1>5. a \o (b \o d) = (a \o b) \o d
  <2>1. Cat(a, Cat(b, d)) = Cat(Cat(a, b), d)
    BY CatAssociates
  <2> QED BY <2>1, Zenon DEF Cat
<1>6. a \o << >> = a
  BY <1>2
<1> QED BY <1>1, <1>3, <1>4, <1>5, <1>6

Associate(v, a, b, d) == v \o (a \o (b \o d)) = ((v \o a) \o b) \o d

LEMMA FourAssociate ==
    ASSUME NEW S, NEW v \in Seq(S), NEW a \in Seq(S), NEW b \in Seq(S), NEW d \in Seq(S)
    PROVE  Associate(v, a, b, d)
BY DEF Associate

LEMMA VerdictsAre ==
    ASSUME NEW r, r.successful \in Seq(Changes), r.failed \in Seq(Changes),
           r.cause \in Changes \cup {NoChange}
    PROVE  Tells(r, Verdicts(r)) /\ Verdicts(r) \in Seq(Judgement)
<1>1. PICK a : a = Verdict(r.successful, "passed", r.cause)
  OBVIOUS
<1>2. Judging(r.successful, "passed", r.cause, a) /\ "passed" \in Roles
  BY <1>1, VerdictIs DEF Roles
<1>3. a \in Seq(Judgement)
  BY <1>2 DEF Judging
<1>4. CASE r.failed = << >>
  <2>1. Verdicts(r) = a \o << >>
    BY <1>1, <1>4, Zenon DEF Verdicts
  <2>2. Verdicts(r) = a
    BY <1>3, <2>1, JudgementCats, Zenon
  <2> QED BY <1>2, <1>3, <1>4, <2>2, Zenon DEF Tells
<1>5. CASE r.failed # << >>
  <2>1. << Head(r.failed) >> \in Seq(Changes) /\ Tail(r.failed) \in Seq(Changes)
    BY <1>5
  <2>2. PICK b : b = Verdict(<< Head(r.failed) >>, "culprit", r.cause)
    OBVIOUS
  <2>3. PICK d : d = Verdict(Tail(r.failed), "dependant", r.cause)
    OBVIOUS
  <2>4. "culprit" \in Roles /\ "dependant" \in Roles
    BY DEF Roles
  <2>5. /\ Judging(<< Head(r.failed) >>, "culprit", r.cause, b)
        /\ Judging(Tail(r.failed), "dependant", r.cause, d)
    BY <2>1, <2>2, <2>3, <2>4, VerdictIs, Zenon
  <2>6. b \in Seq(Judgement) /\ d \in Seq(Judgement)
    BY <2>5, Zenon DEF Judging
  <2>7. Verdicts(r) = a \o (b \o d)
    BY <1>1, <1>5, <2>2, <2>3, Zenon DEF Verdicts
  <2>8. Verdicts(r) \in Seq(Judgement)
    <3>1. a \o (b \o d) \in Seq(Judgement)
      BY <1>3, <2>6, JudgementCats, Zenon
    <3> QED BY <2>7, <3>1, Zenon
  <2>9. Tells(r, Verdicts(r))
    BY <1>2, <1>3, <1>5, <2>5, <2>6, <2>7, Zenon DEF Tells
  <2> QED BY <2>8, <2>9
<1> QED BY <1>4, <1>5

Stands(v, ok, t) ==
    /\ t \in Seq(Judgement) /\ PassedIn(t) = PassedIn(v) \cup ToSet(ok)

\* The map and the causes a call returns agree with the verdicts it returns.
LEMMA JudgesTracks ==
    ASSUME NEW v \in Seq(Judgement), NEW q, Tracks(q.stream_map, v), NEW P,
           NEW ok \in Seq(Changes), NEW r, Judges(q, P, ok, r)
    PROVE  Tracks(r.queue.stream_map, v \o Verdicts(r)) /\ Stands(v, ok, v \o Verdicts(r))
<1>1. PICK map : map = Forgiven(q.stream_map, ok)
  OBVIOUS
<1>2. /\ r.successful = ok /\ r.failed \in Seq(Changes)
      /\ IF r.failed = << >> THEN r.cause = NoChange /\ r.queue.stream_map = map
         ELSE /\ r.cause = Blamed(map, Head(r.failed))
              /\ r.queue.stream_map = BlamedMap(map, Head(r.failed))
  BY <1>1, Zenon DEF Judges
<1>3. ASSUME NEW s \in Streams PROVE map[s] \in Changes \cup {NoChange}
  <2>1. q.stream_map = [z \in Streams |-> FirstCulprit(z, v)]
    BY Zenon DEF Tracks
  <2>2. q.stream_map[s] \in Changes \cup {NoChange}
    BY <2>1, FirstCulpritType
  <2>3. map[s] = IF s \in {Stream[ok[i]] : i \in DOMAIN ok} THEN NoChange ELSE q.stream_map[s]
    BY <1>1 DEF Forgiven
  <2> QED BY <2>2, <2>3
<1>4. r.cause \in Changes \cup {NoChange}
  <2>1. ASSUME NEW x \in Changes PROVE Blamed(map, x) \in Changes \cup {NoChange}
    <3>1. Stream[x] \in Streams \cup {NoStream}
      BY StreamsAssumption
    <3> QED BY <1>3, <3>1 DEF Blamed
  <2>2. r.failed # << >> => Head(r.failed) \in Changes
    BY <1>2
  <2> QED BY <1>2, <2>1, <2>2
<1>5. Tells(r, Verdicts(r)) /\ Verdicts(r) \in Seq(Judgement)
  BY <1>2, <1>4, VerdictsAre, Zenon
<1>6. PICK t \in Seq(Judgement) : t = Verdicts(r)
  BY <1>5
<1>7. v \o t \in Seq(Judgement) /\ PassedIn(v \o t) = PassedIn(v) \cup PassedIn(t)
  BY JudgementCats, PassedCat, Zenon
<1>8. CASE r.failed = << >>
  <2>1. Judging(ok, "passed", r.cause, t) /\ r.queue.stream_map = map
    BY <1>2, <1>5, <1>6, <1>8, Zenon DEF Tells
  <2>2. Tracks(map, v \o t)
    BY <1>1, <2>1, TracksPassed, Zenon
  <2>3. PassedIn(t) = ToSet(ok)
    BY <2>1, PassedOfJudging, Zenon
  <2> QED BY <1>6, <1>7, <2>1, <2>2, <2>3, Zenon DEF Stands
<1>9. CASE r.failed # << >>
  <2>1. PICK a, b, d \in Seq(Judgement) :
            /\ t = a \o (b \o d)
            /\ Judging(ok, "passed", r.cause, a)
            /\ Judging(<< Head(r.failed) >>, "culprit", r.cause, b)
            /\ Judging(Tail(r.failed), "dependant", r.cause, d)
    BY <1>2, <1>5, <1>6, <1>9, Zenon DEF Tells
  <2>2. PICK x \in Changes : x = Head(r.failed)
    BY <1>2, <1>9
  <2>3. Tail(r.failed) \in Seq(Changes)
    BY <1>2, <1>9
  <2>4. r.cause = Blamed(map, x) /\ r.queue.stream_map = BlamedMap(map, x)
    BY <1>2, <1>9, <2>2, Zenon
  <2>5. v \o a \in Seq(Judgement) /\ Tracks(map, v \o a)
    BY <1>1, <2>1, TracksPassed, JudgementCats, Zenon
  <2>6. Judging(<< x >>, "culprit", Blamed(map, x), b)
    BY <2>1, <2>2, <2>4, Zenon
  <2>7. (v \o a) \o b \in Seq(Judgement) /\ Tracks(BlamedMap(map, x), (v \o a) \o b)
    BY <2>1, <2>5, <2>6, TracksCulprit, JudgementCats, Zenon
  <2>8. Tracks(BlamedMap(map, x), ((v \o a) \o b) \o d)
    BY <2>1, <2>3, <2>7, TracksDependants, Zenon
  <2>17. a \in Seq(Judgement) /\ b \in Seq(Judgement) /\ d \in Seq(Judgement)
    BY <2>1
  <2>9. b \o d \in Seq(Judgement)
    BY <2>17, JudgementCats, Zenon
  <2>10. v \o t = ((v \o a) \o b) \o d
    <3>0. Associate(v, a, b, d)
      BY FourAssociate
    <3>1. v \o (a \o (b \o d)) = ((v \o a) \o b) \o d
      BY <3>0, Zenon DEF Associate
    <3> QED BY <2>1, <3>1, Zenon
  <2>11. PassedIn(a) = ToSet(ok)
    BY <2>1, PassedOfJudging, Zenon
  <2>12. PassedIn(b) = {} /\ PassedIn(d) = {}
    <3>1. "culprit" # "passed" /\ "dependant" # "passed"
      OBVIOUS
    <3>2. PICK cs : cs = << x >> /\ cs \in Seq(Changes)
      <4>1. << x >> \in Seq(Changes)
        BY <2>2
      <4> QED BY <4>1
    <3>3. Judging(cs, "culprit", Blamed(map, x), b)
      BY <2>6, <3>2, Zenon
    <3>4. PassedIn(b) = {}
      BY <3>1, <3>2, <3>3, PassedOfJudging, Zenon
    <3>5. PassedIn(d) = {}
      BY <2>1, <2>3, <3>1, PassedOfJudging, Zenon
    <3> QED BY <3>4, <3>5
  <2>13. PassedIn(t) = PassedIn(a) \cup (PassedIn(b) \cup PassedIn(d))
    <3>1. PassedIn(a \o (b \o d)) = PassedIn(a) \cup PassedIn(b \o d)
      BY <2>9, <2>17, PassedCat, Zenon
    <3>2. PassedIn(b \o d) = PassedIn(b) \cup PassedIn(d)
      BY <2>17, PassedCat, Zenon
    <3> QED BY <2>1, <3>1, <3>2, Zenon
  <2>14. PassedIn(t) = ToSet(ok)
    BY <2>11, <2>12, <2>13
  <2>15. Tracks(r.queue.stream_map, v \o t)
    BY <2>4, <2>8, <2>10, Zenon
  <2>16. Stands(v, ok, v \o t)
    BY <1>7, <2>14, Zenon DEF Stands
  <2> QED BY <1>6, <2>15, <2>16, Zenon
<1> QED BY <1>8, <1>9
-----------------------------------------------------------------------------
(* The invariant.                                                           *)

PassedIds == {Id[c] : c \in PassedIn(judged)}

(***************************************************************************)
(* The inductive invariant: the queue is well-formed and sound for what    *)
(* has passed, holds only what was submitted, and agrees with the verdicts *)
(* returned so far.                                                        *)
(***************************************************************************)
IInv ==
    /\ Fit(queue) /\ Sound(queue, PassedIds)
    /\ Members(queue) \subseteq submitted /\ submitted \subseteq Changes
    /\ rejected \in Seq(Changes) /\ OnlyLoopsAreRejected
    /\ judged \in Seq(Judgement) /\ Tracks(queue.stream_map, judged)

LEMMA NothingJudged ==
    /\ << >> \in Seq(Judgement) /\ PassedIn(<< >>) = {}
    /\ Tracks([s \in Streams |-> NoChange], << >>)
<1>1. PICK e : e = << >>
  OBVIOUS
<1>2. e \in Seq(Judgement) /\ DOMAIN e = {}
  BY <1>1
<1>3. PassedIn(e) = {}
  BY <1>2 DEF PassedIn
<1>4. CausesOK(e)
  BY <1>2 DEF CausesOK
<1>5. \A s : FirstCulprit(s, e) = NoChange
  <2>1. \A s : Since(s, e) = {}
    BY <1>2 DEF Since, InStream
  <2> QED BY <1>2, <2>1, FirstCulpritType, Zenon
<1>6. [s \in Streams |-> NoChange] = [s \in Streams |-> FirstCulprit(s, e)]
  BY <1>5
<1>7. Tracks([s \in Streams |-> NoChange], e)
  BY <1>4, <1>6, Zenon DEF Tracks
<1> QED BY <1>1, <1>2, <1>3, <1>7, Zenon

LEMMA InitIInv ==
    ASSUME Init PROVE IInv
<1>1. /\ queue = NewQueue /\ submitted = {} /\ rejected = << >> /\ judged = << >>
  BY Zenon DEF Init
<1>2. Fit(queue) /\ Sound(queue, PassedIds) /\ Members(queue) = {}
      /\ queue.stream_map = [s \in Streams |-> NoChange]
  BY <1>1, NewQueueFits, Zenon
<1>3. judged \in Seq(Judgement) /\ Tracks(queue.stream_map, judged)
  BY <1>1, <1>2, NothingJudged, Zenon
<1>4. rejected \in Seq(Changes) /\ OnlyLoopsAreRejected
  <2>1. rejected \in Seq(Changes) /\ DOMAIN rejected = {}
    BY <1>1
  <2> QED BY <2>1 DEF OnlyLoopsAreRejected
<1>5. Members(queue) \subseteq submitted /\ submitted \subseteq Changes
  BY <1>1, <1>2
<1> QED BY <1>2, <1>3, <1>4, <1>5 DEF IInv

\* The verdicts of a call, whichever it is.
LEMMA JudgingKeepsIInv ==
    ASSUME IInv, NEW ok \in Seq(Changes), NEW r, Judges(queue, PassedIds, ok, r),
           queue' = r.queue, judged' = judged \o Verdicts(r),
           UNCHANGED <<submitted, rejected>>
    PROVE  IInv'
<1>1. Tracks(queue.stream_map, judged) /\ judged \in Seq(Judgement)
  BY Zenon DEF IInv
<1>2. Tracks(r.queue.stream_map, judged \o Verdicts(r)) /\ Stands(judged, ok, judged \o Verdicts(r))
  BY <1>1, JudgesTracks, Zenon
<1>3. /\ Tracks(queue'.stream_map, judged') /\ judged' \in Seq(Judgement)
      /\ PassedIn(judged') = PassedIn(judged) \cup ToSet(ok)
  BY <1>2, Zenon DEF Stands
<1>4. /\ IsQueue(r.queue) /\ Sound(r.queue, PassedIds \cup IdsOf(ok)) /\ Shaped(r.queue)
      /\ r.queue.test_key = NoKey
      /\ Members(queue) = Members(r.queue) \cup ToSet(ok) \cup ToSet(r.failed)
  BY Zenon DEF Judges
<1>5. PassedIds' = PassedIds \cup IdsOf(ok)
  <2>1. IdsOf(ok) = {Id[c] : c \in ToSet(ok)}
    BY IdsOfSet
  <2> QED BY <1>3, <2>1 DEF PassedIds
<1>6. Sound(queue', PassedIds')
  BY <1>4, <1>5, Zenon
<1>7. Fit(queue')
  BY <1>4, Zenon DEF Fit, KeyFits
<1>8. submitted' = submitted /\ rejected' = rejected
  BY Zenon
<1>9. Members(queue') \subseteq submitted' /\ submitted' \subseteq Changes
  <2>1. Members(queue) \subseteq submitted /\ submitted \subseteq Changes
    BY Zenon DEF IInv
  <2>2. Members(queue') \subseteq Members(queue)
    BY <1>4
  <2> QED BY <1>8, <2>1, <2>2
<1>10. rejected' \in Seq(Changes) /\ OnlyLoopsAreRejected'
  BY <1>8, Zenon DEF IInv, OnlyLoopsAreRejected
<1> QED BY <1>3, <1>6, <1>7, <1>9, <1>10, Zenon DEF IInv

LEMMA AddKeepsIInv ==
    ASSUME IInv, NEW c \in Changes, Add(c) PROVE IInv'
<1>1. PICK r : r = Added(queue, c)
  OBVIOUS
<1>2. /\ queue' = r.queue /\ rejected' = rejected \o r.rejected
      /\ submitted' = submitted \cup {c} /\ judged' = judged
  BY <1>1, Zenon DEF Add
<1>3. /\ Fit(queue) /\ Sound(queue, PassedIds) /\ Members(queue) \subseteq submitted
      /\ submitted \subseteq Changes /\ rejected \in Seq(Changes) /\ OnlyLoopsAreRejected
      /\ judged \in Seq(Judgement) /\ Tracks(queue.stream_map, judged)
  BY Zenon DEF IInv
<1>4. Adds(queue, PassedIds, c, r)
  <2>1. IsQueue(queue)
    BY <1>3, Zenon DEF Fit
  <2> QED BY <1>1, <1>3, <2>1, AddedEffect, Zenon
<1>5. /\ IsQueue(queue') /\ Sound(queue', PassedIds) /\ SameUnderTest(queue, queue')
      /\ r.rejected \in Seq(Changes)
      /\ Members(queue') \cup ToSet(r.rejected) = Members(queue) \cup {c}
      /\ \A e \in ToSet(r.rejected) :
            /\ Id[c] \in DependantsOn(Id[c], {c} \cup WaitingIn(queue.awaiting))
            /\ Id[e] \in DependantsOn(Id[c], {c} \cup WaitingIn(queue.awaiting))
  BY <1>2, <1>4, Zenon DEF Adds
<1>6. Fit(queue')
  BY <1>3, <1>5, AddKeepsFit, Zenon
<1>7. PassedIds' = PassedIds
  BY <1>2, Zenon DEF PassedIds
<1>8. Sound(queue', PassedIds') /\ judged' \in Seq(Judgement)
  BY <1>2, <1>3, <1>5, <1>7, Zenon
<1>9. Tracks(queue'.stream_map, judged')
  BY <1>2, <1>3, <1>5, Zenon DEF SameUnderTest
<1>10. Members(queue') \subseteq submitted' /\ submitted' \subseteq Changes
  BY <1>2, <1>3, <1>5
<1>11. {c} \cup WaitingIn(queue.awaiting) \subseteq submitted'
  BY <1>2, <1>3 DEF Members
<1>12. \A x : DependantsOn(x, {c} \cup WaitingIn(queue.awaiting)) \subseteq DependantsOn(x, submitted')
  BY <1>11, DependantsMonotone, Zenon
<1>13. \A x : DependantsOn(x, submitted) \subseteq DependantsOn(x, submitted')
  <2>1. submitted \subseteq submitted'
    BY <1>2
  <2> QED BY <2>1, DependantsMonotone, Zenon
<1>14. rejected' \in Seq(Changes) /\ ToSet(rejected') = ToSet(rejected) \cup ToSet(r.rejected)
  BY <1>2, <1>3, <1>5, SetOfCat, Zenon
<1>15. ASSUME NEW e \in ToSet(rejected')
       PROVE  \E id \in Ids : /\ id \in DependantsOn(id, submitted')
                              /\ Id[e] \in DependantsOn(id, submitted')
  <2>1. CASE e \in ToSet(rejected)
    <3>1. PICK i \in DOMAIN rejected : rejected[i] = e
      BY <2>1 DEF ToSet
    <3>2. PICK id \in Ids : /\ id \in DependantsOn(id, submitted)
                            /\ Id[e] \in DependantsOn(id, submitted)
      BY <1>3, <3>1, Zenon DEF OnlyLoopsAreRejected
    <3> QED BY <1>13, <3>2
  <2>2. CASE e \in ToSet(r.rejected)
    <3>1. Id[c] \in Ids
      BY DependenciesAssumption
    <3> QED BY <1>5, <1>12, <2>2, <3>1
  <2> QED BY <1>14, <2>1, <2>2
<1>16. OnlyLoopsAreRejected'
  <2>1. \A i \in DOMAIN rejected' : rejected'[i] \in ToSet(rejected')
    BY DEF ToSet
  <2> QED BY <1>15, <2>1, Zenon DEF OnlyLoopsAreRejected
<1> QED BY <1>6, <1>8, <1>9, <1>10, <1>14, <1>16, Zenon DEF IInv

LEMMA StepIInv ==
    ASSUME IInv, [Next]_vars PROVE IInv'
<1>1. /\ Fit(queue) /\ Sound(queue, PassedIds) /\ Members(queue) \subseteq submitted
      /\ judged \in Seq(Judgement) /\ Tracks(queue.stream_map, judged)
  BY Zenon DEF IInv
<1>2. IsQueue(queue) /\ Shaped(queue) /\ KeyFits(queue)
  BY <1>1, Zenon DEF Fit
<1>3. ASSUME UNCHANGED vars PROVE IInv'
  <2>1. /\ queue' = queue /\ submitted' = submitted /\ rejected' = rejected
        /\ judged' = judged
    BY <1>3, Zenon DEF vars
  <2>2. PassedIds' = PassedIds /\ OnlyLoopsAreRejected' = OnlyLoopsAreRejected
    BY <2>1, Zenon DEF PassedIds, OnlyLoopsAreRejected
  <2> QED BY <2>1, <2>2, Zenon DEF IInv
<1>4. ASSUME NEW c \in Changes, Add(c) PROVE IInv'
  BY <1>4, AddKeepsIInv
<1>5. ASSUME GetNextTest PROVE IInv'
  <2>1. /\ queue' = NextTest(queue, keys + 1) /\ submitted' = submitted
        /\ rejected' = rejected /\ judged' = judged
    BY <1>5, Zenon DEF GetNextTest
  <2>2. Tests(queue, keys + 1, queue')
    BY <1>1, <2>1, NextTestEffect, Zenon
  <2>3. /\ Fit(queue') /\ Queued(queue') = Queued(queue)
        /\ queue'.awaiting = queue.awaiting /\ queue'.stream_map = queue.stream_map
    BY <2>2, Zenon DEF Tests
  <2>4. PassedIds' = PassedIds /\ OnlyLoopsAreRejected' = OnlyLoopsAreRejected
    BY <2>1, Zenon DEF PassedIds, OnlyLoopsAreRejected
  <2>5. Sound(queue', PassedIds')
    BY <1>1, <2>3, <2>4, Zenon DEF Sound
  <2>6. Members(queue') = Members(queue)
    BY <2>3, Zenon DEF Members
  <2> QED BY <2>1, <2>3, <2>4, <2>5, <2>6, Zenon DEF IInv
<1>6. ASSUME NEW key, TestKeyMatch(key) PROVE Len(queue.state) >= 2
  BY <1>2, <1>6, Zenon DEF TestKeyMatch, KeyFits
<1>7. ASSUME NEW t \in tests, OnTestFailure(t.key) PROVE IInv'
  <2>1. PICK r : r = OnFailure(queue)
    OBVIOUS
  <2>2. /\ TestKeyMatch(t.key) /\ queue' = r.queue /\ judged' = judged \o Verdicts(r)
        /\ UNCHANGED <<submitted, rejected>>
    BY <1>7, <2>1, Zenon DEF OnTestFailure
  <2>3. PICK M : queue.stream_map \in [Streams -> M]
    <3>1. queue.stream_map = [s \in Streams |-> FirstCulprit(s, judged)]
      BY <1>1, Zenon DEF Tracks
    <3>2. queue.stream_map \in [Streams -> Changes \cup {NoChange}]
      BY <1>1, <3>1, FirstCulpritType
    <3> QED BY <3>2
  <2>4. Len(queue.state) >= 2
    BY <1>6, <2>2
  <2>5. Judges(queue, PassedIds, << >>, r)
    BY <1>1, <1>2, <2>1, <2>3, <2>4, FailureEffect, Zenon
  <2>6. << >> \in Seq(Changes)
    OBVIOUS
  <2> QED BY <2>2, <2>5, <2>6, JudgingKeepsIInv, Zenon
<1>8. ASSUME NEW t \in tests, OnTestSuccess(t.key) PROVE IInv'
  <2>1. PICK r : r = OnSuccess(queue)
    OBVIOUS
  <2>2. /\ TestKeyMatch(t.key) /\ queue' = r.queue /\ judged' = judged \o Verdicts(r)
        /\ UNCHANGED <<submitted, rejected>>
    BY <1>8, <2>1, Zenon DEF OnTestSuccess
  <2>3. Len(queue.state) >= 2
    BY <1>6, <2>2
  <2>4. Judges(queue, PassedIds, Head(queue.state), r)
    BY <1>1, <1>2, <2>1, <2>3, SuccessEffect, Zenon
  <2>5. Head(queue.state) \in Seq(Changes)
    BY <1>2, <2>3, HeadNotEmpty, Zenon
  <2> QED BY <2>2, <2>4, <2>5, JudgingKeepsIInv, Zenon
<1>9. ASSUME NEW t \in tests, IgnoredVerdict(t.key) PROVE IInv'
  <2>1. UNCHANGED vars
    BY <1>9, Zenon DEF IgnoredVerdict
  <2> QED BY <1>3, <2>1
<1> QED BY <1>3, <1>4, <1>5, <1>7, <1>8, <1>9, Zenon DEF Next

\* The invariant holds in every state.
THEOREM IsInvariant == Spec => []IInv
<1>1. Init => IInv
  BY InitIInv
<1>2. IInv /\ [Next]_vars => IInv'
  BY StepIInv
<1> QED BY <1>1, <1>2, PTL DEF Spec
-----------------------------------------------------------------------------
(* What it gives.                                                           *)

LEMMA PassedIdsAre == PassedIds = {Id[c] : c \in JudgedAs("passed")}
BY DEF PassedIds, PassedIn, JudgedAs

\* A change stands behind what it requires, or that has passed.
THEOREM RequirementsComeFirst == Spec => []RequirementsFirst
<1>1. IInv => RequirementsFirst
  <2>1. SUFFICES ASSUME IInv PROVE RequirementsFirst
    OBVIOUS
  <2>2. Follows(Queued(queue), PassedIds)
    BY <2>1, Zenon DEF IInv, Sound
  <2> QED BY <2>2, PassedIdsAre, Zenon DEF Follows, RequirementsFirst
<1> QED BY <1>1, IsInvariant, PTL

\* Who waits misses something that neither stands in the queue nor comes later
\* among those that wait.
THEOREM WaitingHasReason == Spec => []WaitsWithReason
<1>1. IInv => WaitsWithReason
  <2>1. SUFFICES ASSUME IInv PROVE WaitsWithReason
    OBVIOUS
  <2>2. Reasons(IdsOf(Queued(queue)), queue.awaiting)
    BY <2>1, Zenon DEF IInv, Sound
  <2> QED BY <2>2, Zenon DEF Reasons, WaitsWithReason
<1> QED BY <1>1, IsInvariant, PTL

\* A blamed change takes its dependants along wherever they stand.
THEOREM DependantsGoAlong == Spec => []FailuresTakeDependants
<1>1. IInv => FailuresTakeDependants
  <2>1. SUFFICES ASSUME IInv PROVE FailuresTakeDependants
    OBVIOUS
  <2>2. Met(IdsOf(Queued(queue)) \cup PassedIds, queue.awaiting)
    BY <2>1, Zenon DEF IInv, Sound
  <2> QED BY <2>2, PassedIdsAre, Zenon DEF Met, FailuresTakeDependants
<1> QED BY <1>1, IsInvariant, PTL

\* Only a change on a loop, or one that requires such a change, is rejected.
THEOREM LoopsAreRejected == Spec => []OnlyLoopsAreRejected
<1>1. IInv => OnlyLoopsAreRejected
  BY Zenon DEF IInv
<1> QED BY <1>1, IsInvariant, PTL

\* The blame for a failure is the first culprit's of its stream.
THEOREM FirstInStreamIsBlamed == Spec => []BlameIsFirstInStream
<1>1. IInv => BlameIsFirstInStream
  <2>1. SUFFICES ASSUME IInv PROVE BlameIsFirstInStream
    OBVIOUS
  <2>2. /\ queue.stream_map = [s \in Streams |-> FirstCulprit(s, judged)]
        /\ CausesOK(judged)
    BY <2>1, Zenon DEF IInv, Tracks
  <2> QED BY <2>2, Zenon DEF CausesOK, BlameIsFirstInStream
<1> QED BY <1>1, IsInvariant, PTL
-----------------------------------------------------------------------------
(* The work-list of _find_dependants_on finds the transitive dependants,   *)
(* for any requirements, loops included, and any order in which the set of *)
(* ids found in a turn is gone through.                                    *)

SearchTypeOK ==
    /\ change_id \in Ids /\ changes \in SUBSET Changes
    /\ depmap \in [Ids -> SUBSET Ids]
    /\ dependants \in SUBSET Ids
    /\ recurse_into \in Seq(Ids)

\* What was found must be in any closed set, ...
OnlyDependants ==
    \A S \in SUBSET Ids : ClosedUnder(change_id, changes, S) => dependants \subseteq S

\* ... an id is taken out of depmap once what it leads to is found, ...
TakenWhenFound ==
    \A id \in Ids :
        /\ depmap[id] \subseteq Needing({id}, changes)
        /\ depmap[id] = Needing({id}, changes) \/ Needing({id}, changes) \subseteq dependants

\* ... and until then it is on the work-list.
NothingForgotten ==
    /\ ToSet(recurse_into) \subseteq {change_id} \cup dependants
    /\ \A id \in {change_id} \cup dependants :
          id \in ToSet(recurse_into) \/ Needing({id}, changes) \subseteq dependants

SearchIInv == SearchTypeOK /\ OnlyDependants /\ TakenWhenFound /\ NothingForgotten

-----------------------------------------------------------------------------
\* A sequence with each member of a set once has those members and no others.
LEMMA SetToSeqsMembers ==
    ASSUME NEW S, IsFiniteSet(S), NEW s \in SetToSeqs(S)
    PROVE  s \in Seq(S) /\ ToSet(s) = S
<1> DEFINE D == 1..Cardinality(S)
<1>1. Cardinality(S) \in Nat
  BY FS_CardinalityType
<1>2. s \in [D -> S] /\ s \in Injection(D, S)
  BY DEF SetToSeqs, Injection, IsInjective
<1>3. Cardinality(D) = Cardinality(S)
  BY <1>1, FS_Interval
<1>4. s \in Surjection(D, S)
  BY <1>2, <1>3, FS_Injection
<1>5. s \in Seq(S)
  BY <1>1, <1>2
<1>6. ToSet(s) = S
  BY <1>2, <1>4 DEF ToSet, Surjection
<1> QED BY <1>5, <1>6

\* A member of a sequence is at one of its positions.
LEMMA MemberAt ==
    ASSUME NEW S, NEW s \in Seq(S)
    PROVE  \A x : x \in ToSet(s) <=> \E i \in 1..Len(s) : x = s[i]
BY DEF ToSet

LEMMA ConcatMembers ==
    ASSUME NEW S, NEW s \in Seq(S), NEW t \in Seq(S)
    PROVE  ToSet(s \o t) = ToSet(s) \cup ToSet(t)
<1> PICK u \in Seq(S) : u = s \o t
  BY ConcatProperties
<1>1. Len(u) = Len(s) + Len(t)
  OBVIOUS
<1>2. ASSUME NEW x \in ToSet(u) PROVE x \in ToSet(s) \cup ToSet(t)
  <2>1. PICK i \in 1..Len(u) : x = u[i]
    BY <1>2, MemberAt
  <2>2. CASE i <= Len(s)
    <3>1. i \in 1..Len(s) /\ x = s[i]
      BY <1>1, <2>1, <2>2
    <3> QED BY <3>1, MemberAt
  <2>3. CASE i > Len(s)
    <3>1. i - Len(s) \in 1..Len(t) /\ x = t[i - Len(s)]
      BY <1>1, <2>1, <2>3
    <3> QED BY <3>1, MemberAt
  <2> QED BY <2>2, <2>3
<1>3. ASSUME NEW x \in ToSet(s) PROVE x \in ToSet(u)
  <2>1. PICK i \in 1..Len(s) : x = s[i]
    BY <1>3, MemberAt
  <2>2. i \in 1..Len(u) /\ u[i] = x
    BY <1>1, <2>1
  <2> QED BY <2>2, MemberAt
<1>4. ASSUME NEW x \in ToSet(t) PROVE x \in ToSet(u)
  <2>1. PICK i \in 1..Len(t) : x = t[i]
    BY <1>4, MemberAt
  <2>2. i + Len(s) \in 1..Len(u) /\ u[i + Len(s)] = x
    BY <1>1, <2>1
  <2> QED BY <2>2, MemberAt
<1>5. ToSet(u) = ToSet(s) \cup ToSet(t)
  BY <1>2, <1>3, <1>4
<1> QED BY <1>5

\* The members of a work-list when the first is taken off and others added.
LEMMA TailMembers ==
    ASSUME NEW S, NEW s \in Seq(S), s # << >>, NEW t \in Seq(S)
    PROVE  /\ Head(s) \in S
           /\ Tail(s) \o t \in Seq(S)
           /\ ToSet(s) = {Head(s)} \cup ToSet(Tail(s))
           /\ ToSet(Tail(s) \o t) = ToSet(Tail(s)) \cup ToSet(t)
<1>1. Head(s) \in S /\ Tail(s) \in Seq(S) /\ Tail(s) \o t \in Seq(S)
  BY HeadTailProperties, ConcatProperties
<1>2. ToSet(Tail(s) \o t) = ToSet(Tail(s)) \cup ToSet(t)
  BY <1>1, ConcatMembers
<1>3. PICK h \in S : h = Head(s)
  BY <1>1
<1>4. PICK one \in Seq(S) : one = << h >>
  <2>1. << h >> \in Seq(S)
    OBVIOUS
  <2> QED BY <2>1, Zenon
<1>5. s = one \o Tail(s)
  BY <1>1, <1>3, <1>4
<1>6. ToSet(one) = {h}
  BY <1>4 DEF ToSet
<1>7. ToSet(s) = ToSet(one) \cup ToSet(Tail(s))
  BY <1>1, <1>5, ConcatMembers, Zenon
<1> QED BY <1>1, <1>2, <1>3, <1>6, <1>7

\* What needs one of a set of ids needs one of its members.
LEMMA NeedingMembers ==
    ASSUME NEW ids, NEW cs
    PROVE  /\ \A S : ids \subseteq S => Needing(ids, cs) \subseteq Needing(S, cs)
           /\ \A T : (\A id \in ids : Needing({id}, cs) \subseteq T)
                        => Needing(ids, cs) \subseteq T
BY DEF Needing

LEMMA NeedingType ==
    ASSUME NEW ids, NEW cs \in SUBSET Changes
    PROVE  Needing(ids, cs) \in SUBSET Ids
BY DependenciesAssumption DEF Needing
-----------------------------------------------------------------------------
LEMMA SearchStarts == SearchInit => SearchIInv
<1> SUFFICES ASSUME SearchInit PROVE SearchIInv
  OBVIOUS
<1>1. changes \in SUBSET Changes
  BY InputsAssumption DEF SearchInit
<1>2. SearchTypeOK
  BY <1>1, NeedingType DEF SearchInit, BuildDepmap, SearchTypeOK
<1>3. ToSet(recurse_into) = {change_id}
  BY DEF SearchInit, ToSet
<1> QED
  BY <1>2, <1>3 DEF SearchIInv, SearchInit, BuildDepmap, OnlyDependants, TakenWhenFound, NothingForgotten

LEMMA SearchTurns ==
    ASSUME SearchIInv, Turn
    PROVE  SearchIInv'
<1> DEFINE c_id   == Head(recurse_into)
           c_deps == depmap[c_id] \ dependants
<1>1. PICK found \in SetToSeqs(c_deps) : recurse_into' = Tail(recurse_into) \o found
  BY DEF Turn
<1>2. /\ recurse_into # << >>
      /\ depmap' = [depmap EXCEPT ![c_id] = {}]
      /\ dependants' = dependants \cup c_deps
      /\ change_id' = change_id /\ changes' = changes
  BY DEF Turn
<1>3. c_id \in Ids /\ c_deps \in SUBSET Ids
  BY <1>2, HeadTailProperties DEF SearchIInv, SearchTypeOK
<1>4. found \in Seq(Ids) /\ ToSet(found) = c_deps
  <2>1. IsFiniteSet(c_deps)
    BY <1>3, InputsAssumption, FS_Subset
  <2>2. found \in Seq(c_deps) /\ ToSet(found) = c_deps
    BY <1>1, <2>1, SetToSeqsMembers
  <2> QED BY <1>3, <2>2
<1>5. /\ recurse_into' \in Seq(Ids)
      /\ ToSet(recurse_into) = {c_id} \cup ToSet(Tail(recurse_into))
      /\ ToSet(recurse_into') = ToSet(Tail(recurse_into)) \cup c_deps
  BY <1>1, <1>2, <1>4, TailMembers DEF SearchIInv, SearchTypeOK
<1> HIDE DEF c_id, c_deps
<1>6. SearchTypeOK'
  BY <1>2, <1>3, <1>5 DEF SearchIInv, SearchTypeOK
<1>7. c_deps \subseteq Needing({c_id}, changes)
  BY <1>3 DEF c_deps, SearchIInv, TakenWhenFound
<1>8. Needing({c_id}, changes) \subseteq dependants'
  BY <1>2, <1>3 DEF c_deps, SearchIInv, TakenWhenFound
<1>9. OnlyDependants'
  <2> SUFFICES ASSUME NEW S \in SUBSET Ids, ClosedUnder(change_id, changes, S)
               PROVE  dependants' \subseteq S
    BY <1>2 DEF OnlyDependants
  <2>1. dependants \subseteq S
    BY DEF SearchIInv, OnlyDependants
  <2>2. c_id \in {change_id} \cup S
    BY <1>5, <2>1 DEF SearchIInv, NothingForgotten
  <2>3. Needing({c_id}, changes) \subseteq S
    BY <2>2, NeedingMembers DEF ClosedUnder
  <2> QED BY <1>2, <1>7, <2>1, <2>3
<1>10. TakenWhenFound'
  <2> SUFFICES ASSUME NEW id \in Ids
               PROVE  /\ depmap'[id] \subseteq Needing({id}, changes)
                      /\ \/ depmap'[id] = Needing({id}, changes)
                         \/ Needing({id}, changes) \subseteq dependants'
    BY <1>2 DEF TakenWhenFound
  <2>1. CASE id = c_id
    BY <1>2, <1>3, <1>8, <2>1 DEF SearchIInv, SearchTypeOK
  <2>2. CASE id # c_id
    BY <1>2, <1>3, <2>2 DEF SearchIInv, TakenWhenFound, SearchTypeOK
  <2> QED BY <2>1, <2>2
<1>11. NothingForgotten'
  BY <1>2, <1>5, <1>8 DEF SearchIInv, NothingForgotten
<1> QED BY <1>6, <1>9, <1>10, <1>11 DEF SearchIInv

LEMMA SearchIInvFinds ==
    ASSUME SearchIInv
    PROVE  FindsTheDependants
<1> SUFFICES ASSUME recurse_into = << >>
             PROVE  dependants = DependantsOn(change_id, changes)
  BY DEF FindsTheDependants
<1>1. ToSet(recurse_into) = {}
  BY DEF ToSet
<1>2. \A id \in {change_id} \cup dependants : Needing({id}, changes) \subseteq dependants
  BY <1>1 DEF SearchIInv, NothingForgotten
<1>3. ClosedUnder(change_id, changes, dependants)
  BY <1>2, NeedingMembers DEF ClosedUnder
<1>4. dependants \in SUBSET Ids
  BY DEF SearchIInv, SearchTypeOK
<1>5. DependantsOn(change_id, changes) \subseteq dependants
  BY <1>3, <1>4 DEF DependantsOn
<1>6. dependants \subseteq DependantsOn(change_id, changes)
  BY <1>4 DEF DependantsOn, SearchIInv, OnlyDependants
<1> QED BY <1>5, <1>6

(***************************************************************************)
(* _find_dependants_on is partially correct: if its loop ends, it has      *)
(* found the ids of all changes that depend on change_id and no others.    *)
(***************************************************************************)
THEOREM SearchFindsDependants == SearchSpec => []FindsTheDependants
<1>1. SearchIInv /\ [SearchNext]_searchVars => SearchIInv'
  <2> SUFFICES ASSUME SearchIInv, [SearchNext]_searchVars PROVE SearchIInv'
    OBVIOUS
  <2>1. CASE Turn
    BY <2>1, SearchTurns
  <2>2. CASE UNCHANGED searchVars
    BY <2>2 DEF SearchIInv, SearchTypeOK, OnlyDependants, TakenWhenFound, NothingForgotten, searchVars
  <2> QED BY <2>1, <2>2 DEF SearchNext, Returned
<1> QED BY SearchStarts, <1>1, SearchIInvFinds, PTL DEF SearchSpec
=============================================================================
