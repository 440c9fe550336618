------------------------------- MODULE Lemmas -------------------------------
(***************************************************************************)
(* What the proofs share: the least member of a set of natural numbers,    *)
(* induction on such a set, what FlattenSeq, which stands for              *)
(* itertools.chain.from_iterable, and Picked yield for every sequence, and *)
(* what the steps on the deque of sections leave of it, for members of any *)
(* kind.                                                                   *)
(***************************************************************************)
EXTENDS Sections, Picks, WellFoundedInduction,
        SequenceTheorems, TLAPS

Less == {ss \in Nat \X Nat : ss[1] < ss[2]}

\* Every non-empty set of natural numbers has a least member.
LEMMA LeastNat ==
    ASSUME NEW T, T \subseteq Nat, T # {}
    PROVE  \E x \in T : \A y \in T : x <= y
<1>1. IsWellFoundedOn(Less, Nat)
  BY NatLessThanWellFounded DEF OpToRel, Less
<1>2. PICK x \in T : \A y \in T : ~ (<<y, x>> \in Less)
  BY <1>1, WFMin
<1>3. SUFFICES ASSUME NEW y \in T, y < x PROVE FALSE
  OBVIOUS
<1>4. <<y, x>> \in Less
  BY <1>3 DEF Less
<1> QED BY <1>2, <1>4

\* A set with 0 and, with each natural number, the next, has all of them.
LEMMA SetInduction ==
    ASSUME NEW T, 0 \in T, \A n \in T \cap Nat : n + 1 \in T
    PROVE  Nat \subseteq T
<1> DEFINE M == Nat \ T
<1>1. SUFFICES ASSUME M # {} PROVE FALSE
  OBVIOUS
<1>2. PICK x \in M : \A y \in M : x <= y
  BY <1>1, LeastNat
<1>3. x \in Nat /\ x # 0 /\ (x - 1) + 1 = x
  OBVIOUS
<1>4. x - 1 \in T \cap Nat
  BY <1>2, <1>3
<1>5. (x - 1) + 1 \in T
  BY <1>4
<1> QED BY <1>3, <1>5

Step(ss, f, i) == IF i = 1 THEN ss[i] ELSE f[i-1] \o ss[i]

\* The function f is the one FlattenSeq(ss) defines on 1..n.
Flattens(f, ss, n) == f = [i \in 1..n |-> Step(ss, f, i)]

LEMMA FlattensAt ==
    ASSUME NEW ss, NEW n \in Nat, NEW f, Flattens(f, ss, n), NEW i \in 1..n
    PROVE  f[i] = Step(ss, f, i)
BY DEF Flattens

LEMMA FlattensExists ==
    ASSUME NEW S, NEW ss \in Seq(Seq(S))
    PROVE  \A n \in 0..Len(ss) : \E f \in [1..n -> Seq(S)] : Flattens(f, ss, n)
<1> DEFINE T == {n \in Nat : n <= Len(ss) =>
                       \E f \in [1..n -> Seq(S)] : Flattens(f, ss, n)}
<1>1. 0 \in T
  <2> DEFINE e == [i \in 1..0 |-> << >>]
  <2>1. e \in [1..0 -> Seq(S)] /\ Flattens(e, ss, 0)
    BY DEF Flattens, Step
  <2> QED BY <2>1
<1>2. \A n \in T \cap Nat : n + 1 \in T
  <2>1. SUFFICES ASSUME NEW n \in T \cap Nat, n + 1 <= Len(ss)
                 PROVE  \E g \in [1..(n+1) -> Seq(S)] : Flattens(g, ss, n + 1)
    OBVIOUS
  <2>2. PICK f \in [1..n -> Seq(S)] : Flattens(f, ss, n)
    BY <2>1
  <2> DEFINE g == [i \in 1..(n+1) |-> IF i = n + 1 THEN Step(ss, f, i) ELSE f[i]]
  <2>3. Step(ss, f, n + 1) \in Seq(S)
    BY <2>1, <2>2, ConcatProperties DEF Step
  <2>4. g \in [1..(n+1) -> Seq(S)]
    BY <2>2, <2>3
  <2>5. ASSUME NEW i \in 1..(n+1) PROVE g[i] = Step(ss, g, i)
    <3>1. i # 1 => i - 1 \in 1..n /\ g[i - 1] = f[i - 1]
      OBVIOUS
    <3>2. i # n + 1 => i \in 1..n
      OBVIOUS
    <3>3. i # n + 1 => f[i] = Step(ss, f, i)
      BY <2>2, <3>2, FlattensAt
    <3>4. g[i] = Step(ss, f, i)
      BY <3>3
    <3> HIDE DEF g
    <3> QED BY <3>1, <3>4 DEF Step
  <2>6. Flattens(g, ss, n + 1)
    BY <2>4, <2>5 DEF Flattens
  <2> QED BY <2>4, <2>6
<1>3. Nat \subseteq T
  <2> HIDE DEF T
  <2> QED BY <1>1, <1>2, SetInduction
<1> QED BY <1>3

LEMMA FlattensUnique ==
    ASSUME NEW S, NEW ss \in Seq(Seq(S)), NEW n \in 0..Len(ss),
           NEW f, Flattens(f, ss, n), NEW g, Flattens(g, ss, n)
    PROVE  f = g
<1> DEFINE T == {i \in Nat : i \in 1..n => f[i] = g[i]}
<1>1. 0 \in T
  OBVIOUS
<1>2. ASSUME NEW i \in T \cap Nat PROVE i + 1 \in T
  <2>1. SUFFICES ASSUME i + 1 \in 1..n PROVE f[i + 1] = g[i + 1]
    OBVIOUS
  <2>2. f[i + 1] = Step(ss, f, i + 1) /\ g[i + 1] = Step(ss, g, i + 1)
    BY <2>1 DEF Flattens
  <2>3. CASE i = 0
    BY <2>2, <2>3 DEF Step
  <2>4. CASE i # 0
    <3>1. f[i] = g[i] /\ (i + 1) - 1 = i /\ i + 1 # 1
      BY <2>1, <2>4
    <3> QED BY <2>2, <3>1 DEF Step
  <2> QED BY <2>3, <2>4
<1>3. Nat \subseteq T
  <2> HIDE DEF T
  <2> QED BY <1>1, <1>2, SetInduction
<1>4. \A i \in 1..n : f[i] = g[i]
  BY <1>3
<1> QED BY <1>4 DEF Flattens

LEMMA FlattenIsLast ==
    ASSUME NEW S, NEW ss \in Seq(Seq(S)), Len(ss) > 0,
           NEW f, Flattens(f, ss, Len(ss))
    PROVE  FlattenSeq(ss) = f[Len(ss)]
<1> DEFINE g == CHOOSE g : Flattens(g, ss, Len(ss))
<1>1. FlattenSeq(ss) = g[Len(ss)]
  BY DEF FlattenSeq, Flattens, Step
<1>2. Flattens(g, ss, Len(ss))
  OBVIOUS
<1>3. f = g
  <2> HIDE DEF g
  <2> QED BY <1>2, FlattensUnique
<1> QED BY <1>1, <1>3

LEMMA EmptyIfNoLen ==
    ASSUME NEW U, NEW s \in Seq(U), Len(s) = 0
    PROVE  s = << >>
OBVIOUS

\* \o under a name of its own, for steps that only need it to associate.
Cat(s, t) == s \o t

LEMMA Associates ==
    \A U : \A s, t, u \in Seq(U) : Cat(Cat(s, t), u) = Cat(s, Cat(t, u))
BY ConcatAssociative DEF Cat

LEMMA FlattenEmpty == FlattenSeq(<< >>) = << >>
BY DEF FlattenSeq

\* The flattening of sequences over S is a sequence over S.
LEMMA FlattenType ==
    ASSUME NEW S, NEW ss \in Seq(Seq(S))
    PROVE  FlattenSeq(ss) \in Seq(S)
<1>1. CASE Len(ss) = 0
  <2>1. ss = << >>
    BY <1>1
  <2> QED BY <2>1, FlattenEmpty, EmptySeq, Zenon
<1>2. CASE Len(ss) > 0
  <2> DEFINE n == Len(ss)
  <2>1. n \in 1..n /\ n \in 0..n
    BY <1>2, LenProperties
  <2>2. PICK f \in [1..n -> Seq(S)] : Flattens(f, ss, n)
    BY <2>1, FlattensExists, Zenon
  <2>3. FlattenSeq(ss) = f[n]
    BY <1>2, <2>2, FlattenIsLast, Zenon
  <2> HIDE DEF n
  <2> QED BY <2>1, <2>2, <2>3, Zenon
<1> QED BY <1>1, <1>2, LenProperties

\* A section put last comes last.
LEMMA FlattenLonger ==
    ASSUME NEW S, NEW ss \in Seq(Seq(S)), NEW tt \in Seq(Seq(S)), NEW n,
           n = Len(ss), Len(tt) = n + 1, \A i \in 1..n : tt[i] = ss[i]
    PROVE  FlattenSeq(tt) = FlattenSeq(ss) \o tt[n + 1]
<1>1. n \in Nat /\ n + 1 > 0 /\ n + 1 \in 0..(n + 1) /\ n + 1 \in 1..(n + 1)
      /\ (n + 1) - 1 = n
  BY LenProperties
<1>2. PICK g \in [1..(n+1) -> Seq(S)] : Flattens(g, tt, n + 1)
  BY <1>1, FlattensExists, Zenon
<1>3. FlattenSeq(tt) = g[n + 1]
  BY <1>1, <1>2, FlattenIsLast, Zenon
<1>4. g[n + 1] = Step(tt, g, n + 1)
  <2>1. n + 1 \in Nat
    BY <1>1
  <2> QED BY <1>1, <1>2, <2>1, FlattensAt, Zenon
<1>5. CASE n = 0
  <2>1. g[n + 1] = tt[n + 1]
    BY <1>4, <1>5 DEF Step
  <2>2. ss = << >>
    BY <1>5, EmptyIfNoLen, Zenon
  <2>3. tt[n + 1] \in Seq(S)
    BY <1>1, <1>2, <2>1, Zenon
  <2> QED BY <1>3, <2>1, <2>2, <2>3, FlattenEmpty, ConcatEmptySeq, Zenon
<1>6. CASE n > 0
  <2> DEFINE f == [i \in 1..n |-> g[i]]
  <2>1. ASSUME NEW i \in 1..n PROVE f[i] = Step(ss, f, i)
    <3>1. n + 1 \in Nat /\ i \in 1..(n + 1)
      BY <1>1
    <3>2. g[i] = Step(tt, g, i)
      BY <1>2, <3>1, FlattensAt, Zenon
    <3>3. f[i] = g[i] /\ tt[i] = ss[i] /\ (i # 1 => f[i - 1] = g[i - 1])
      BY <1>1
    <3> HIDE DEF f
    <3> QED BY <3>2, <3>3, Zenon DEF Step
  <2>2. Flattens(f, ss, n)
    BY <2>1 DEF Flattens
  <2>3. FlattenSeq(ss) = f[n]
    <3> HIDE DEF f
    <3> QED BY <1>6, <2>2, FlattenIsLast, Zenon
  <2>4. f[n] = g[n] /\ n + 1 # 1
    BY <1>1, <1>6
  <2>5. g[n + 1] = g[n] \o tt[n + 1]
    BY <1>1, <1>4, <2>4, Zenon DEF Step
  <2> HIDE DEF f
  <2> QED BY <1>3, <2>3, <2>4, <2>5, Zenon
<1> QED BY <1>1, <1>5, <1>6

LEMMA FlattenAppend ==
    ASSUME NEW S, NEW ss \in Seq(Seq(S)), NEW s \in Seq(S)
    PROVE  FlattenSeq(Append(ss, s)) = FlattenSeq(ss) \o s
<1>1. PICK U : U = Seq(S)
  OBVIOUS
<1>2. ss \in Seq(U) /\ s \in U
  BY <1>1, Zenon
<1>3. PICK tt : tt = Append(ss, s)
  OBVIOUS
<1>4. tt \in Seq(U) /\ Len(tt) = Len(ss) + 1
      /\ (\A i \in 1..Len(ss) : tt[i] = ss[i]) /\ tt[Len(ss) + 1] = s
  BY <1>2, <1>3, AppendProperties
<1>5. FlattenSeq(tt) = FlattenSeq(ss) \o tt[Len(ss) + 1]
  BY <1>1, <1>4, FlattenLonger, Zenon
<1> QED BY <1>3, <1>4, <1>5, Zenon

LEMMA FlattenSingle ==
    ASSUME NEW S, NEW s \in Seq(S)
    PROVE  FlattenSeq(<< s >>) = s
<1>1. << s >> = Append(<< >>, s) /\ << >> \in Seq(Seq(S))
  OBVIOUS
<1>2. FlattenSeq(Append(<< >>, s)) = FlattenSeq(<< >>) \o s
  BY <1>1, FlattenAppend, Zenon
<1>3. << >> \o s = s
  OBVIOUS
<1> QED BY <1>1, <1>2, <1>3, FlattenEmpty, Zenon

\* A section put first comes first.
LEMMA FlattenCons ==
    ASSUME NEW S, NEW s \in Seq(S), NEW ss \in Seq(Seq(S))
    PROVE  FlattenSeq(<< s >> \o ss) = s \o FlattenSeq(ss)
<1> DEFINE T == {n \in Nat : \A tt \in Seq(Seq(S)) :
                     Len(tt) = n => FlattenSeq(<< s >> \o tt) = s \o FlattenSeq(tt)}
<1>1. 0 \in T
  <2>1. SUFFICES ASSUME NEW tt \in Seq(Seq(S)), Len(tt) = 0
                 PROVE  FlattenSeq(<< s >> \o tt) = s \o FlattenSeq(tt)
    OBVIOUS
  <2>2. tt = << >> /\ << s >> \o << >> = << s >>
    BY <2>1
  <2> QED BY <2>2, FlattenEmpty, FlattenSingle, ConcatEmptySeq, Zenon
<1>2. ASSUME NEW n \in T \cap Nat PROVE n + 1 \in T
  <2>0. n + 1 \in Nat
    OBVIOUS
  <2>1. SUFFICES ASSUME NEW tt \in Seq(Seq(S)), Len(tt) = n + 1
                 PROVE  FlattenSeq(<< s >> \o tt) = s \o FlattenSeq(tt)
    BY <2>0, Zenon
  <2>2. PICK uu \in Seq(Seq(S)), u \in Seq(S) : tt = Append(uu, u)
    <3>1. tt # << >>
      BY <2>1
    <3> QED BY <3>1, SequenceEmptyOrAppend, Zenon
  <2>3. Len(uu) = n
    BY <2>1, <2>2
  <2>4. FlattenSeq(<< s >> \o uu) = s \o FlattenSeq(uu)
    BY <2>3, Zenon
  <2>5. << s >> \o tt = Append(<< s >> \o uu, u) /\ << s >> \o uu \in Seq(Seq(S))
    BY <2>2
  <2>6. FlattenSeq(<< s >> \o tt) = FlattenSeq(<< s >> \o uu) \o u
    BY <2>5, FlattenAppend, Zenon
  <2>7. FlattenSeq(tt) = FlattenSeq(uu) \o u
    BY <2>2, FlattenAppend, Zenon
  <2>8. FlattenSeq(uu) \in Seq(S)
    BY FlattenType, Zenon
  <2>9. FlattenSeq(<< s >> \o tt) = Cat(Cat(s, FlattenSeq(uu)), u)
    BY <2>4, <2>6, Zenon DEF Cat
  <2>10. FlattenSeq(<< s >> \o tt) = Cat(s, Cat(FlattenSeq(uu), u))
    <3>1. \A t \in Seq(S) : Cat(Cat(s, t), u) = Cat(s, Cat(t, u))
      BY Associates, SMT
    <3>2. Cat(Cat(s, FlattenSeq(uu)), u) = Cat(s, Cat(FlattenSeq(uu), u))
      BY <2>8, <3>1, Zenon
    <3> QED BY <2>9, <3>2, Zenon
  <2> QED BY <2>7, <2>10, Zenon DEF Cat
<1>3. Nat \subseteq T
  <2> HIDE DEF T
  <2> QED BY <1>1, <1>2, SetInduction
<1>4. Len(ss) \in Nat
  OBVIOUS
<1>5. Len(ss) \in T
  <2> HIDE DEF T
  <2> QED BY <1>3, <1>4
<1> QED BY <1>5, Zenon

\* The first section comes first.
LEMMA FlattenHead ==
    ASSUME NEW S, NEW ss \in Seq(Seq(S)), ss # << >>
    PROVE  FlattenSeq(ss) = Cat(Head(ss), FlattenSeq(Tail(ss)))
<1>1. Head(ss) \in Seq(S) /\ Tail(ss) \in Seq(Seq(S)) /\ ss = << Head(ss) >> \o Tail(ss)
  <2>1. PICK U : U = Seq(S)
    OBVIOUS
  <2>2. Head(ss) \in U /\ Tail(ss) \in Seq(U) /\ ss = << Head(ss) >> \o Tail(ss)
    BY <2>1
  <2> QED BY <2>1, <2>2
<1>2. FlattenSeq(<< Head(ss) >> \o Tail(ss)) = Head(ss) \o FlattenSeq(Tail(ss))
  BY <1>1, FlattenCons, Zenon
<1> QED BY <1>1, <1>2, Zenon DEF Cat

\* A sequence with its last element replaced.
WithLast(s, v) == [s EXCEPT ![Len(s)] = v]

LEMMA LastReplaced ==
    ASSUME NEW U, NEW s \in Seq(U), s # << >>, NEW v \in U
    PROVE  /\ WithLast(s, v) \in Seq(U) /\ Len(WithLast(s, v)) = Len(s)
           /\ WithLast(s, v)[Len(s)] = v
           /\ \A i \in 1..(Len(s) - 1) : WithLast(s, v)[i] = s[i]
BY DEF WithLast

\* What is put at the end of the last section comes last.
LEMMA FlattenAddLast ==
    ASSUME NEW S, NEW ss \in Seq(Seq(S)), ss # << >>, NEW e \in S
    PROVE  FlattenSeq([ss EXCEPT ![Len(ss)] = Append(@, e)]) = Append(FlattenSeq(ss), e)
<1>1. PICK U : U = Seq(S)
  OBVIOUS
<1>2. PICK uu \in Seq(U), u \in U : ss = Append(uu, u)
  BY <1>1, SequenceEmptyOrAppend, Zenon
<1>3. /\ Len(uu) \in Nat /\ Len(ss) = Len(uu) + 1 /\ Len(ss) - 1 = Len(uu)
      /\ ss[Len(ss)] = u /\ ss \in Seq(U) /\ \A i \in 1..Len(uu) : ss[i] = uu[i]
  BY <1>2, AppendProperties
<1>4. PICK v : v = Append(u, e)
  OBVIOUS
<1>5. PICK tt : tt = WithLast(ss, v)
  OBVIOUS
<1>6. v \in U
  BY <1>1, <1>2, <1>4, AppendProperties
<1>7. /\ tt \in Seq(U) /\ Len(tt) = Len(uu) + 1 /\ tt[Len(uu) + 1] = v
      /\ \A i \in 1..Len(uu) : tt[i] = uu[i]
  <2>1. /\ tt \in Seq(U) /\ Len(tt) = Len(ss) /\ tt[Len(ss)] = v
        /\ \A i \in 1..(Len(ss) - 1) : tt[i] = ss[i]
    <3>1. ss # << >>
      OBVIOUS
    <3>2. \A w \in U :
             /\ WithLast(ss, w) \in Seq(U) /\ Len(WithLast(ss, w)) = Len(ss)
             /\ WithLast(ss, w)[Len(ss)] = w
             /\ \A i \in 1..(Len(ss) - 1) : WithLast(ss, w)[i] = ss[i]
      BY <1>3, <3>1, LastReplaced, Zenon
    <3> QED BY <1>5, <1>6, <3>2, Zenon
  <2> QED BY <1>3, <2>1, Zenon
<1>8. uu \in Seq(Seq(S)) /\ tt \in Seq(Seq(S)) /\ u \in Seq(S) /\ v \in Seq(S)
  BY <1>1, <1>2, <1>6, <1>7, Zenon
<1>9. FlattenSeq(ss) = FlattenSeq(uu) \o u /\ FlattenSeq(tt) = FlattenSeq(uu) \o v
  <2>1. FlattenSeq(tt) = FlattenSeq(uu) \o tt[Len(uu) + 1]
    BY <1>7, <1>8, FlattenLonger, Zenon
  <2> QED BY <1>2, <1>7, <1>8, <2>1, FlattenAppend, Zenon
<1>10. FlattenSeq(uu) \in Seq(S)
  BY <1>8, FlattenType, Zenon
<1>11. \A f \in Seq(S) : f \o v = Append(f \o u, e)
  BY <1>4, <1>8
<1>12. tt = [ss EXCEPT ![Len(ss)] = Append(@, e)]
  BY <1>3, <1>4, <1>5, Zenon DEF WithLast
<1> QED BY <1>9, <1>10, <1>11, <1>12, Zenon
-----------------------------------------------------------------------------
(* What Picked yields: the members at the positions asked for, in order.    *)

\* The function f is the one Picked(s, I) defines, on 0..n.
Picks(f, s, I, n) ==
    f = [k \in 0..n |-> IF k = 0 THEN << >>
                        ELSE IF k \in I THEN Append(f[k - 1], s[k]) ELSE f[k - 1]]

LEMMA PicksExist ==
    ASSUME NEW s, NEW I
    PROVE  \A n \in Nat : \E f : Picks(f, s, I, n)
<1> DEFINE T == {n \in Nat : \E f : Picks(f, s, I, n)}
<1>1. 0 \in T
  <2> DEFINE e == [k \in 0..0 |-> << >>]
  <2>1. Picks(e, s, I, 0)
    BY DEF Picks
  <2> QED BY <2>1
<1>2. ASSUME NEW n \in T \cap Nat PROVE n + 1 \in T
  <2>1. n \in Nat /\ \E f : Picks(f, s, I, n)
    OBVIOUS
  <2> PICK f : Picks(f, s, I, n)
    BY <2>1
  <2> HIDE DEF T
  <2> DEFINE next(k) == IF k = 0 THEN << >>
                        ELSE IF k \in I THEN Append(f[k - 1], s[k]) ELSE f[k - 1]
             g == [k \in 0..(n + 1) |-> next(k)]
  <2>2. \A k \in 0..n : g[k] = f[k]
    <3>1. \A k \in 0..n : f[k] = next(k)
      BY DEF Picks
    <3>2. \A k \in 0..n : k \in 0..(n + 1)
      BY <2>1
    <3> QED BY <3>1, <3>2
  <2>3. \A k \in 0..(n + 1) : k # 0 => k - 1 \in 0..n /\ g[k - 1] = f[k - 1]
    <3>1. \A k \in 0..(n + 1) : k # 0 => k - 1 \in 0..n
      BY <2>1
    <3> HIDE DEF g
    <3> QED BY <2>2, <3>1
  <2>4. \A k \in 0..(n + 1) :
           g[k] = IF k = 0 THEN << >>
                  ELSE IF k \in I THEN Append(g[k - 1], s[k]) ELSE g[k - 1]
    BY <2>3
  <2>5. Picks(g, s, I, n + 1)
    <3>1. g = [k \in 0..(n + 1) |-> g[k]]
      OBVIOUS
    <3> HIDE DEF g
    <3> QED BY <2>4, <3>1 DEF Picks
  <2> HIDE DEF g
  <2> QED BY <2>1, <2>5 DEF T
<1>3. Nat \subseteq T
  <2> HIDE DEF T
  <2> QED BY <1>1, <1>2, SetInduction
<1> QED BY <1>3

\* The places p[1], p[2], ... of s, all of I up to n, are where t was picked.
PickedFrom(p, t, s, I, n) ==
    /\ p \in [1..Len(t) -> I \cap (1..n)]
    /\ \A j, k \in 1..Len(t) : j < k => p[j] < p[k]
    /\ \A i \in I \cap (1..n) : \E k \in 1..Len(t) : p[k] = i
    /\ \A k \in 1..Len(t) : t[k] = s[p[k]]

LEMMA PickedFromNext ==
    ASSUME NEW S, NEW s \in Seq(S), NEW I, NEW n \in Nat, n + 1 <= Len(s),
           NEW t \in Seq(S), NEW p, PickedFrom(p, t, s, I, n)
    PROVE  \E u, r : /\ u = IF n + 1 \in I THEN Append(t, s[n + 1]) ELSE t
                     /\ u \in Seq(S) /\ PickedFrom(r, u, s, I, n + 1)
<1>1. CASE n + 1 \in I
  <2>1. PICK u : u = Append(t, s[n + 1])
    OBVIOUS
  <2>2. PICK l \in Nat : l = Len(t)
    OBVIOUS
  <2>3. /\ u \in Seq(S) /\ Len(u) = l + 1 /\ u[l + 1] = s[n + 1]
        /\ \A k \in 1..l : u[k] = t[k]
    BY <2>1, <2>2
  <2> DEFINE r == [k \in 1..(l + 1) |-> IF k = l + 1 THEN n + 1 ELSE p[k]]
  <2>4. \A k \in 1..l : r[k] = p[k] /\ p[k] \in I \cap (1..n)
    BY <2>2 DEF PickedFrom
  <2>5. r[l + 1] = n + 1
    OBVIOUS
  <2>6. \A k \in 1..(l + 1) : k = l + 1 \/ k \in 1..l
    OBVIOUS
  <2>7. r \in [1..(l + 1) -> I \cap (1..(n + 1))]
    <3>1. I \cap (1..n) \subseteq I \cap (1..(n + 1)) /\ n + 1 \in I \cap (1..(n + 1))
      BY <1>1
    <3>2. \A k \in 1..(l + 1) : r[k] \in I \cap (1..(n + 1))
      BY <2>4, <2>5, <2>6, <3>1
    <3> QED BY <3>2
  <2> HIDE DEF r
  <2>8. \A j, k \in 1..(l + 1) : j < k => r[j] < r[k]
    <3>1. SUFFICES ASSUME NEW j \in 1..(l + 1), NEW k \in 1..(l + 1), j < k
                   PROVE  r[j] < r[k]
      OBVIOUS
    <3>2. j \in 1..l
      BY <3>1
    <3>3. CASE k = l + 1
      BY <2>4, <2>5, <3>2, <3>3
    <3>4. CASE k \in 1..l
      BY <2>2, <2>4, <3>1, <3>2, <3>4 DEF PickedFrom
    <3> QED BY <2>6, <3>3, <3>4
  <2>9. \A i \in I \cap (1..(n + 1)) : \E k \in 1..(l + 1) : r[k] = i
    <3>1. SUFFICES ASSUME NEW i \in I \cap (1..(n + 1)) PROVE \E k \in 1..(l + 1) : r[k] = i
      OBVIOUS
    <3>2. CASE i = n + 1
      BY <2>5, <3>2
    <3>3. CASE i # n + 1
      <4>1. i \in I \cap (1..n)
        BY <3>3
      <4>2. PICK k \in 1..l : p[k] = i
        BY <2>2, <4>1 DEF PickedFrom
      <4> QED BY <2>4, <4>2
    <3> QED BY <3>2, <3>3
  <2>10. \A k \in 1..(l + 1) : u[k] = s[r[k]]
    <3>1. \A k \in 1..l : t[k] = s[p[k]]
      BY <2>2 DEF PickedFrom
    <3> QED BY <2>3, <2>4, <2>5, <2>6, <3>1
  <2>11. PickedFrom(r, u, s, I, n + 1)
    BY <2>3, <2>7, <2>8, <2>9, <2>10 DEF PickedFrom
  <2> QED BY <1>1, <2>1, <2>3, <2>11
<1>2. CASE n + 1 \notin I
  <2>1. I \cap (1..(n + 1)) = I \cap (1..n)
    BY <1>2
  <2>2. PickedFrom(p, t, s, I, n + 1)
    BY <2>1 DEF PickedFrom
  <2> QED BY <1>2, <2>2
<1> QED BY <1>1, <1>2

\* The one fact about Picked the others follow from.
LEMMA PickedPlaces ==
    ASSUME NEW S, NEW s \in Seq(S), NEW I
    PROVE  /\ Picked(s, I) \in Seq(S)
           /\ \E p : PickedFrom(p, Picked(s, I), s, I, Len(s))
<1>1. PICK l \in Nat : l = Len(s)
  OBVIOUS
<1> DEFINE f == CHOOSE f : Picks(f, s, I, l)
<1>2. Picks(f, s, I, l)
  BY PicksExist
<1>3. Picked(s, I) = f[l]
  BY <1>1 DEF Picked, Picks
<1> HIDE DEF f
<1> DEFINE T == {n \in Nat : n <= l => f[n] \in Seq(S) /\ \E p : PickedFrom(p, f[n], s, I, n)}
<1>4. 0 \in T
  <2>1. f[0] = << >>
    BY <1>1, <1>2 DEF Picks
  <2>2. PickedFrom(<< >>, << >>, s, I, 0)
    <3>1. Len(<< >>) = 0 /\ 1..0 = {} /\ << >> = [k \in 1..0 |-> k]
      OBVIOUS
    <3>2. << >> \in [1..0 -> I \cap (1..0)]
      BY <3>1
    <3> QED BY <3>1, <3>2 DEF PickedFrom
  <2>3. << >> \in Seq(S)
    OBVIOUS
  <2>4. f[0] \in Seq(S) /\ \E p : PickedFrom(p, f[0], s, I, 0)
    BY <2>1, <2>2, <2>3, Zenon
  <2> QED BY <2>4
<1>5. ASSUME NEW n \in T \cap Nat PROVE n + 1 \in T
  <2>1. SUFFICES ASSUME n \in Nat, n + 1 <= l
                 PROVE  f[n + 1] \in Seq(S) /\ \E p : PickedFrom(p, f[n + 1], s, I, n + 1)
    OBVIOUS
  <2>2. f[n] \in Seq(S) /\ \E p : PickedFrom(p, f[n], s, I, n)
    BY <1>1, <2>1
  <2> HIDE DEF T
  <2> PICK t \in Seq(S) : t = f[n]
    BY <2>2
  <2> PICK p : PickedFrom(p, t, s, I, n)
    BY <2>2
  <2>3. f[n + 1] = IF n + 1 \in I THEN Append(t, s[n + 1]) ELSE t
    <3>1. n + 1 \in 0..l /\ n + 1 # 0 /\ (n + 1) - 1 = n
      BY <2>1
    <3> QED BY <1>2, <3>1 DEF Picks
  <2>4. PICK u, r : /\ u = IF n + 1 \in I THEN Append(t, s[n + 1]) ELSE t
                    /\ u \in Seq(S) /\ PickedFrom(r, u, s, I, n + 1)
    BY <1>1, <2>1, PickedFromNext
  <2> QED BY <2>3, <2>4, Zenon
<1>6. Nat \subseteq T
  <2> HIDE DEF T
  <2> QED BY <1>4, <1>5, SetInduction
<1> QED BY <1>1, <1>3, <1>6
-----------------------------------------------------------------------------
(* The two halves of a section.                                            *)

First(s) == SubSeq(s, 1, Len(s) \div 2)
Second(s) == SubSeq(s, Len(s) \div 2 + 1, Len(s))

LEMMA HalfOf ==
    ASSUME NEW n \in Nat, n # 0, n # 1
    PROVE  /\ n \div 2 \in Nat /\ n \div 2 >= 1 /\ n \div 2 < n
           /\ \A i \in 1..n : i \in 1..(n \div 2) \/ i - n \div 2 \in 1..(n - n \div 2)
OBVIOUS

LEMMA SetOf ==
    ASSUME NEW S, NEW s \in Seq(S), NEW x
    PROVE  x \in ToSet(s) <=> \E i \in 1..Len(s) : x = s[i]
BY DEF ToSet

\* s is a followed by b.
IsCut(s, a, b) ==
    /\ Len(a) + Len(b) = Len(s)
    /\ \A i \in 1..Len(a) : a[i] = s[i]
    /\ \A i \in 1..Len(b) : b[i] = s[Len(a) + i]

LEMMA CutSets ==
    ASSUME NEW S, NEW s \in Seq(S), NEW a \in Seq(S), NEW b \in Seq(S), IsCut(s, a, b)
    PROVE  ToSet(a) \cup ToSet(b) = ToSet(s)
<1> USE DEF IsCut
<1>1. ASSUME NEW x \in ToSet(a) PROVE x \in ToSet(s)
  <2>1. PICK i \in 1..Len(a) : x = a[i]
    BY SetOf
  <2>2. i \in 1..Len(s) /\ x = s[i]
    BY <2>1
  <2> QED BY <2>2, SetOf
<1>2. ASSUME NEW x \in ToSet(b) PROVE x \in ToSet(s)
  <2>1. PICK i \in 1..Len(b) : x = b[i]
    BY SetOf
  <2>2. Len(a) + i \in 1..Len(s) /\ x = s[Len(a) + i]
    BY <2>1
  <2> QED BY <2>2, SetOf
<1>3. ASSUME NEW x \in ToSet(s) PROVE x \in ToSet(a) \/ x \in ToSet(b)
  <2>1. PICK i \in 1..Len(s) : x = s[i]
    BY SetOf
  <2>2. CASE i <= Len(a)
    <3>1. i \in 1..Len(a) /\ x = a[i]
      BY <2>1, <2>2
    <3> QED BY <3>1, SetOf
  <2>3. CASE i > Len(a)
    <3>1. i - Len(a) \in 1..Len(b) /\ Len(a) + (i - Len(a)) = i
      BY <2>3
    <3>2. x = b[i - Len(a)]
      BY <2>1, <3>1
    <3> QED BY <3>1, <3>2, SetOf
  <2> QED BY <2>1, <2>2, <2>3
<1> QED BY <1>1, <1>2, <1>3, Zenon

LEMMA CutAt ==
    ASSUME NEW S, NEW s \in Seq(S), NEW h \in Nat, h < Len(s)
    PROVE  /\ SubSeq(s, 1, h) \in Seq(S) /\ Len(SubSeq(s, 1, h)) = h
           /\ SubSeq(s, h + 1, Len(s)) \in Seq(S)
           /\ Len(SubSeq(s, h + 1, Len(s))) = Len(s) - h
           /\ \A i \in 1..h : SubSeq(s, 1, h)[i] = s[i]
           /\ \A i \in 1..(Len(s) - h) : SubSeq(s, h + 1, Len(s))[i] = s[h + i]
OBVIOUS

\* Neither half is empty when there is something to cut, and nothing is lost.
LEMMA Halves ==
    ASSUME NEW S, NEW s \in Seq(S), Len(s) # 0, Len(s) # 1
    PROVE  /\ First(s) \in Seq(S) /\ First(s) # << >>
           /\ Second(s) \in Seq(S) /\ Second(s) # << >>
           /\ ToSet(First(s)) \cup ToSet(Second(s)) = ToSet(s)
<1>1. PICK h, a, b : h = Len(s) \div 2 /\ a = First(s) /\ b = Second(s)
  OBVIOUS
<1>2. h \in Nat /\ h >= 1 /\ h < Len(s)
  BY <1>1, HalfOf, LenProperties
<1>3. a = SubSeq(s, 1, h) /\ b = SubSeq(s, h + 1, Len(s))
  BY <1>1, Zenon DEF First, Second
<1>4. /\ a \in Seq(S) /\ Len(a) = h
      /\ b \in Seq(S) /\ Len(b) = Len(s) - h
      /\ \A i \in 1..h : a[i] = s[i]
      /\ \A i \in 1..(Len(s) - h) : b[i] = s[h + i]
  BY <1>2, <1>3, CutAt
<1>5. a # << >> /\ b # << >> /\ Len(a) + Len(b) = Len(s)
  BY <1>2, <1>4
<1>6. IsCut(s, a, b)
  BY <1>4, <1>5 DEF IsCut
<1>7. ToSet(a) \cup ToSet(b) = ToSet(s)
  BY <1>4, <1>6, CutSets
<1> QED BY <1>1, <1>4, <1>5, <1>7, Zenon

LEMMA HeadIsFirst ==
    ASSUME NEW U, NEW s \in Seq(U), Len(s) >= 1
    PROVE  Head(s) = s[1] /\ s # << >> /\ s[1] \in U
OBVIOUS

Parts(st) == << First(Head(st)), Second(Head(st)) >> \o Tail(st)

LEMMA AfterFailureCases ==
    ASSUME NEW st
    PROVE  /\ Len(Head(st)) = 1 => AfterFailure(st) = << FlattenSeq(Tail(st)) >>
           /\ Len(Head(st)) # 1 => AfterFailure(st) = Parts(st)
BY Zenon DEF AfterFailure, Parts, First, Second

\* A culprit found leaves the rest of the queue in one section.
LEMMA AfterCulprit ==
    ASSUME NEW S, NEW st \in Seq(Seq(S)), st # << >>, Len(Head(st)) = 1
    PROVE  /\ AfterFailure(st) \in Seq(Seq(S))
           /\ Len(AfterFailure(st)) = 1
<1>1. Tail(st) \in Seq(Seq(S))
  BY HeadTailProperties
<1>2. PICK f \in Seq(S) : f = FlattenSeq(Tail(st))
  BY <1>1, FlattenType, Zenon
<1>3. AfterFailure(st) = << f >>
  BY <1>2, AfterFailureCases, Zenon
<1> QED BY <1>3

\* Otherwise the first section is replaced with its halves.
LEMMA AfterSplit ==
    ASSUME NEW S, NEW st \in Seq(Seq(S)), st # << >>,
           Len(Head(st)) # 0, Len(Head(st)) # 1
    PROVE  /\ AfterFailure(st) \in Seq(Seq(S))
           /\ Len(AfterFailure(st)) = Len(st) + 1
           /\ AfterFailure(st)[1] = First(st[1])
           /\ AfterFailure(st)[2] = Second(st[1])
           /\ \A i \in 3..(Len(st) + 1) : AfterFailure(st)[i] = st[i - 1]
<1>1. PICK U : U = Seq(S)
  OBVIOUS
<1>2. PICK a, b : a = First(st[1]) /\ b = Second(st[1])
  OBVIOUS
<1>3. Head(st) = st[1] /\ st[1] \in Seq(S)
  OBVIOUS
<1>4. a \in U /\ b \in U
  BY <1>1, <1>2, <1>3, Halves
<1>5. st \in Seq(U) /\ st # << >>
  BY <1>1
<1>6. AfterFailure(st) = << a, b >> \o Tail(st)
  BY <1>2, <1>3, AfterFailureCases, Zenon DEF Parts
<1>7. /\ << a, b >> \o Tail(st) \in Seq(U)
      /\ Len(<< a, b >> \o Tail(st)) = Len(st) + 1
      /\ (<< a, b >> \o Tail(st))[1] = a
      /\ (<< a, b >> \o Tail(st))[2] = b
      /\ \A i \in 3..(Len(st) + 1) : (<< a, b >> \o Tail(st))[i] = st[i - 1]
  BY <1>4, <1>5
<1> QED BY <1>1, <1>2, <1>6, <1>7, Zenon
(***************************************************************************)
(* What a verdict leaves: st is the queue (after a failure) or what is     *)
(* left of it (after a success), and its first section is not empty.       *)
(***************************************************************************)
LEMMA AfterFailureShape ==
    ASSUME NEW S, NEW st \in Seq(Seq(S)), st # << >>,
           \A i \in 1..(Len(st) - 1) : st[i] # << >>, Len(st) >= 2
    PROVE  /\ AfterFailure(st) \in Seq(Seq(S))
           /\ AfterFailure(st) # << >>
           /\ \A i \in 1..(Len(AfterFailure(st)) - 1) : AfterFailure(st)[i] # << >>
           /\ Culprits(st) \in Seq(S)
<1>1. st[1] \in Seq(S) /\ Head(st) = st[1] /\ st[1] # << >>
  OBVIOUS
<1>2. Len(st[1]) \in Nat \ {0}
  BY <1>1
<1>3. CASE Len(st[1]) = 1
  <2>1. AfterFailure(st) \in Seq(Seq(S)) /\ Len(AfterFailure(st)) = 1
    BY <1>1, <1>3, AfterCulprit
  <2>2. Culprits(st) \in Seq(S)
    BY <1>1, <1>3 DEF Culprits
  <2>3. Len(AfterFailure(st)) >= 1 /\ 1..(Len(AfterFailure(st)) - 1) = {}
    BY <2>1
  <2> QED BY <2>1, <2>2, <2>3, HeadIsFirst, Zenon
<1>4. CASE Len(st[1]) # 1
  <2>1. /\ AfterFailure(st) \in Seq(Seq(S))
        /\ Len(AfterFailure(st)) = Len(st) + 1
        /\ AfterFailure(st)[1] = First(st[1])
        /\ AfterFailure(st)[2] = Second(st[1])
        /\ \A i \in 3..(Len(st) + 1) : AfterFailure(st)[i] = st[i - 1]
    BY <1>1, <1>2, <1>4, AfterSplit
  <2>2. First(st[1]) # << >> /\ Second(st[1]) # << >>
    BY <1>1, <1>2, <1>4, Halves
  <2>3. ASSUME NEW i \in 1..Len(st) PROVE AfterFailure(st)[i] # << >>
    <3>1. CASE i >= 3
      <4>1. i - 1 \in 1..(Len(st) - 1) /\ i \in 3..(Len(st) + 1)
        BY <3>1
      <4> QED BY <2>1, <4>1
    <3>2. CASE ~(i >= 3)
      <4>1. i = 1 \/ i = 2
        BY <3>2
      <4> QED BY <2>1, <2>2, <4>1, Zenon
    <3> QED BY <3>1, <3>2
  <2>4. Culprits(st) \in Seq(S)
    BY <1>1, <1>4 DEF Culprits
  <2>5. /\ Len(AfterFailure(st)) >= 1
        /\ 1..(Len(AfterFailure(st)) - 1) = 1..Len(st)
    BY <2>1
  <2> QED BY <2>1, <2>3, <2>4, <2>5, HeadIsFirst, Zenon
<1> QED BY <1>3, <1>4

LEMMA TailShape ==
    ASSUME NEW U, NEW s \in Seq(U), Len(s) >= 2
    PROVE  /\ Tail(s) \in Seq(U) /\ Tail(s) # << >>
           /\ Len(Tail(s)) = Len(s) - 1
           /\ \A i \in 1..(Len(s) - 1) : Tail(s)[i] = s[i + 1]
<1>1. s # << >>
  OBVIOUS
<1>2. /\ Tail(s) \in Seq(U) /\ Len(Tail(s)) = Len(s) - 1
      /\ \A i \in 1..(Len(s) - 1) : Tail(s)[i] = s[i + 1]
  BY <1>1, HeadTailProperties
<1>3. Tail(s) # << >>
  <2>1. Len(Tail(s)) >= 1
    BY <1>2
  <2> QED BY <1>2, <2>1, HeadIsFirst, Zenon
<1> QED BY <1>2, <1>3

\* The set of a section of length one is the one change in it.
LEMMA SetOfOne ==
    ASSUME NEW S, NEW s \in Seq(S), Len(s) = 1
    PROVE  s[1] \in S /\ ToSet(s) = {s[1]}
<1>1. s[1] \in S
  <2>1. Len(s) >= 1
    OBVIOUS
  <2> QED BY <2>1, HeadIsFirst, Zenon
<1>2. \A x : x \in ToSet(s) <=> x = s[1]
  <2>1. TAKE x
  <2>2. x \in ToSet(s) <=> \E i \in 1..Len(s) : x = s[i]
    BY SetOf
  <2> QED BY <2>2
<1> QED BY <1>1, <1>2

LEMMA SetOfCat ==
    ASSUME NEW S, NEW s \in Seq(S), NEW t \in Seq(S)
    PROVE  s \o t \in Seq(S) /\ Len(s \o t) = Len(s) + Len(t)
           /\ ToSet(s \o t) = ToSet(s) \cup ToSet(t)
<1>1. PICK r : r = s \o t
  OBVIOUS
<1>2. r \in Seq(S) /\ Len(r) = Len(s) + Len(t) /\ IsCut(r, s, t)
  BY <1>1 DEF IsCut
<1>3. ToSet(s) \cup ToSet(t) = ToSet(r)
  BY <1>2, CutSets
<1> QED BY <1>1, <1>2, <1>3, Zenon

LEMMA CatEmpty == \A U : \A s \in Seq(U) : Cat(<< >>, s) = s /\ Cat(s, << >>) = s
BY ConcatEmptySeq DEF Cat

LEMMA CatAssociates ==
    ASSUME NEW S, NEW s \in Seq(S), NEW t \in Seq(S), NEW u \in Seq(S)
    PROVE  Cat(s, Cat(t, u)) = Cat(Cat(s, t), u)
BY Associates, SMT

LEMMA AppendCat ==
    ASSUME NEW S, NEW s \in Seq(S), NEW t \in Seq(S), NEW e \in S
    PROVE  Append(Cat(s, t), e) = Cat(s, Append(t, e))
BY DEF Cat

LEMMA CatType ==
    ASSUME NEW S, NEW s \in Seq(S), NEW t \in Seq(S)
    PROVE  Cat(s, t) \in Seq(S)
BY DEF Cat

\* The two halves, one after the other, are the section.
LEMMA HalvesInOrder ==
    ASSUME NEW S, NEW s \in Seq(S), Len(s) # 0, Len(s) # 1
    PROVE  Cat(First(s), Second(s)) = s
<1>1. PICK h, a, b : h = Len(s) \div 2 /\ a = First(s) /\ b = Second(s)
  OBVIOUS
<1>2. h \in Nat /\ h >= 1 /\ h < Len(s)
  BY <1>1, HalfOf, LenProperties
<1>3. a = SubSeq(s, 1, h) /\ b = SubSeq(s, h + 1, Len(s))
  BY <1>1, Zenon DEF First, Second
<1>4. a \o b = s
  BY <1>2, <1>3
<1> QED BY <1>1, <1>4, Zenon DEF Cat

\* t with a, or a and b, put in front, under names that keep the tuples hidden.
One(a, t) == << a >> \o t
Two(a, b, t) == << a, b >> \o t

LEMMA PairFirst ==
    \A U : \A a, b \in U : \A t \in Seq(U) :
        One(b, t) \in Seq(U) /\ Two(a, b, t) = One(a, One(b, t))
<1> TAKE U
<1> TAKE a, b \in U
<1> TAKE t \in Seq(U)
<1>0. PICK r : r = << b >> \o t
  OBVIOUS
<1>1. /\ r \in Seq(U) /\ Len(r) = Len(t) + 1 /\ r[1] = b
      /\ \A i \in 2..(Len(t) + 1) : r[i] = t[i - 1]
  BY <1>0
<1>2. PICK p, q : p = << a, b >> \o t /\ q = << a >> \o r
  OBVIOUS
<1>3. /\ p \in Seq(U) /\ Len(p) = Len(t) + 2 /\ p[1] = a /\ p[2] = b
      /\ \A i \in 3..(Len(t) + 2) : p[i] = t[i - 2]
  BY <1>2
<1>4. /\ q \in Seq(U) /\ Len(q) = Len(r) + 1 /\ q[1] = a
      /\ \A i \in 2..(Len(r) + 1) : q[i] = r[i - 1]
  BY <1>1, <1>2
<1>5. Len(t) \in Nat /\ Len(p) = Len(q)
  BY <1>1, <1>3, <1>4
<1>6. ASSUME NEW i \in 1..Len(p) PROVE p[i] = q[i]
  <2>1. i = 1 \/ i = 2 \/ i \in 3..(Len(t) + 2)
    BY <1>3, <1>5
  <2>2. CASE i = 2
    BY <1>1, <1>3, <1>4, <1>5, <2>2
  <2>3. CASE i \in 3..(Len(t) + 2)
    <3>1. i - 1 \in 2..(Len(t) + 1) /\ i \in 2..(Len(r) + 1) /\ (i - 1) - 1 = i - 2
      BY <1>1, <1>5, <2>3
    <3>2. q[i] = r[i - 1] /\ r[i - 1] = t[(i - 1) - 1] /\ p[i] = t[i - 2]
      BY <1>1, <1>3, <1>4, <2>3, <3>1
    <3> QED BY <3>1, <3>2, Zenon
  <2> QED BY <1>3, <1>4, <2>1, <2>2, <2>3
<1>7. p = q
  BY <1>3, <1>4, <1>5, <1>6, SeqEqual
<1> QED BY <1>0, <1>1, <1>2, <1>7, Zenon DEF One, Two

LEMMA FailureKeepsOrder ==
    ASSUME NEW S, NEW st \in Seq(Seq(S)), st # << >>, Head(st) # << >>,
           AfterFailure(st) \in Seq(Seq(S))
    PROVE  /\ FlattenSeq(st) = Cat(Culprits(st), FlattenSeq(AfterFailure(st)))
           /\ Culprits(st) \in Seq(S)
           /\ Culprits(st) = << >> \/ Len(Culprits(st)) = 1
<1>1. Head(st) \in Seq(S) /\ Tail(st) \in Seq(Seq(S))
      /\ Len(Head(st)) \in Nat \ {0}
  OBVIOUS
<1>2. PICK f \in Seq(S) : f = FlattenSeq(Tail(st))
  BY <1>1, FlattenType, Zenon
<1>3. FlattenSeq(st) = Cat(Head(st), f)
  BY <1>2, FlattenHead, Zenon
<1>4. CASE Len(Head(st)) = 1
  <2>1. AfterFailure(st) = << f >> /\ Culprits(st) = Head(st)
    BY <1>2, <1>4, AfterFailureCases, Zenon DEF Culprits
  <2>2. FlattenSeq(<< f >>) = f
    BY FlattenSingle, Zenon
  <2> QED BY <1>1, <1>3, <1>4, <2>1, <2>2, Zenon
<1>5. CASE Len(Head(st)) # 1
  <2>1. PICK a, b : a = First(Head(st)) /\ b = Second(Head(st))
    OBVIOUS
  <2>2. a \in Seq(S) /\ b \in Seq(S) /\ Cat(a, b) = Head(st)
    BY <1>1, <1>5, <2>1, Halves, HalvesInOrder
  <2>3. AfterFailure(st) = << a, b >> \o Tail(st) /\ Culprits(st) = << >>
    BY <1>5, <2>1, AfterFailureCases, Zenon DEF Culprits, Parts
  <2>4. PICK U : U = Seq(S)
    OBVIOUS
  <2>5. PICK t, r : t = Tail(st) /\ r = << b >> \o t
    OBVIOUS
  <2>6. t \in Seq(U) /\ a \in U /\ b \in U
    BY <1>1, <2>2, <2>4, <2>5, Zenon
  <2>7. << a, b >> \o t = << a >> \o r /\ r \in Seq(U)
    <3>1. One(b, t) \in Seq(U) /\ Two(a, b, t) = One(a, One(b, t))
      BY <2>6, PairFirst, SMT
    <3> QED BY <2>5, <3>1, Zenon DEF One, Two
  <2>8. FlattenSeq(r) = Cat(b, f)
    BY <1>1, <1>2, <2>2, <2>5, FlattenCons, Zenon DEF Cat
  <2>9. FlattenSeq(<< a >> \o r) = Cat(a, Cat(b, f))
    BY <2>2, <2>4, <2>7, <2>8, FlattenCons, Zenon DEF Cat
  <2>10. Cat(a, Cat(b, f)) = Cat(Cat(a, b), f)
    BY <2>2, CatAssociates
  <2>11. FlattenSeq(AfterFailure(st)) = Cat(Head(st), f)
    BY <2>2, <2>3, <2>5, <2>7, <2>9, <2>10, Zenon
  <2>12. Cat(Head(st), f) \in Seq(S)
    BY <1>1, CatType, Zenon
  <2>13. Cat(<< >>, Cat(Head(st), f)) = Cat(Head(st), f)
    BY <2>12, CatEmpty, Zenon
  <2>14. << >> \in Seq(S)
    OBVIOUS
  <2> QED BY <1>3, <2>3, <2>11, <2>13, <2>14, Zenon
<1> QED BY <1>4, <1>5, Zenon
=============================================================================
