------------------------- MODULE QueueMethodsProofs -------------------------
(***************************************************************************)
(* What the methods of the queue do to the changes in it and to those that *)
(* wait, for any changes, ids, requirements and streams.                   *)
(***************************************************************************)
EXTENDS QueueMethods, Lemmas

Waiting == [change : Changes, missing : SUBSET Ids]

IsWhole(q) == q = [state |-> q.state, test_key |-> q.test_key,
                   awaiting |-> q.awaiting, stream_map |-> q.stream_map]

IsQueue(q) ==
    /\ IsWhole(q)
    /\ q.state \in Seq(Seq(Changes)) /\ q.state # << >>
    /\ q.awaiting \in Seq(Waiting)

WaitingIn(A) == {A[i].change : i \in DOMAIN A}

\* The requirements of each change in Q stand before it or are in P.
Follows(Q, P) ==
    \A i \in DOMAIN Q : \A id \in Requires[Q[i]] :
        id \in P \/ \E j \in 1..(i - 1) : Id[Q[j]] = id

\* Each of A has a reason to wait while ids are in the queue, ...
Reasons(ids, A) ==
    \A i \in DOMAIN A :
        /\ A[i].missing # {} /\ A[i].missing \subseteq Requires[A[i].change]
        /\ A[i].missing \cap ids = {}
        /\ \A j \in i..Len(A) : Id[A[j].change] \notin Requires[A[i].change]

\* ... and the rest of what it requires is there.
Met(ids, A) == \A i \in DOMAIN A : Requires[A[i].change] \ A[i].missing \subseteq ids
-----------------------------------------------------------------------------
(* The dependants on a change.                                             *)

LEMMA DependantsClosed ==
    ASSUME NEW x, NEW cs \in SUBSET Changes, NEW d \in cs,
           Requires[d] \cap ({x} \cup DependantsOn(x, cs)) # {}
    PROVE  Id[d] \in DependantsOn(x, cs)
<1>1. Id[d] \in Ids
  BY DependenciesAssumption
<1>2. SUFFICES ASSUME NEW S \in SUBSET Ids, ClosedUnder(x, cs, S) PROVE Id[d] \in S
  BY <1>1 DEF DependantsOn
<1>3. DependantsOn(x, cs) \subseteq S
  BY <1>2 DEF DependantsOn
<1>4. Requires[d] \cap ({x} \cup S) # {}
  BY <1>3
<1>5. Id[d] \in Needing({x} \cup S, cs)
  BY <1>4 DEF Needing
<1> QED BY <1>2, <1>5 DEF ClosedUnder

LEMMA DependantsMonotone ==
    ASSUME NEW x, NEW cs, NEW ds, cs \subseteq ds
    PROVE  DependantsOn(x, cs) \subseteq DependantsOn(x, ds)
<1>1. \A S : Needing({x} \cup S, cs) \subseteq Needing({x} \cup S, ds)
  BY DEF Needing
<1>2. \A S : ClosedUnder(x, ds, S) => ClosedUnder(x, cs, S)
  BY <1>1 DEF ClosedUnder
<1> QED BY <1>2 DEF DependantsOn
-----------------------------------------------------------------------------
(* The changes in the queue and their ids.                                 *)

LEMMA QueueType ==
    ASSUME NEW q, IsQueue(q)
    PROVE  /\ Queued(q) \in Seq(Changes) /\ Awaiting(q) \in Seq(Changes)
           /\ Len(Awaiting(q)) = Len(q.awaiting)
           /\ ToSet(Awaiting(q)) = WaitingIn(q.awaiting)
<1>1. Queued(q) \in Seq(Changes)
  BY FlattenType, Zenon DEF IsQueue, Queued
<1>2. PICK A \in Seq(Waiting) : A = q.awaiting
  BY DEF IsQueue
<1>3. \A i \in DOMAIN A : A[i].change \in Changes
  <2>1. PICK W : W = Waiting
    OBVIOUS
  <2>2. \A i \in DOMAIN A : A[i] \in W
    BY <2>1
  <2>3. \A w \in W : w.change \in Changes
    BY <2>1 DEF Waiting
  <2> QED BY <2>2, <2>3
<1>4. PICK B : B = [i \in DOMAIN A |-> A[i].change]
  OBVIOUS
<1>5. B \in Seq(Changes) /\ Len(B) = Len(A)
  BY <1>3, <1>4
<1>6. ToSet(B) = WaitingIn(A)
  BY <1>4 DEF ToSet, WaitingIn
<1> QED BY <1>1, <1>2, <1>4, <1>5, <1>6, Zenon DEF Awaiting

LEMMA IdsOfMember ==
    ASSUME NEW s \in Seq(Changes), NEW id
    PROVE  id \in IdsOf(s) <=> \E i \in 1..Len(s) : Id[s[i]] = id
BY DEF IdsOf

LEMMA IdsOfSet ==
    ASSUME NEW s \in Seq(Changes)
    PROVE  IdsOf(s) = {Id[c] : c \in ToSet(s)}
BY DEF IdsOf, ToSet

LEMMA IdsOfAppend ==
    ASSUME NEW s \in Seq(Changes), NEW c \in Changes
    PROVE  /\ IdsOf(Append(s, c)) = IdsOf(s) \cup {Id[c]}
           /\ ToSet(Append(s, c)) = ToSet(s) \cup {c}
<1>1. PICK t : t = Append(s, c)
  OBVIOUS
<1>2. PICK l \in Nat : l = Len(s)
  OBVIOUS
<1>3. /\ t \in Seq(Changes) /\ Len(t) = l + 1 /\ t[l + 1] = c
      /\ \A i \in 1..l : t[i] = s[i]
  BY <1>1, <1>2
<1>4. \A i : i \in 1..(l + 1) <=> i \in 1..l \/ i = l + 1
  BY <1>2
<1>5. DOMAIN t = 1..(l + 1) /\ DOMAIN s = 1..l
  BY <1>2, <1>3
<1>6. IdsOf(t) = IdsOf(s) \cup {Id[c]}
  <2>1. \A id : id \in IdsOf(t) <=> id \in IdsOf(s) \/ id = Id[c]
    BY <1>2, <1>3, <1>4, IdsOfMember
  <2> QED BY <2>1
<1>7. ToSet(t) = ToSet(s) \cup {c}
  BY <1>3, <1>4, <1>5, Zenon DEF ToSet
<1> QED BY <1>1, <1>6, <1>7

LEMMA FollowsAppend ==
    ASSUME NEW Q \in Seq(Changes), NEW P, NEW c \in Changes,
           Follows(Q, P), Requires[c] \subseteq IdsOf(Q) \cup P
    PROVE  Follows(Append(Q, c), P)
<1>1. PICK t : t = Append(Q, c)
  OBVIOUS
<1>2. PICK l \in Nat : l = Len(Q)
  OBVIOUS
<1>3. /\ t \in Seq(Changes) /\ Len(t) = l + 1 /\ t[l + 1] = c
      /\ \A i \in 1..l : t[i] = Q[i]
  BY <1>1, <1>2
<1>4. ASSUME NEW i \in 1..(l + 1), NEW id \in Requires[t[i]]
      PROVE  id \in P \/ \E j \in 1..(i - 1) : Id[t[j]] = id
  <2>1. CASE i = l + 1
    <3>1. id \in P \/ \E j \in 1..l : Id[Q[j]] = id
      BY <1>2, <1>3, <1>4, <2>1, IdsOfMember
    <3> QED BY <1>3, <2>1, <3>1
  <2>2. CASE i # l + 1
    <3>1. i \in 1..l /\ \A j \in 1..(i - 1) : j \in 1..l
      BY <2>2
    <3>2. id \in P \/ \E j \in 1..(i - 1) : Id[Q[j]] = id
      BY <1>2, <1>3, <1>4, <3>1 DEF Follows
    <3> QED BY <1>3, <3>1, <3>2
  <2> QED BY <2>1, <2>2
<1> QED BY <1>1, <1>3, <1>4 DEF Follows

-----------------------------------------------------------------------------
(* The loop of add.  The queue Q0 and those that wait, A0, are what it      *)
(* starts with; after n turns they are Q and A, and D has been added.       *)

TurnOK(turn, P, Q0, A0) ==
    /\ turn \in Seq(Waiting)
    /\ \A m \in 1..Len(turn) :
          /\ turn[m].missing \subseteq Requires[turn[m].change]
          /\ turn[m].missing \cap IdsOf(Q0) = {}
          /\ Requires[turn[m].change] \ turn[m].missing \subseteq IdsOf(Q0) \cup P
          /\ \A k \in m..Len(turn) : Id[turn[k].change] \notin Requires[turn[m].change]
          /\ \A i \in DOMAIN A0 : Id[turn[m].change] \notin Requires[A0[i].change]

Placing(turn, P, Q0, A0, n, Q, A, D) ==
    /\ Q \in Seq(Changes) /\ A \in Seq(Waiting) /\ D \in Seq(Changes)
    /\ IdsOf(Q) = IdsOf(Q0) \cup IdsOf(D)
    /\ ToSet(Q) \cup WaitingIn(A)
          = ToSet(Q0) \cup WaitingIn(A0) \cup {turn[m].change : m \in 1..n}
    /\ Follows(Q, P) /\ Reasons(IdsOf(Q), A) /\ Met(IdsOf(Q) \cup P, A)
    /\ \A i \in DOMAIN A : \A m \in (n + 1)..Len(turn) :
          Id[turn[m].change] \notin Requires[A[i].change]

LEMMA AppendWaiting ==
    ASSUME NEW A \in Seq(Waiting), NEW w \in Waiting
    PROVE  /\ Append(A, w) \in Seq(Waiting) /\ Len(Append(A, w)) = Len(A) + 1
           /\ Append(A, w)[Len(A) + 1] = w
           /\ \A i \in 1..Len(A) : Append(A, w)[i] = A[i]
           /\ WaitingIn(Append(A, w)) = WaitingIn(A) \cup {w.change}
<1>1. PICK W : W = Waiting
  OBVIOUS
<1>2. PICK t : t = Append(A, w)
  OBVIOUS
<1>3. PICK l \in Nat : l = Len(A)
  OBVIOUS
<1>4. /\ t \in Seq(W) /\ Len(t) = l + 1 /\ t[l + 1] = w
      /\ \A i \in 1..l : t[i] = A[i]
  BY <1>1, <1>2, <1>3
<1>5. \A i : i \in 1..(l + 1) <=> i \in 1..l \/ i = l + 1
  BY <1>3
<1>6. DOMAIN t = 1..(l + 1) /\ DOMAIN A = 1..l
  BY <1>3, <1>4
<1>7. WaitingIn(t) = WaitingIn(A) \cup {w.change}
  <2>1. \A c : c \in WaitingIn(t) <=> \E i \in 1..(l + 1) : c = t[i].change
    BY <1>6 DEF WaitingIn
  <2>2. \A c : c \in WaitingIn(A) <=> \E i \in 1..l : c = A[i].change
    BY <1>6 DEF WaitingIn
  <2>3. \A c : c \in WaitingIn(t) <=> c \in WaitingIn(A) \/ c = w.change
    BY <1>4, <1>5, <2>1, <2>2
  <2> QED BY <2>3
<1> QED BY <1>1, <1>2, <1>3, <1>4, <1>7

LEMMA TurnedMore ==
    ASSUME NEW turn, NEW n \in Nat
    PROVE  {turn[m].change : m \in 1..(n + 1)}
              = {turn[m].change : m \in 1..n} \cup {turn[n + 1].change}
<1>1. \A m : m \in 1..(n + 1) <=> m \in 1..n \/ m = n + 1
  OBVIOUS
<1> QED BY <1>1

LEMMA PlacedInQueue ==
    ASSUME NEW turn, NEW P, NEW Q0, NEW A0, TurnOK(turn, P, Q0, A0),
           NEW n \in Nat, n + 1 <= Len(turn),
           NEW Q, NEW A, NEW D, Placing(turn, P, Q0, A0, n, Q, A, D),
           NEW w, w = turn[n + 1], w.missing \ IdsOf(D) = {}
    PROVE  Placing(turn, P, Q0, A0, n + 1, Append(Q, w.change), A, Append(D, w.change))
<1>1. PICK R, E : R = Append(Q, w.change) /\ E = Append(D, w.change)
  OBVIOUS
<1>2. n + 1 \in 1..Len(turn) /\ Len(turn) \in Nat
  BY DEF TurnOK
<1>3. w \in Waiting /\ w.change \in Changes
  <2>1. PICK W : W = Waiting
    OBVIOUS
  <2>2. turn \in Seq(W)
    BY <2>1 DEF TurnOK
  <2>3. w \in W
    BY <1>2, <2>2
  <2>4. \A v \in Waiting : v.change \in Changes
    BY DEF Waiting
  <2> QED BY <2>1, <2>3, <2>4
<1>4. R \in Seq(Changes) /\ E \in Seq(Changes)
  BY <1>1, <1>3 DEF Placing
<1>5. /\ IdsOf(R) = IdsOf(Q) \cup {Id[w.change]} /\ ToSet(R) = ToSet(Q) \cup {w.change}
      /\ IdsOf(E) = IdsOf(D) \cup {Id[w.change]}
  BY <1>1, <1>3, IdsOfAppend DEF Placing
<1>6. IdsOf(R) = IdsOf(Q0) \cup IdsOf(E)
  BY <1>5 DEF Placing
<1>7. ToSet(R) \cup WaitingIn(A)
         = ToSet(Q0) \cup WaitingIn(A0) \cup {turn[m].change : m \in 1..(n + 1)}
  <2>1. ToSet(Q) \cup WaitingIn(A)
           = ToSet(Q0) \cup WaitingIn(A0) \cup {turn[m].change : m \in 1..n}
    BY DEF Placing
  <2>2. {turn[m].change : m \in 1..(n + 1)} = {turn[m].change : m \in 1..n} \cup {w.change}
    BY TurnedMore
  <2> QED BY <1>5, <2>1, <2>2
<1>8. Follows(R, P)
  <2>1. Requires[w.change] \ w.missing \subseteq IdsOf(Q0) \cup P
    BY <1>2 DEF TurnOK
  <2>2. Requires[w.change] \subseteq IdsOf(Q) \cup P
    BY <2>1 DEF Placing
  <2> QED BY <1>1, <1>3, <2>2, FollowsAppend DEF Placing
<1>9. \A i \in DOMAIN A : Id[w.change] \notin Requires[A[i].change]
  <2>1. n + 1 \in (n + 1)..Len(turn)
    BY <1>2
  <2> QED BY <2>1 DEF Placing
<1>10. Reasons(IdsOf(R), A)
  BY <1>5, <1>9 DEF Placing, Reasons
<1>11. Met(IdsOf(R) \cup P, A)
  BY <1>5 DEF Placing, Met
<1>12. \A i \in DOMAIN A : \A m \in ((n + 1) + 1)..Len(turn) :
          Id[turn[m].change] \notin Requires[A[i].change]
  <2>1. \A m \in ((n + 1) + 1)..Len(turn) : m \in (n + 1)..Len(turn)
    BY <1>2
  <2> QED BY <2>1 DEF Placing
<1>13. A \in Seq(Waiting)
  BY DEF Placing
<1> QED BY <1>1, <1>4, <1>6, <1>7, <1>8, <1>10, <1>11, <1>12, <1>13 DEF Placing

LEMMA PlacedAside ==
    ASSUME NEW turn, NEW P, NEW Q0, NEW A0, TurnOK(turn, P, Q0, A0),
           NEW n \in Nat, n + 1 <= Len(turn),
           NEW Q, NEW A, NEW D, Placing(turn, P, Q0, A0, n, Q, A, D),
           NEW w, w = turn[n + 1], NEW missing, missing = w.missing \ IdsOf(D), missing # {},
           NEW v, v = [change |-> w.change, missing |-> missing]
    PROVE  Placing(turn, P, Q0, A0, n + 1, Q, Append(A, v), D)
<1>1. n + 1 \in 1..Len(turn) /\ Len(turn) \in Nat
  BY DEF TurnOK
<1>2. w \in Waiting
  <2>1. PICK W : W = Waiting
    OBVIOUS
  <2>2. turn \in Seq(W)
    BY <2>1 DEF TurnOK
  <2> QED BY <1>1, <2>1, <2>2
<1>3. v \in Waiting /\ v.change = w.change /\ v.missing = missing
  BY <1>2 DEF Waiting
<1>4. PICK l \in Nat : l = Len(A)
  <2>1. PICK W : W = Waiting
    OBVIOUS
  <2>2. A \in Seq(W)
    BY <2>1, Zenon DEF Placing
  <2> QED BY <2>2
<1>5. PICK B : B = Append(A, v)
  OBVIOUS
<1>6. /\ B \in Seq(Waiting) /\ Len(B) = l + 1 /\ B[l + 1] = v
      /\ \A i \in 1..l : B[i] = A[i]
      /\ WaitingIn(B) = WaitingIn(A) \cup {w.change}
  <2>1. A \in Seq(Waiting)
    BY Zenon DEF Placing
  <2>2. /\ Append(A, v) \in Seq(Waiting) /\ Len(Append(A, v)) = Len(A) + 1
        /\ Append(A, v)[Len(A) + 1] = v
    BY <1>3, <2>1, AppendWaiting, Zenon
  <2>3. \A i \in 1..Len(A) : Append(A, v)[i] = A[i]
    BY <1>3, <2>1, AppendWaiting, Zenon
  <2>4. WaitingIn(Append(A, v)) = WaitingIn(A) \cup {v.change}
    <3>1. PICK u : u = v
      OBVIOUS
    <3>2. WaitingIn(Append(A, u)) = WaitingIn(A) \cup {u.change}
      BY <1>3, <2>1, <3>1, AppendWaiting
    <3> QED BY <3>1, <3>2
  <2> QED BY <1>3, <1>4, <1>5, <2>2, <2>3, <2>4
<1>7. \A i : i \in 1..(l + 1) <=> i \in 1..l \/ i = l + 1
  BY <1>4
<1>8. DOMAIN B = 1..(l + 1) /\ DOMAIN A = 1..l
  <2>1. PICK W : W = Waiting
    OBVIOUS
  <2>2. A \in Seq(W) /\ B \in Seq(W)
    BY <1>6, <2>1, Zenon DEF Placing
  <2> QED BY <1>4, <1>6, <2>2
<1>9. ToSet(Q) \cup WaitingIn(B)
         = ToSet(Q0) \cup WaitingIn(A0) \cup {turn[m].change : m \in 1..(n + 1)}
  <2>1. ToSet(Q) \cup WaitingIn(A)
           = ToSet(Q0) \cup WaitingIn(A0) \cup {turn[m].change : m \in 1..n}
    BY DEF Placing
  <2>2. {turn[m].change : m \in 1..(n + 1)} = {turn[m].change : m \in 1..n} \cup {w.change}
    BY TurnedMore
  <2> QED BY <1>6, <2>1, <2>2
<1>10. /\ w.missing \subseteq Requires[w.change] /\ w.missing \cap IdsOf(Q0) = {}
       /\ Requires[w.change] \ w.missing \subseteq IdsOf(Q0) \cup P
       /\ \A k \in (n + 1)..Len(turn) : Id[turn[k].change] \notin Requires[w.change]
  BY <1>1 DEF TurnOK
<1>11. Reasons(IdsOf(Q), B)
  <2>1. SUFFICES ASSUME NEW i \in 1..(l + 1)
                 PROVE  /\ B[i].missing # {} /\ B[i].missing \subseteq Requires[B[i].change]
                        /\ B[i].missing \cap IdsOf(Q) = {}
                        /\ \A j \in i..(l + 1) : Id[B[j].change] \notin Requires[B[i].change]
    BY <1>6, <1>8 DEF Reasons
  <2>2. CASE i = l + 1
    <3>1. \A j \in i..(l + 1) : j = l + 1
      BY <2>2
    <3>2. n + 1 \in (n + 1)..Len(turn)
      BY <1>1
    <3>3. missing \cap IdsOf(Q) = {} /\ missing \subseteq Requires[w.change]
      BY <1>10 DEF Placing
    <3> QED BY <1>3, <1>6, <1>10, <2>2, <3>1, <3>2, <3>3
  <2>3. CASE i \in 1..l
    <3>1. /\ A[i].missing # {} /\ A[i].missing \subseteq Requires[A[i].change]
          /\ A[i].missing \cap IdsOf(Q) = {}
          /\ \A j \in i..l : Id[A[j].change] \notin Requires[A[i].change]
      BY <1>4, <1>8, <2>3 DEF Placing, Reasons
    <3>2. n + 1 \in (n + 1)..Len(turn)
      BY <1>1
    <3>3. Id[w.change] \notin Requires[A[i].change]
      BY <1>8, <2>3, <3>2 DEF Placing
    <3>4. \A j \in i..(l + 1) : j = l + 1 \/ (j \in i..l /\ j \in 1..l)
      BY <2>3
    <3> QED BY <1>3, <1>6, <2>3, <3>1, <3>3, <3>4
  <2> QED BY <1>7, <2>2, <2>3
<1>12. Met(IdsOf(Q) \cup P, B)
  <2>1. SUFFICES ASSUME NEW i \in 1..(l + 1)
                 PROVE  Requires[B[i].change] \ B[i].missing \subseteq IdsOf(Q) \cup P
    BY <1>8 DEF Met
  <2>2. CASE i = l + 1
    BY <1>3, <1>6, <1>10, <2>2 DEF Placing
  <2>3. CASE i \in 1..l
    BY <1>6, <1>8, <2>3 DEF Placing, Met
  <2> QED BY <1>7, <2>2, <2>3
<1>13. \A i \in DOMAIN B : \A m \in ((n + 1) + 1)..Len(turn) :
          Id[turn[m].change] \notin Requires[B[i].change]
  <2>1. \A m \in ((n + 1) + 1)..Len(turn) : m \in (n + 1)..Len(turn)
    BY <1>1
  <2>2. \A i \in 1..l : \A m \in (n + 1)..Len(turn) :
           Id[turn[m].change] \notin Requires[A[i].change]
    BY <1>8 DEF Placing
  <2> QED BY <1>3, <1>6, <1>7, <1>8, <1>10, <2>1, <2>2
<1> QED BY <1>5, <1>6, <1>9, <1>11, <1>12, <1>13 DEF Placing

-----------------------------------------------------------------------------
(* One turn of the loop, and all of them.                                   *)

\* What add never touches: q is the queue it is called on, t what it leaves.
SameUnderTest(q, t) ==
    /\ t.test_key = q.test_key /\ t.stream_map = q.stream_map
    /\ Len(t.state) = Len(q.state)
    /\ \A i \in 1..(Len(q.state) - 1) : t.state[i] = q.state[i]

IsResult(r) == r = [queue |-> r.queue, added |-> r.added, rejected |-> r.rejected]

Placed(q, turn, P, n, r) ==
    /\ IsResult(r) /\ r.rejected = << >>
    /\ IsQueue(r.queue) /\ SameUnderTest(q, r.queue)
    /\ Placing(turn, P, Queued(q), q.awaiting, n, Queued(r.queue), r.queue.awaiting, r.added)

\* What a turn does with w, one way or the other.
IntoQueue(r, w, t) ==
    /\ IsResult(t) /\ t.rejected = r.rejected /\ t.added = Append(r.added, w.change)
    /\ IsWhole(t.queue) /\ t.queue.state = AddToLast(r.queue.state, w.change)
    /\ t.queue.awaiting = r.queue.awaiting
    /\ t.queue.test_key = r.queue.test_key /\ t.queue.stream_map = r.queue.stream_map

Aside(r, w, t) ==
    /\ IsResult(t) /\ t.rejected = r.rejected /\ t.added = r.added
    /\ IsWhole(t.queue) /\ t.queue.state = r.queue.state
    /\ t.queue.awaiting = Append(r.queue.awaiting,
                                [change |-> w.change, missing |-> w.missing \ IdsOf(r.added)])
    /\ t.queue.test_key = r.queue.test_key /\ t.queue.stream_map = r.queue.stream_map

LEMMA PlaceCases ==
    ASSUME NEW r, IsResult(r), IsWhole(r.queue), NEW w
    PROVE  IF w.missing \ IdsOf(r.added) = {} THEN IntoQueue(r, w, Place(r, w))
                                              ELSE Aside(r, w, Place(r, w))
<1>1. CASE w.missing \ IdsOf(r.added) = {}
  <2>1. PICK st : st = AddToLast(r.queue.state, w.change)
    OBVIOUS
  <2>2. PICK ad : ad = Append(r.added, w.change)
    OBVIOUS
  <2>3. PICK t : t = Place(r, w)
    OBVIOUS
  <2>4. t = [r EXCEPT !.queue.state = st, !.added = ad]
    BY <1>1, <2>1, <2>2, <2>3, Zenon DEF Place
  <2>5. IntoQueue(r, w, t)
    BY <2>1, <2>2, <2>4 DEF IntoQueue, IsResult, IsWhole
  <2> QED BY <1>1, <2>3, <2>5
<1>2. CASE w.missing \ IdsOf(r.added) # {}
  <2>1. PICK aw : aw = Append(r.queue.awaiting,
                              [change |-> w.change, missing |-> w.missing \ IdsOf(r.added)])
    OBVIOUS
  <2>2. PICK t : t = Place(r, w)
    OBVIOUS
  <2>3. t = [r EXCEPT !.queue.awaiting = aw]
    BY <1>2, <2>1, <2>2, Zenon DEF Place
  <2>4. Aside(r, w, t)
    BY <2>1, <2>3 DEF Aside, IsResult, IsWhole
  <2> QED BY <1>2, <2>2, <2>4
<1> QED BY <1>1, <1>2

LEMMA AddedToLast ==
    ASSUME NEW S, NEW st \in Seq(Seq(S)), st # << >>, NEW c \in S
    PROVE  /\ AddToLast(st, c) \in Seq(Seq(S)) /\ AddToLast(st, c) # << >>
           /\ Len(AddToLast(st, c)) = Len(st)
           /\ \A i \in 1..(Len(st) - 1) : AddToLast(st, c)[i] = st[i]
           /\ FlattenSeq(AddToLast(st, c)) = Append(FlattenSeq(st), c)
<1>1. PICK U : U = Seq(S)
  OBVIOUS
<1>2. st \in Seq(U) /\ st[Len(st)] \in U
  BY <1>1
<1>3. PICK v : v = Append(st[Len(st)], c)
  OBVIOUS
<1>4. v \in U
  BY <1>1, <1>2, <1>3, AppendProperties
<1>5. AddToLast(st, c) = WithLast(st, v)
  BY <1>2, <1>3 DEF AddToLast, WithLast
<1>6. PICK t : t = WithLast(st, v)
  OBVIOUS
<1>7. /\ t \in Seq(U) /\ Len(t) = Len(st)
      /\ \A i \in 1..(Len(st) - 1) : t[i] = st[i]
  <2>1. st # << >>
    OBVIOUS
  <2>2. \A x \in U :
           /\ WithLast(st, x) \in Seq(U) /\ Len(WithLast(st, x)) = Len(st)
           /\ WithLast(st, x)[Len(st)] = x
           /\ \A i \in 1..(Len(st) - 1) : WithLast(st, x)[i] = st[i]
    BY <1>2, <2>1, LastReplaced, Zenon
  <2> QED BY <1>4, <1>6, <2>2, Zenon
<1>8. t # << >>
  BY <1>2, <1>7
<1>9. FlattenSeq(AddToLast(st, c)) = Append(FlattenSeq(st), c)
  BY FlattenAddLast, Zenon DEF AddToLast
<1> QED BY <1>1, <1>5, <1>6, <1>7, <1>8, <1>9, Zenon

LEMMA PlaceNext ==
    ASSUME NEW q, NEW turn, NEW P, TurnOK(turn, P, Queued(q), q.awaiting),
           NEW n \in Nat, n + 1 <= Len(turn),
           NEW r, Placed(q, turn, P, n, r)
    PROVE  Placed(q, turn, P, n + 1, Place(r, turn[n + 1]))
<1>1. PICK w, t, p : w = turn[n + 1] /\ t = Place(r, w) /\ p = r.queue
  OBVIOUS
<1>2. /\ IsResult(r) /\ IsQueue(p) /\ SameUnderTest(q, p) /\ r.rejected = << >>
      /\ Placing(turn, P, Queued(q), q.awaiting, n, Queued(p), p.awaiting, r.added)
  BY <1>1, Zenon DEF Placed
<1>3. w \in Waiting
  <2>1. PICK W : W = Waiting
    OBVIOUS
  <2>2. turn \in Seq(W)
    BY <2>1 DEF TurnOK
  <2>3. n + 1 \in 1..Len(turn)
    BY <2>2
  <2> QED BY <1>1, <2>1, <2>2, <2>3
<1>4. w.change \in Changes
  BY <1>3 DEF Waiting
<1>5. /\ IsWhole(p)
      /\ p.state \in Seq(Seq(Changes)) /\ p.state # << >> /\ p.awaiting \in Seq(Waiting)
  BY <1>2, Zenon DEF IsQueue
<1>6. CASE w.missing \ IdsOf(r.added) = {}
  <2>1. PICK s : s = AddToLast(p.state, w.change)
    OBVIOUS
  <2>2. IntoQueue(r, w, t)
    BY <1>1, <1>2, <1>5, <1>6, PlaceCases
  <2>3. /\ s \in Seq(Seq(Changes)) /\ s # << >> /\ Len(s) = Len(p.state)
        /\ \A i \in 1..(Len(p.state) - 1) : s[i] = p.state[i]
        /\ FlattenSeq(s) = Append(FlattenSeq(p.state), w.change)
    <3>1. /\ AddToLast(p.state, w.change) \in Seq(Seq(Changes))
          /\ AddToLast(p.state, w.change) # << >>
          /\ Len(AddToLast(p.state, w.change)) = Len(p.state)
          /\ \A i \in 1..(Len(p.state) - 1) :
                AddToLast(p.state, w.change)[i] = p.state[i]
          /\ FlattenSeq(AddToLast(p.state, w.change))
                = Append(FlattenSeq(p.state), w.change)
      BY <1>4, <1>5, AddedToLast, Zenon
    <3> QED BY <2>1, <3>1, Zenon
  <2>4. PICK u : u = t.queue
    OBVIOUS
  <2>5. /\ u.state = s /\ u.test_key = p.test_key /\ u.awaiting = p.awaiting
        /\ u.stream_map = p.stream_map
        /\ IsWhole(u)
    BY <1>1, <2>1, <2>2, <2>4, Zenon DEF IntoQueue
  <2>6. IsQueue(u)
    BY <1>5, <2>3, <2>5, Zenon DEF IsQueue
  <2>7. SameUnderTest(q, u)
    BY <1>2, <2>3, <2>5, Zenon DEF SameUnderTest
  <2>8. Queued(u) = Append(Queued(p), w.change)
    BY <2>3, <2>5, Zenon DEF Queued
  <2>9. Placing(turn, P, Queued(q), q.awaiting, n + 1,
                Append(Queued(p), w.change), p.awaiting, Append(r.added, w.change))
    BY <1>1, <1>2, <1>6, PlacedInQueue, Zenon
  <2>10. IsResult(t) /\ t.rejected = << >> /\ t.added = Append(r.added, w.change)
    BY <1>2, <2>2, Zenon DEF IntoQueue
  <2> QED BY <1>1, <2>4, <2>5, <2>6, <2>7, <2>8, <2>9, <2>10, Zenon DEF Placed
<1>7. CASE w.missing \ IdsOf(r.added) # {}
  <2>1. PICK missing : missing = w.missing \ IdsOf(r.added)
    OBVIOUS
  <2>2. PICK v : v = [change |-> w.change, missing |-> missing]
    OBVIOUS
  <2>3. PICK a : a = Append(p.awaiting, v)
    OBVIOUS
  <2>4. Aside(r, w, t)
    BY <1>1, <1>2, <1>5, <1>7, PlaceCases
  <2>5. PICK u : u = t.queue
    OBVIOUS
  <2>6. /\ u.state = p.state /\ u.test_key = p.test_key /\ u.awaiting = a
        /\ u.stream_map = p.stream_map
        /\ IsWhole(u)
    BY <1>1, <2>1, <2>2, <2>3, <2>4, <2>5, Zenon DEF Aside
  <2>7. Placing(turn, P, Queued(q), q.awaiting, n + 1, Queued(p), a, r.added)
    BY <1>1, <1>2, <1>7, <2>1, <2>2, <2>3, PlacedAside, Zenon
  <2>8. a \in Seq(Waiting)
    BY <2>7, Zenon DEF Placing
  <2>9. IsQueue(u)
    BY <1>5, <2>6, <2>8, Zenon DEF IsQueue
  <2>10. SameUnderTest(q, u)
    BY <1>2, <2>6, Zenon DEF SameUnderTest
  <2>11. Queued(u) = Queued(p)
    BY <2>6, Zenon DEF Queued
  <2>12. IsResult(t) /\ t.rejected = << >> /\ t.added = r.added
    BY <1>2, <2>4, Zenon DEF Aside
  <2> QED BY <1>1, <2>5, <2>6, <2>7, <2>9, <2>10, <2>11, <2>12, Zenon DEF Placed
<1> QED BY <1>6, <1>7

\* The function f is the one PlaceAll(q, turn) defines, on 0..n.
PlacesAll(f, q, turn, n) ==
    f = [k \in 0..n |-> IF k = 0 THEN [queue |-> q, added |-> << >>, rejected |-> << >>]
                        ELSE Place(f[k - 1], turn[k])]

LEMMA PlacesExist ==
    ASSUME NEW q, NEW turn
    PROVE  \A n \in Nat : \E f : PlacesAll(f, q, turn, n)
<1> DEFINE T == {n \in Nat : \E f : PlacesAll(f, q, turn, n)}
<1>1. 0 \in T
  <2> DEFINE e == [k \in 0..0 |-> [queue |-> q, added |-> << >>, rejected |-> << >>]]
  <2>1. PlacesAll(e, q, turn, 0)
    BY DEF PlacesAll
  <2> QED BY <2>1
<1>2. ASSUME NEW n \in T \cap Nat PROVE n + 1 \in T
  <2>1. n \in Nat /\ \E f : PlacesAll(f, q, turn, n)
    OBVIOUS
  <2> PICK f : PlacesAll(f, q, turn, n)
    BY <2>1
  <2> HIDE DEF T
  <2> DEFINE next(k) == IF k = 0 THEN [queue |-> q, added |-> << >>, rejected |-> << >>]
                        ELSE Place(f[k - 1], turn[k])
             g == [k \in 0..(n + 1) |-> next(k)]
  <2>2. \A k \in 0..n : g[k] = f[k]
    <3>1. \A k \in 0..n : f[k] = next(k)
      BY DEF PlacesAll
    <3>2. \A k \in 0..n : k \in 0..(n + 1)
      BY <2>1
    <3> QED BY <3>1, <3>2
  <2>3. \A k \in 0..(n + 1) : k # 0 => k - 1 \in 0..n /\ g[k - 1] = f[k - 1]
    <3>1. \A k \in 0..(n + 1) : k # 0 => k - 1 \in 0..n
      BY <2>1
    <3> HIDE DEF g
    <3> QED BY <2>2, <3>1
  <2>4. \A k \in 0..(n + 1) :
           g[k] = IF k = 0 THEN [queue |-> q, added |-> << >>, rejected |-> << >>]
                  ELSE Place(g[k - 1], turn[k])
    BY <2>3
  <2>5. PlacesAll(g, q, turn, n + 1)
    <3>1. g = [k \in 0..(n + 1) |-> g[k]]
      OBVIOUS
    <3> HIDE DEF g
    <3> QED BY <2>4, <3>1 DEF PlacesAll
  <2> HIDE DEF g
  <2> QED BY <2>1, <2>5 DEF T
<1>3. Nat \subseteq T
  <2> HIDE DEF T
  <2> QED BY <1>1, <1>2, SetInduction
<1> QED BY <1>3

LEMMA PlacedByAll ==
    ASSUME NEW q, NEW turn, NEW P, TurnOK(turn, P, Queued(q), q.awaiting), IsQueue(q),
           Placing(turn, P, Queued(q), q.awaiting, 0, Queued(q), q.awaiting, << >>)
    PROVE  Placed(q, turn, P, Len(turn), PlaceAll(q, turn))
<1>1. PICK l \in Nat : l = Len(turn)
  <2>1. PICK W : W = Waiting
    OBVIOUS
  <2>2. turn \in Seq(W)
    BY <2>1 DEF TurnOK
  <2> QED BY <2>2
<1> DEFINE f == CHOOSE f : PlacesAll(f, q, turn, l)
<1>2. PlacesAll(f, q, turn, l)
  BY PlacesExist
<1>3. PlaceAll(q, turn) = f[l]
  BY <1>1 DEF PlaceAll, PlacesAll
<1> HIDE DEF f
<1> DEFINE T == {n \in Nat : n <= l => Placed(q, turn, P, n, f[n])}
<1>4. 0 \in T
  <2>1. f[0] = [queue |-> q, added |-> << >>, rejected |-> << >>]
    BY <1>1, <1>2 DEF PlacesAll
  <2>2. PICK r : r = f[0]
    OBVIOUS
  <2>3. r.queue = q /\ r.added = << >> /\ r.rejected = << >> /\ IsResult(r)
    BY <2>1, <2>2 DEF IsResult
  <2>4. SameUnderTest(q, q)
    BY DEF SameUnderTest
  <2>5. Placed(q, turn, P, 0, r)
    BY <2>3, <2>4, Zenon DEF Placed
  <2> QED BY <2>2, <2>5
<1>5. ASSUME NEW n \in T \cap Nat PROVE n + 1 \in T
  <2>1. SUFFICES ASSUME n \in Nat, n + 1 <= l PROVE Placed(q, turn, P, n + 1, f[n + 1])
    OBVIOUS
  <2>2. Placed(q, turn, P, n, f[n])
    BY <1>1, <2>1
  <2> HIDE DEF T
  <2>3. f[n + 1] = Place(f[n], turn[n + 1])
    <3>1. n + 1 \in 0..l /\ n + 1 # 0 /\ (n + 1) - 1 = n
      BY <2>1
    <3> QED BY <1>2, <3>1 DEF PlacesAll
  <2>4. Placed(q, turn, P, n + 1, Place(f[n], turn[n + 1]))
    BY <1>1, <2>1, <2>2, PlaceNext
  <2> QED BY <2>3, <2>4, Zenon
<1>6. Nat \subseteq T
  <2> HIDE DEF T
  <2> QED BY <1>4, <1>5, SetInduction
<1>7. l \in T
  BY <1>6
<1> QED BY <1>1, <1>3, <1>7

-----------------------------------------------------------------------------
(* add.                                                                     *)

LEMMA PickedWaiting ==
    ASSUME NEW A \in Seq(Waiting), NEW I, NEW B, B = Picked(A, I)
    PROVE  /\ B \in Seq(Waiting) /\ Len(B) \in Nat /\ DOMAIN B = 1..Len(B)
           /\ \E p : PickedFrom(p, B, A, I, Len(A))
<1>1. PICK W : W = Waiting
  OBVIOUS
<1>2. A \in Seq(W)
  BY <1>1
<1>3. B \in Seq(W) /\ \E p : PickedFrom(p, B, A, I, Len(A))
  BY <1>2, PickedPlaces
<1>4. Len(B) \in Nat /\ DOMAIN B = 1..Len(B)
  BY <1>3
<1> QED BY <1>1, <1>3, <1>4

LEMMA WaitingLength ==
    ASSUME NEW A \in Seq(Waiting)
    PROVE  /\ Len(A) \in Nat /\ DOMAIN A = 1..Len(A)
           /\ \A i \in 1..Len(A) : A[i] \in Waiting /\ A[i].change \in Changes
<1>1. PICK W : W = Waiting
  OBVIOUS
<1>2. A \in Seq(W)
  BY <1>1
<1>3. Len(A) \in Nat /\ DOMAIN A = 1..Len(A) /\ \A i \in 1..Len(A) : A[i] \in W
  BY <1>2
<1>4. \A v \in Waiting : v.change \in Changes
  BY DEF Waiting
<1> QED BY <1>1, <1>3, <1>4

\* Who is left waiting has the reasons it had.
LEMMA PickedReasons ==
    ASSUME NEW A \in Seq(Waiting), NEW ids, Reasons(ids, A), NEW fewer, fewer \subseteq ids,
           NEW I
    PROVE  Reasons(fewer, Picked(A, I))
<1>1. PICK B : B = Picked(A, I)
  OBVIOUS
<1>2. Len(B) \in Nat /\ DOMAIN B = 1..Len(B) /\ \E p : PickedFrom(p, B, A, I, Len(A))
  BY <1>1, PickedWaiting, Zenon
<1>3. PICK p : PickedFrom(p, B, A, I, Len(A))
  BY <1>2
<1>4. PICK l, b : l = Len(A) /\ b = Len(B)
  OBVIOUS
<1>5. l \in Nat /\ DOMAIN A = 1..l /\ b \in Nat /\ DOMAIN B = 1..b
  BY <1>2, <1>4, WaitingLength
<1>6. /\ \A j, k \in 1..b : j < k => p[j] < p[k]
      /\ \A k \in 1..b : p[k] \in 1..l /\ B[k] = A[p[k]]
  BY <1>3, <1>4 DEF PickedFrom
<1>7. ASSUME NEW i \in 1..b
      PROVE  /\ B[i].missing # {} /\ B[i].missing \subseteq Requires[B[i].change]
             /\ B[i].missing \cap fewer = {}
             /\ \A j \in i..b : Id[B[j].change] \notin Requires[B[i].change]
  <2>1. /\ A[p[i]].missing # {} /\ A[p[i]].missing \subseteq Requires[A[p[i]].change]
        /\ A[p[i]].missing \cap ids = {}
        /\ \A j \in p[i]..l : Id[A[j].change] \notin Requires[A[p[i]].change]
    BY <1>4, <1>5, <1>6 DEF Reasons
  <2>2. ASSUME NEW j \in i..b PROVE j \in 1..b /\ p[j] \in p[i]..l
    <3>1. j \in 1..b /\ (j = i \/ i < j)
      BY <1>5
    <3>2. p[i] <= p[j]
      BY <1>6, <3>1
    <3> QED BY <1>5, <1>6, <3>1, <3>2
  <2>3. \A j \in i..b : Id[B[j].change] \notin Requires[B[i].change]
    BY <1>6, <2>1, <2>2
  <2> QED BY <1>6, <2>1, <2>3
<1> QED BY <1>1, <1>4, <1>5, <1>7 DEF Reasons

LEMMA PickedMet ==
    ASSUME NEW A \in Seq(Waiting), NEW ids, Met(ids, A), NEW I
    PROVE  Met(ids, Picked(A, I))
<1>1. PICK B : B = Picked(A, I)
  OBVIOUS
<1>2. DOMAIN B = 1..Len(B) /\ \E p : PickedFrom(p, B, A, I, Len(A))
  BY <1>1, PickedWaiting, Zenon
<1>3. PICK p : PickedFrom(p, B, A, I, Len(A))
  BY <1>2
<1>4. \A k \in 1..Len(B) : p[k] \in 1..Len(A) /\ B[k] = A[p[k]]
  BY <1>3 DEF PickedFrom
<1>5. DOMAIN A = 1..Len(A)
  BY WaitingLength
<1> QED BY <1>1, <1>2, <1>4, <1>5 DEF Met

LEMMA WaitingSplit ==
    ASSUME NEW A \in Seq(Waiting), NEW I, NEW J, I \cup J = DOMAIN A
    PROVE  WaitingIn(Picked(A, I)) \cup WaitingIn(Picked(A, J)) = WaitingIn(A)
<1>1. ASSUME NEW K, K \subseteq DOMAIN A
      PROVE  WaitingIn(Picked(A, K)) = {A[i].change : i \in K}
  <2>1. PICK B : B = Picked(A, K)
    OBVIOUS
  <2>2. DOMAIN B = 1..Len(B) /\ \E p : PickedFrom(p, B, A, K, Len(A))
    BY <2>1, PickedWaiting, Zenon
  <2>3. PICK p : PickedFrom(p, B, A, K, Len(A))
    BY <2>2
  <2>4. /\ \A k \in 1..Len(B) : p[k] \in K /\ B[k] = A[p[k]]
        /\ \A i \in K \cap (1..Len(A)) : \E k \in 1..Len(B) : p[k] = i
    BY <2>3 DEF PickedFrom
  <2>5. DOMAIN A = 1..Len(A)
    BY WaitingLength
  <2> QED BY <1>1, <2>1, <2>2, <2>4, <2>5 DEF WaitingIn
<1>2. WaitingIn(Picked(A, I)) = {A[i].change : i \in I}
      /\ WaitingIn(Picked(A, J)) = {A[i].change : i \in J}
  BY <1>1
<1> QED BY <1>2 DEF WaitingIn

Members(q) == ToSet(Queued(q)) \cup WaitingIn(q.awaiting)

\* What holds of the queue, if the changes with the ids P have passed.
Sound(q, P) ==
    /\ Follows(Queued(q), P)
    /\ Reasons(IdsOf(Queued(q)), q.awaiting)
    /\ Met(IdsOf(Queued(q)) \cup P, q.awaiting)

Removed(q, ids, t) ==
    /\ IsQueue(t) /\ t.state = q.state /\ t.test_key = q.test_key
    /\ t.stream_map = q.stream_map /\ t.awaiting = AwaitingWithoutIds(q, ids)

LEMMA RemoveAwaitingOnly ==
    ASSUME NEW q, IsQueue(q), NEW ids
    PROVE  Removed(q, ids, RemoveAwaiting(q, ids))
<1>1. PICK aw : aw = AwaitingWithoutIds(q, ids)
  OBVIOUS
<1>2. PICK t : t = RemoveAwaiting(q, ids)
  OBVIOUS
<1>3. t = [q EXCEPT !.awaiting = aw]
  BY <1>1, <1>2, Zenon DEF RemoveAwaiting
<1>4. IsWhole(q)
  BY Zenon DEF IsQueue
<1>5. /\ IsWhole(t) /\ t.state = q.state /\ t.test_key = q.test_key
      /\ t.stream_map = q.stream_map /\ t.awaiting = aw
  BY <1>3, <1>4 DEF IsWhole
<1>6. aw \in Seq(Waiting)
  BY <1>1, PickedWaiting DEF IsQueue, AwaitingWithoutIds
<1>7. IsQueue(t)
  BY <1>5, <1>6, Zenon DEF IsQueue
<1> QED BY <1>1, <1>2, <1>5, <1>7, Zenon DEF Removed

LEMMA SplitByIds ==
    ASSUME NEW q, IsQueue(q), NEW ids, NEW B, B = AwaitingWithIds(q, ids),
           NEW A, A = AwaitingWithoutIds(q, ids)
    PROVE  /\ A \in Seq(Waiting) /\ B \in Seq(Waiting)
           /\ WaitingIn(A) \cup WaitingIn(B) = WaitingIn(q.awaiting)
           /\ \A i \in DOMAIN A : A[i] \in ToSet(q.awaiting) /\ Id[A[i].change] \notin ids
           /\ \A i \in DOMAIN B : B[i] \in ToSet(q.awaiting) /\ Id[B[i].change] \in ids
<1>1. PICK W : W \in Seq(Waiting) /\ W = q.awaiting
  BY DEF IsQueue
<1>2. PICK I : I = {i \in DOMAIN W : Id[W[i].change] \in ids}
  OBVIOUS
<1>3. PICK J : J = {i \in DOMAIN W : Id[W[i].change] \notin ids}
  OBVIOUS
<1>4. A = Picked(W, J) /\ B = Picked(W, I)
  BY <1>1, <1>2, <1>3, Zenon DEF AwaitingWithIds, AwaitingWithoutIds
<1>5. A \in Seq(Waiting) /\ B \in Seq(Waiting)
  BY <1>1, <1>4, PickedWaiting, Zenon
<1>6. I \cup J = DOMAIN W
  BY <1>2, <1>3
<1>7. WaitingIn(A) \cup WaitingIn(B) = WaitingIn(W)
  BY <1>1, <1>4, <1>6, WaitingSplit
<1>8. ASSUME NEW K, NEW C, C = Picked(W, K), NEW i \in DOMAIN C
      PROVE  \E k \in DOMAIN W : k \in K /\ C[i] = W[k]
  <2>1. DOMAIN C = 1..Len(C) /\ \E p : PickedFrom(p, C, W, K, Len(W))
    BY <1>1, <1>8, PickedWaiting, Zenon
  <2>2. PICK p : PickedFrom(p, C, W, K, Len(W))
    BY <2>1
  <2>3. p[i] \in K \cap (1..Len(W)) /\ C[i] = W[p[i]]
    BY <1>8, <2>1, <2>2 DEF PickedFrom
  <2>4. DOMAIN W = 1..Len(W)
    BY <1>1, WaitingLength
  <2> QED BY <2>3, <2>4
<1>9. \A i \in DOMAIN A : A[i] \in ToSet(W) /\ Id[A[i].change] \notin ids
  <2>1. \A i \in DOMAIN A : \E k \in DOMAIN W : k \in J /\ A[i] = W[k]
    <3>1. \A K : \A C : C = Picked(W, K) =>
             \A i \in DOMAIN C : \E k \in DOMAIN W : k \in K /\ C[i] = W[k]
      BY <1>8
    <3> QED BY <1>4, <3>1
  <2>2. \A k \in DOMAIN W : W[k] \in ToSet(W)
    BY DEF ToSet
  <2> QED BY <1>3, <2>1, <2>2
<1>10. \A i \in DOMAIN B : B[i] \in ToSet(W) /\ Id[B[i].change] \in ids
  <2>1. \A i \in DOMAIN B : \E k \in DOMAIN W : k \in I /\ B[i] = W[k]
    <3>1. \A K : \A C : C = Picked(W, K) =>
             \A i \in DOMAIN C : \E k \in DOMAIN W : k \in K /\ C[i] = W[k]
      BY <1>8
    <3> QED BY <1>4, <3>1
  <2>2. \A k \in DOMAIN W : W[k] \in ToSet(W)
    BY DEF ToSet
  <2> QED BY <1>2, <2>1, <2>2
<1> QED BY <1>1, <1>5, <1>7, <1>9, <1>10, Zenon

\* The turn add takes: the new change, then its dependants among B.
TurnOf(w, B) == << w >> \o B

LEMMA TurnShape ==
    ASSUME NEW w \in Waiting, NEW B \in Seq(Waiting)
    PROVE  /\ TurnOf(w, B) \in Seq(Waiting) /\ Len(TurnOf(w, B)) = Len(B) + 1
           /\ TurnOf(w, B)[1] = w /\ \A m \in 1..Len(B) : TurnOf(w, B)[m + 1] = B[m]
           /\ WaitingIn(TurnOf(w, B)) = WaitingIn(B) \cup {w.change}
<1>0. PICK turn : turn = TurnOf(w, B)
  OBVIOUS
<1>1. PICK W : W = Waiting
  OBVIOUS
<1>2. PICK l \in Nat : l = Len(B)
  BY WaitingLength
<1>3. B \in Seq(W) /\ w \in W
  BY <1>1
<1>4. /\ turn \in Seq(W) /\ Len(turn) = l + 1 /\ turn[1] = w
      /\ \A m \in 1..l : turn[m + 1] = B[m]
  BY <1>0, <1>2, <1>3 DEF TurnOf
<1>5. DOMAIN turn = 1..(l + 1) /\ DOMAIN B = 1..l
  BY <1>2, <1>3, <1>4
<1>6. \A m : m \in 1..(l + 1) <=> m = 1 \/ \E k \in 1..l : m = k + 1
  <2>1. ASSUME NEW m \in 1..(l + 1), m # 1 PROVE m - 1 \in 1..l /\ m = (m - 1) + 1
    BY <1>2, <2>1
  <2>2. \A k \in 1..l : k + 1 \in 1..(l + 1)
    BY <1>2
  <2>3. 1 \in 1..(l + 1)
    BY <1>2
  <2> QED BY <2>1, <2>2, <2>3
<1>7. WaitingIn(turn) = WaitingIn(B) \cup {w.change}
  <2>1. \A c : c \in WaitingIn(turn) <=> \E m \in 1..(l + 1) : c = turn[m].change
    BY <1>5 DEF WaitingIn
  <2>2. \A c : c \in WaitingIn(B) <=> \E m \in 1..l : c = B[m].change
    BY <1>5 DEF WaitingIn
  <2>3. ASSUME NEW c, c \in WaitingIn(turn) PROVE c \in WaitingIn(B) \/ c = w.change
    <3>1. PICK m \in 1..(l + 1) : c = turn[m].change
      BY <2>1, <2>3
    <3>2. m = 1 \/ \E k \in 1..l : m = k + 1
      BY <1>6
    <3> QED BY <1>4, <2>2, <3>1, <3>2
  <2>4. ASSUME NEW c, c \in WaitingIn(B) PROVE c \in WaitingIn(turn)
    <3>1. PICK k \in 1..l : c = B[k].change
      BY <2>2, <2>4
    <3>2. k + 1 \in 1..(l + 1) /\ c = turn[k + 1].change
      BY <1>4, <1>6, <3>1
    <3> QED BY <2>1, <3>2
  <2>5. w.change \in WaitingIn(turn)
    <3>1. 1 \in 1..(l + 1)
      BY <1>6
    <3> QED BY <1>4, <2>1, <3>1
  <2> QED BY <2>3, <2>4, <2>5
<1> QED BY <1>0, <1>1, <1>2, <1>4, <1>7

\* The facts about c, what waits and the dependants on c that add relies on.
LEMMA DependantsOnNew ==
    ASSUME NEW c \in Changes, NEW cs \in SUBSET Changes,
           NEW ids, ids = DependantsOn(Id[c], {c} \cup cs), Id[c] \notin ids
    PROVE  /\ Id[c] \notin Requires[c] /\ Requires[c] \cap ids = {}
           /\ \A d \in cs : Id[d] \notin ids =>
                 Id[c] \notin Requires[d] /\ Requires[d] \cap ids = {}
<1>1. PICK ds \in SUBSET Changes : ds = {c} \cup cs
  OBVIOUS
<1>2. ASSUME NEW d \in ds, Requires[d] \cap ({Id[c]} \cup ids) # {} PROVE Id[d] \in ids
  BY <1>1, <1>2, DependantsClosed
<1> QED BY <1>1, <1>2

LEMMA TurnIsOK ==
    ASSUME NEW q, IsQueue(q), NEW P, Sound(q, P), NEW c \in Changes,
           NEW ids, ids = DependantsOn(Id[c], {c} \cup ToSet(Awaiting(q))), Id[c] \notin ids,
           NEW w \in Waiting, w.change = c, w.missing = MissingDeps(q, c),
           NEW turn, turn = TurnOf(w, AwaitingWithIds(q, ids)),
           NEW A0, A0 = AwaitingWithoutIds(q, ids)
    PROVE  TurnOK(turn, P, Queued(q), A0)
<1>1. PICK A \in Seq(Waiting) : A = q.awaiting
  BY DEF IsQueue
<1>2. PICK B : B = AwaitingWithIds(q, ids)
  OBVIOUS
<1>3. /\ A0 \in Seq(Waiting) /\ B \in Seq(Waiting)
      /\ \A i \in DOMAIN A0 : A0[i] \in ToSet(A) /\ Id[A0[i].change] \notin ids
      /\ \A i \in DOMAIN B : B[i] \in ToSet(A) /\ Id[B[i].change] \in ids
  <2>1. /\ A0 \in Seq(Waiting) /\ B \in Seq(Waiting)
        /\ \A i \in DOMAIN A0 : A0[i] \in ToSet(q.awaiting) /\ Id[A0[i].change] \notin ids
        /\ \A i \in DOMAIN B : B[i] \in ToSet(q.awaiting) /\ Id[B[i].change] \in ids
    BY <1>2, SplitByIds
  <2> QED BY <1>1, <2>1
<1>4. PICK M : M = MissingDeps(q, c)
  OBVIOUS
<1>6. w.change = c /\ w.missing = M /\ w \in Waiting
  BY <1>4
<1>7. /\ turn \in Seq(Waiting) /\ Len(turn) = Len(B) + 1 /\ turn[1] = w
      /\ \A m \in 1..Len(B) : turn[m + 1] = B[m]
  <2>0. B \in Seq(Waiting)
    BY <1>3
  <2>1. turn = TurnOf(w, B)
    BY <1>2
  <2>2. /\ TurnOf(w, B) \in Seq(Waiting) /\ Len(TurnOf(w, B)) = Len(B) + 1
        /\ TurnOf(w, B)[1] = w
    BY <2>0, TurnShape
  <2>3. \A m \in 1..Len(B) : TurnOf(w, B)[m + 1] = B[m]
    BY <2>0, TurnShape
  <2> QED BY <2>1, <2>2, <2>3
<1>8. PICK cs \in SUBSET Changes : cs = WaitingIn(A) /\ cs = ToSet(Awaiting(q))
  <2>1. ToSet(Awaiting(q)) = WaitingIn(A)
    BY <1>1, QueueType
  <2>2. WaitingIn(A) \subseteq Changes
    BY <1>1, WaitingLength DEF WaitingIn
  <2> QED BY <2>1, <2>2
<1>9. \A v \in ToSet(A) : v.change \in cs
  BY <1>8 DEF ToSet, WaitingIn
<1>10. /\ Id[c] \notin Requires[c] /\ Requires[c] \cap ids = {}
       /\ \A d \in cs : Id[d] \notin ids =>
             Id[c] \notin Requires[d] /\ Requires[d] \cap ids = {}
  <2>1. ids = DependantsOn(Id[c], {c} \cup cs)
    BY <1>8
  <2> QED BY <2>1, DependantsOnNew
<1>11. PICK l \in Nat : l = Len(B) /\ DOMAIN B = 1..l
  BY <1>3, WaitingLength
<1>12. \A m \in 1..(l + 1) : m = 1 \/ (m - 1 \in 1..l /\ turn[m] = B[m - 1])
  <2>1. ASSUME NEW m \in 1..(l + 1), m # 1
        PROVE  m - 1 \in 1..l /\ turn[m] = B[m - 1]
    <3>1. m - 1 \in 1..l /\ (m - 1) + 1 = m
      BY <1>11, <2>1
    <3> QED BY <1>7, <1>11, <3>1
  <2> QED BY <2>1
<1>13. \A m \in 1..(l + 1) : Id[turn[m].change] = Id[c] \/ Id[turn[m].change] \in ids
  <2>1. TAKE m \in 1..(l + 1)
  <2>2. CASE m = 1
    BY <1>6, <1>7, <2>2
  <2>3. CASE m # 1
    BY <1>3, <1>11, <1>12, <2>3
  <2> QED BY <2>2, <2>3
<1>14. ASSUME NEW m \in 1..(l + 1), NEW i \in DOMAIN A0
       PROVE  Id[turn[m].change] \notin Requires[A0[i].change]
  <2>1. A0[i].change \in cs /\ Id[A0[i].change] \notin ids
    BY <1>3, <1>9
  <2> QED BY <1>10, <1>13, <2>1
<1>15. ASSUME NEW m \in 1..(l + 1)
       PROVE  /\ turn[m].missing \subseteq Requires[turn[m].change]
              /\ turn[m].missing \cap IdsOf(Queued(q)) = {}
              /\ Requires[turn[m].change] \ turn[m].missing \subseteq IdsOf(Queued(q)) \cup P
              /\ \A k \in m..(l + 1) : Id[turn[k].change] \notin Requires[turn[m].change]
  <2>1. CASE m = 1
    <3>1. \A k \in m..(l + 1) : k \in 1..(l + 1)
      BY <2>1
    <3>2. \A k \in m..(l + 1) : Id[turn[k].change] \notin Requires[c]
      BY <1>10, <1>13, <3>1
    <3> QED BY <1>4, <1>6, <1>7, <2>1, <3>2 DEF MissingDeps
  <2>2. CASE m # 1
    <3>1. PICK I : B = Picked(A, I)
      BY <1>1, <1>2 DEF AwaitingWithIds
    <3>2. /\ Reasons(IdsOf(Queued(q)), B) /\ Met(IdsOf(Queued(q)) \cup P, B)
      BY <1>1, <3>1, PickedReasons, PickedMet DEF Sound
    <3>3. m - 1 \in 1..l /\ turn[m] = B[m - 1]
      BY <1>12, <2>2
    <3>4. \A k \in m..(l + 1) : k # 1 /\ k \in 1..(l + 1) /\ k - 1 \in (m - 1)..l
      BY <1>11, <2>2
    <3>5. \A k \in m..(l + 1) : turn[k] = B[k - 1]
      BY <1>12, <3>4
    <3>6. \A j \in (m - 1)..l : Id[B[j].change] \notin Requires[B[m - 1].change]
      BY <1>11, <3>2, <3>3 DEF Reasons
    <3>7. \A k \in m..(l + 1) : Id[turn[k].change] \notin Requires[turn[m].change]
      BY <3>3, <3>4, <3>5, <3>6
    <3>8. /\ B[m - 1].missing \subseteq Requires[B[m - 1].change]
          /\ B[m - 1].missing \cap IdsOf(Queued(q)) = {}
      BY <1>11, <3>2, <3>3, Zenon DEF Reasons
    <3>9. Requires[B[m - 1].change] \ B[m - 1].missing \subseteq IdsOf(Queued(q)) \cup P
      BY <1>11, <3>2, <3>3, Zenon DEF Met
    <3> QED BY <3>3, <3>7, <3>8, <3>9
  <2> QED BY <2>1, <2>2
<1>16. Len(turn) = l + 1
  BY <1>7, <1>11
<1>17. ASSUME NEW m \in 1..Len(turn)
       PROVE
          /\ turn[m].missing \subseteq Requires[turn[m].change]
          /\ turn[m].missing \cap IdsOf(Queued(q)) = {}
          /\ Requires[turn[m].change] \ turn[m].missing \subseteq IdsOf(Queued(q)) \cup P
          /\ \A k \in m..Len(turn) : Id[turn[k].change] \notin Requires[turn[m].change]
          /\ \A i \in DOMAIN A0 : Id[turn[m].change] \notin Requires[A0[i].change]
  <2>1. m \in 1..(l + 1)
    BY <1>16
  <2>2. \A k \in m..Len(turn) : k \in m..(l + 1)
    BY <1>16
  <2> QED BY <1>14, <1>15, <2>1, <2>2
<1> QED BY <1>7, <1>17, Zenon DEF TurnOK

LEMMA PlacingStarts ==
    ASSUME NEW P, NEW Q \in Seq(Changes), NEW A \in Seq(Waiting), NEW turn,
           TurnOK(turn, P, Q, A), Follows(Q, P), Reasons(IdsOf(Q), A), Met(IdsOf(Q) \cup P, A)
    PROVE  Placing(turn, P, Q, A, 0, Q, A, << >>)
<1>1. << >> \in Seq(Changes) /\ IdsOf(<< >>) = {}
  BY DEF IdsOf
<1>2. {turn[m].change : m \in 1..0} = {}
  OBVIOUS
<1>3. IdsOf(Q) = IdsOf(Q) \cup IdsOf(<< >>)
  BY <1>1
<1>4. ToSet(Q) \cup WaitingIn(A)
         = ToSet(Q) \cup WaitingIn(A) \cup {turn[m].change : m \in 1..0}
  BY <1>2
<1>5. \A i \in DOMAIN A : \A m \in (0 + 1)..Len(turn) :
         Id[turn[m].change] \notin Requires[A[i].change]
  <2>1. \A m \in (0 + 1)..Len(turn) : m \in 1..Len(turn)
    OBVIOUS
  <2> QED BY <2>1, Zenon DEF TurnOK
<1> QED BY <1>1, <1>3, <1>4, <1>5, Zenon DEF Placing

\* What add yields: r, of a queue q to which c is added.
Adds(q, P, c, r) ==
    /\ IsQueue(r.queue) /\ Sound(r.queue, P) /\ SameUnderTest(q, r.queue)
    /\ r.added \in Seq(Changes) /\ r.rejected \in Seq(Changes)
    /\ Members(r.queue) \cup ToSet(r.rejected) = Members(q) \cup {c}
    /\ \A e \in ToSet(r.rejected) :
          /\ Id[c] \in DependantsOn(Id[c], {c} \cup WaitingIn(q.awaiting))
          /\ Id[e] \in DependantsOn(Id[c], {c} \cup WaitingIn(q.awaiting))

LEMMA AddRejects ==
    ASSUME NEW q, IsQueue(q), NEW P, Sound(q, P), NEW c \in Changes,
           NEW ids, ids = DependantsOn(Id[c], {c} \cup WaitingIn(q.awaiting)), Id[c] \in ids,
           NEW w \in Waiting, w.change = c, w.missing = MissingDeps(q, c),
           NEW turn, turn = TurnOf(w, AwaitingWithIds(q, ids)),
           NEW r, r = [queue |-> RemoveAwaiting(q, ids), added |-> << >>,
                       rejected |-> [i \in DOMAIN turn |-> turn[i].change]]
    PROVE  Adds(q, P, c, r)
<1>1. PICK A, B : A = AwaitingWithoutIds(q, ids) /\ B = AwaitingWithIds(q, ids)
  OBVIOUS
<1>2. PICK t : t = RemoveAwaiting(q, ids)
  OBVIOUS
<1>3. PICK out : out = [i \in DOMAIN turn |-> turn[i].change]
  OBVIOUS
<1>4. r.queue = t /\ r.rejected = out
  BY <1>2, <1>3
<1>5. Removed(q, ids, t)
  BY <1>2, RemoveAwaitingOnly
<1>6. IsQueue(t) /\ SameUnderTest(q, t) /\ t.awaiting = A /\ Queued(t) = Queued(q)
  BY <1>1, <1>5, Zenon DEF Removed, SameUnderTest, Queued
<1>7. /\ A \in Seq(Waiting) /\ B \in Seq(Waiting)
      /\ WaitingIn(A) \cup WaitingIn(B) = WaitingIn(q.awaiting)
      /\ \A i \in DOMAIN B : Id[B[i].change] \in ids
  <2>1. \A X : X = B =>
           /\ A \in Seq(Waiting) /\ X \in Seq(Waiting)
           /\ WaitingIn(A) \cup WaitingIn(X) = WaitingIn(q.awaiting)
           /\ \A i \in DOMAIN X : Id[X[i].change] \in ids
    BY <1>1, SplitByIds
  <2> QED BY <2>1
<1>8. /\ turn \in Seq(Waiting) /\ WaitingIn(turn) = WaitingIn(B) \cup {c}
  <2>1. B \in Seq(Waiting)
    BY <1>7
  <2>2. TurnOf(w, B) \in Seq(Waiting) /\ WaitingIn(TurnOf(w, B)) = WaitingIn(B) \cup {w.change}
    BY <2>1, TurnShape
  <2> QED BY <1>1, <2>2
<1>9. out \in Seq(Changes) /\ ToSet(out) = WaitingIn(turn)
  <2>1. /\ Len(turn) \in Nat /\ DOMAIN turn = 1..Len(turn)
        /\ \A i \in 1..Len(turn) : turn[i].change \in Changes
    BY <1>8, WaitingLength
  <2>2. out \in Seq(Changes)
    <3>1. PICK l \in Nat : l = Len(turn)
      BY <2>1
    <3>2. out \in [1..l -> Changes]
      BY <1>3, <2>1, <3>1
    <3> QED BY <3>2
  <2>3. ToSet(out) = WaitingIn(turn)
    BY <1>3 DEF ToSet, WaitingIn
  <2> QED BY <2>2, <2>3
<1>10. Sound(t, P)
  <2>1. PICK A1 : A1 \in Seq(Waiting) /\ A1 = q.awaiting
    BY DEF IsQueue
  <2>2. PICK I : A = Picked(A1, I)
    BY <1>1, <2>1 DEF AwaitingWithoutIds
  <2>3. Reasons(IdsOf(Queued(q)), A) /\ Met(IdsOf(Queued(q)) \cup P, A)
    BY <2>1, <2>2, PickedReasons, PickedMet DEF Sound
  <2> QED BY <1>6, <2>3, Zenon DEF Sound
<1>11. Members(t) \cup ToSet(out) = Members(q) \cup {c}
  BY <1>6, <1>7, <1>8, <1>9 DEF Members
<1>12. \A e \in ToSet(out) : Id[e] \in ids
  <2>1. \A e \in WaitingIn(B) : Id[e] \in ids
    BY <1>7 DEF WaitingIn
  <2> QED BY <1>8, <1>9, <2>1
<1>13. r.added \in Seq(Changes)
  <2>1. r.added = << >> /\ << >> \in Seq(Changes)
    OBVIOUS
  <2> QED BY <2>1, Zenon
<1> QED BY <1>4, <1>6, <1>9, <1>10, <1>11, <1>12, <1>13, Zenon DEF Adds

LEMMA AddPlaces ==
    ASSUME NEW q, IsQueue(q), NEW P, Sound(q, P), NEW c \in Changes,
           NEW ids, ids = DependantsOn(Id[c], {c} \cup WaitingIn(q.awaiting)), Id[c] \notin ids,
           NEW w \in Waiting, w.change = c, w.missing = MissingDeps(q, c),
           NEW turn, turn = TurnOf(w, AwaitingWithIds(q, ids)),
           NEW r, r = PlaceAll(RemoveAwaiting(q, ids), turn)
    PROVE  Adds(q, P, c, r)
<1>1. PICK A, B : A = AwaitingWithoutIds(q, ids) /\ B = AwaitingWithIds(q, ids)
  OBVIOUS
<1>2. PICK t : t = RemoveAwaiting(q, ids)
  OBVIOUS
<1>3. Removed(q, ids, t)
  BY <1>2, RemoveAwaitingOnly
<1>4. IsQueue(t) /\ SameUnderTest(q, t) /\ t.awaiting = A /\ Queued(t) = Queued(q)
  BY <1>1, <1>3, Zenon DEF Removed, SameUnderTest, Queued
<1>5. /\ A \in Seq(Waiting) /\ B \in Seq(Waiting)
      /\ WaitingIn(A) \cup WaitingIn(B) = WaitingIn(q.awaiting)
  <2>1. \A X : X = B =>
           /\ A \in Seq(Waiting) /\ X \in Seq(Waiting)
           /\ WaitingIn(A) \cup WaitingIn(X) = WaitingIn(q.awaiting)
    BY <1>1, SplitByIds
  <2> QED BY <2>1
<1>6. PICK n : n = Len(turn)
  OBVIOUS
<1>7. {turn[m].change : m \in 1..n} = WaitingIn(B) \cup {c}
  <2>1. B \in Seq(Waiting)
    BY <1>5
  <2>2. TurnOf(w, B) \in Seq(Waiting) /\ WaitingIn(TurnOf(w, B)) = WaitingIn(B) \cup {w.change}
    BY <2>1, TurnShape
  <2>3. turn \in Seq(Waiting) /\ WaitingIn(turn) = WaitingIn(B) \cup {c}
    BY <1>1, <2>2
  <2>4. DOMAIN turn = 1..n
    BY <1>6, <2>3, WaitingLength
  <2> QED BY <2>3, <2>4 DEF WaitingIn
<1>8. TurnOK(turn, P, Queued(t), t.awaiting)
  <2>1. ids = DependantsOn(Id[c], {c} \cup ToSet(Awaiting(q)))
    BY QueueType
  <2>2. TurnOK(turn, P, Queued(q), A)
    BY <1>1, <2>1, TurnIsOK
  <2> QED BY <1>4, <2>2, Zenon
<1>9. Placing(turn, P, Queued(t), t.awaiting, 0, Queued(t), t.awaiting, << >>)
  <2>1. PICK A1 : A1 \in Seq(Waiting) /\ A1 = q.awaiting
    BY DEF IsQueue
  <2>2. PICK I : A = Picked(A1, I)
    BY <1>1, <2>1 DEF AwaitingWithoutIds
  <2>3. Reasons(IdsOf(Queued(q)), A) /\ Met(IdsOf(Queued(q)) \cup P, A)
    BY <2>1, <2>2, PickedReasons, PickedMet DEF Sound
  <2>4. Queued(t) \in Seq(Changes) /\ t.awaiting \in Seq(Waiting)
    BY <1>4, <1>5, QueueType
  <2>5. Follows(Queued(t), P)
    BY <1>4, Zenon DEF Sound
  <2> QED BY <1>4, <1>8, <2>3, <2>4, <2>5, PlacingStarts
<1>10. Placed(t, turn, P, n, r)
  BY <1>2, <1>4, <1>6, <1>8, <1>9, PlacedByAll
<1>11. PICK u : u = r.queue
  OBVIOUS
<1>12. /\ IsQueue(u) /\ SameUnderTest(t, u) /\ r.rejected = << >>
       /\ Placing(turn, P, Queued(t), t.awaiting, n, Queued(u), u.awaiting, r.added)
  BY <1>10, <1>11, Zenon DEF Placed
<1>13. Members(u) = Members(q) \cup {c}
  <2>1. Members(u) = ToSet(Queued(t)) \cup WaitingIn(A) \cup {turn[m].change : m \in 1..n}
    BY <1>4, <1>12, Zenon DEF Placing, Members
  <2> QED BY <1>4, <1>5, <1>7, <2>1 DEF Members
<1>14. Sound(u, P)
  BY <1>12, Zenon DEF Placing, Sound
<1>15. SameUnderTest(q, u)
  BY <1>4, <1>12, Zenon DEF SameUnderTest
<1>16. << >> \in Seq(Changes) /\ ToSet(<< >>) = {}
  BY DEF ToSet
<1>17. /\ r.rejected \in Seq(Changes)
       /\ Members(u) \cup ToSet(r.rejected) = Members(q) \cup {c}
       /\ \A e \in ToSet(r.rejected) : FALSE
  BY <1>12, <1>13, <1>16
<1>18. r.added \in Seq(Changes)
  BY <1>12, Zenon DEF Placing
<1> QED BY <1>11, <1>12, <1>14, <1>15, <1>17, <1>18, Zenon DEF Adds

\* add keeps every change it has and the one it is given, but what it rejects
\* for being on a loop, and leaves all in order.
LEMMA AddedEffect ==
    ASSUME NEW q, IsQueue(q), NEW P, Sound(q, P), NEW c \in Changes
    PROVE  Adds(q, P, c, Added(q, c))
<1>1. PICK ids : ids = DependantsOn(Id[c], {c} \cup ToSet(Awaiting(q)))
  OBVIOUS
<1>2. PICK w : w = [change |-> c, missing |-> MissingDeps(q, c)]
  OBVIOUS
<1>3. PICK turn : turn = TurnOf(w, AwaitingWithIds(q, ids))
  OBVIOUS
<1>4. w \in Waiting /\ w.change = c /\ w.missing = MissingDeps(q, c)
  <2>1. Requires[c] \in SUBSET Ids
    BY DependenciesAssumption
  <2> QED BY <1>2, <2>1 DEF MissingDeps, Waiting
<1>5. ids = DependantsOn(Id[c], {c} \cup WaitingIn(q.awaiting))
  BY <1>1, QueueType
<1>6. Added(q, c) = IF Id[c] \in ids
                    THEN [queue |-> RemoveAwaiting(q, ids), added |-> << >>,
                          rejected |-> [i \in DOMAIN turn |-> turn[i].change]]
                    ELSE PlaceAll(RemoveAwaiting(q, ids), turn)
  BY <1>1, <1>2, <1>3, Zenon DEF Added, TurnOf
<1>7. PICK r : r = Added(q, c)
  OBVIOUS
<1>8. CASE Id[c] \in ids
  BY <1>3, <1>4, <1>5, <1>6, <1>7, <1>8, AddRejects
<1>9. CASE Id[c] \notin ids
  BY <1>3, <1>4, <1>5, <1>6, <1>7, <1>9, AddPlaces
<1> QED BY <1>8, <1>9

-----------------------------------------------------------------------------
(* on_test_failure: a culprit and its dependants go.                        *)

\* Behind s, what s holds may be counted as passed.
LEMMA FollowsRest ==
    ASSUME NEW s \in Seq(Changes), NEW t \in Seq(Changes), NEW P, Follows(s \o t, P)
    PROVE  Follows(t, P \cup IdsOf(s))
<1>1. PICK r : r = s \o t
  OBVIOUS
<1>2. PICK l \in Nat, m \in Nat : l = Len(s) /\ m = Len(t)
  OBVIOUS
<1>3. /\ r \in Seq(Changes) /\ Len(r) = l + m
      /\ \A i \in 1..l : r[i] = s[i]
      /\ \A i \in 1..m : r[l + i] = t[i]
  BY <1>1, <1>2
<1>4. DOMAIN r = 1..(l + m) /\ DOMAIN t = 1..m
  BY <1>2, <1>3
<1>5. ASSUME NEW i \in 1..m, NEW id \in Requires[t[i]]
      PROVE  id \in P \cup IdsOf(s) \/ \E j \in 1..(i - 1) : Id[t[j]] = id
  <2>1. l + i \in 1..(l + m) /\ r[l + i] = t[i]
    BY <1>3
  <2>2. id \in P \/ \E j \in 1..((l + i) - 1) : Id[r[j]] = id
    BY <1>1, <1>4, <1>5, <2>1 DEF Follows
  <2>3. SUFFICES ASSUME NEW j \in 1..((l + i) - 1), Id[r[j]] = id
                 PROVE  id \in IdsOf(s) \/ \E k \in 1..(i - 1) : Id[t[k]] = id
    BY <2>2
  <2>4. CASE j \in 1..l
    BY <1>2, <1>3, <2>3, <2>4, IdsOfMember
  <2>5. CASE j \notin 1..l
    <3>1. j - l \in 1..(i - 1) /\ j - l \in 1..m /\ l + (j - l) = j
      BY <2>5
    <3>2. r[j] = t[j - l]
      BY <1>3, <3>1
    <3> QED BY <2>3, <3>1, <3>2
  <2> QED BY <2>4, <2>5
<1> QED BY <1>4, <1>5 DEF Follows

LEMMA IdsOfCat ==
    ASSUME NEW s \in Seq(Changes), NEW t \in Seq(Changes)
    PROVE  IdsOf(s \o t) = IdsOf(s) \cup IdsOf(t)
<1>1. s \o t \in Seq(Changes) /\ ToSet(s \o t) = ToSet(s) \cup ToSet(t)
  BY SetOfCat
<1>2. IdsOf(s \o t) = {Id[c] : c \in ToSet(s \o t)}
  BY <1>1, IdsOfSet
<1>3. IdsOf(s) = {Id[c] : c \in ToSet(s)} /\ IdsOf(t) = {Id[c] : c \in ToSet(t)}
  BY IdsOfSet
<1> QED BY <1>1, <1>2, <1>3

LEMMA PickedSet ==
    ASSUME NEW s \in Seq(Changes), NEW I, NEW t, t = Picked(s, I)
    PROVE  /\ t \in Seq(Changes)
           /\ ToSet(t) = {s[i] : i \in I \cap (1..Len(s))}
<1>1. t \in Seq(Changes) /\ \E p : PickedFrom(p, t, s, I, Len(s))
  BY PickedPlaces
<1>2. PICK p : PickedFrom(p, t, s, I, Len(s))
  BY <1>1
<1>3. /\ \A k \in 1..Len(t) : p[k] \in I \cap (1..Len(s)) /\ t[k] = s[p[k]]
      /\ \A i \in I \cap (1..Len(s)) : \E k \in 1..Len(t) : p[k] = i
  BY <1>2 DEF PickedFrom
<1>4. ToSet(t) = {t[k] : k \in 1..Len(t)}
  BY <1>1 DEF ToSet
<1> QED BY <1>1, <1>3, <1>4

LEMMA IdsSplit ==
    ASSUME NEW s \in Seq(Changes), NEW ids
    PROVE  /\ WithIds(s, ids) \in Seq(Changes) /\ WithoutIds(s, ids) \in Seq(Changes)
           /\ ToSet(WithIds(s, ids)) = {c \in ToSet(s) : Id[c] \in ids}
           /\ ToSet(WithoutIds(s, ids)) = {c \in ToSet(s) : Id[c] \notin ids}
<1>1. DOMAIN s = 1..Len(s)
  OBVIOUS
<1>2. PICK I : I = {i \in DOMAIN s : Id[s[i]] \in ids}
  OBVIOUS
<1>3. PICK J : J = {i \in DOMAIN s : Id[s[i]] \notin ids}
  OBVIOUS
<1>4. PICK t, u : t = Picked(s, I) /\ u = Picked(s, J)
  OBVIOUS
<1>5. t = WithIds(s, ids) /\ u = WithoutIds(s, ids)
  BY <1>2, <1>3, <1>4, Zenon DEF WithIds, WithoutIds
<1>6. /\ t \in Seq(Changes) /\ ToSet(t) = {s[i] : i \in I \cap (1..Len(s))}
      /\ u \in Seq(Changes) /\ ToSet(u) = {s[i] : i \in J \cap (1..Len(s))}
  BY <1>4, PickedSet
<1>7. ToSet(s) = {s[i] : i \in 1..Len(s)}
  BY <1>1 DEF ToSet
<1>8. ToSet(t) = {c \in ToSet(s) : Id[c] \in ids}
  BY <1>1, <1>2, <1>6, <1>7
<1>9. ToSet(u) = {c \in ToSet(s) : Id[c] \notin ids}
  BY <1>1, <1>3, <1>6, <1>7
<1> QED BY <1>5, <1>6, <1>8, <1>9, Zenon

\* What is left when all the dependants on x are taken out needs x no more.
LEMMA FollowsWithout ==
    ASSUME NEW f \in Seq(Changes), NEW P, NEW x, Follows(f, P \cup {x}),
           NEW ids, \A c \in ToSet(f) : Requires[c] \cap ({x} \cup ids) # {} => Id[c] \in ids
    PROVE  Follows(WithoutIds(f, ids), P)
<1>1. PICK J : J = {i \in DOMAIN f : Id[f[i]] \notin ids}
  OBVIOUS
<1>2. PICK u : u = WithoutIds(f, ids)
  OBVIOUS
<1>3. u = Picked(f, J)
  BY <1>1, <1>2, Zenon DEF WithoutIds
<1>4. u \in Seq(Changes) /\ \E p : PickedFrom(p, u, f, J, Len(f))
  BY <1>3, PickedPlaces
<1>5. PICK p : PickedFrom(p, u, f, J, Len(f))
  BY <1>4
<1>6. PICK l \in Nat, m \in Nat : l = Len(f) /\ m = Len(u)
  BY <1>4
<1>7. /\ \A k \in 1..m : p[k] \in 1..l /\ p[k] \in J /\ u[k] = f[p[k]]
      /\ \A j, k \in 1..m : j < k => p[j] < p[k]
      /\ \A i \in J \cap (1..l) : \E k \in 1..m : p[k] = i
  BY <1>5, <1>6 DEF PickedFrom
<1>8. DOMAIN f = 1..l /\ DOMAIN u = 1..m
  BY <1>4, <1>6
<1>9. ASSUME NEW k \in 1..m, NEW id \in Requires[u[k]], id \notin P
      PROVE  \E j \in 1..(k - 1) : Id[u[j]] = id
  <2>1. p[k] \in 1..l /\ u[k] = f[p[k]] /\ Id[u[k]] \notin ids
    BY <1>1, <1>7
  <2>2. u[k] \in ToSet(f)
    BY <1>8, <2>1 DEF ToSet
  <2>3. id # x /\ id \notin ids
    BY <1>9, <2>1, <2>2
  <2>4. PICK i \in 1..(p[k] - 1) : Id[f[i]] = id
    BY <1>8, <1>9, <2>1, <2>3 DEF Follows
  <2>5. i \in 1..l /\ i < p[k] /\ i \in J
    BY <1>1, <1>8, <2>1, <2>3, <2>4
  <2>6. PICK j \in 1..m : p[j] = i
    BY <1>7, <2>5
  <2>7. j < k
    <3>1. ~(k < j)
      BY <1>7, <2>1, <2>5, <2>6
    <3>2. j # k
      BY <2>5, <2>6
    <3> QED BY <3>1, <3>2
  <2>8. j \in 1..(k - 1) /\ Id[u[j]] = id
    BY <1>7, <2>4, <2>6, <2>7
  <2> QED BY <2>8
<1> QED BY <1>2, <1>8, <1>9 DEF Follows

LEMMA MetWithout ==
    ASSUME NEW f \in Seq(Changes), NEW P, NEW x, NEW A \in Seq(Waiting),
           Met(IdsOf(f) \cup P \cup {x}, A),
           NEW ids, \A c \in WaitingIn(A) : Requires[c] \cap ({x} \cup ids) # {} => Id[c] \in ids,
           \A i \in DOMAIN A : Id[A[i].change] \notin ids
    PROVE  Met(IdsOf(WithoutIds(f, ids)) \cup P, A)
<1>1. IdsOf(f) \subseteq IdsOf(WithoutIds(f, ids)) \cup ids
  <2>1. /\ WithoutIds(f, ids) \in Seq(Changes)
        /\ ToSet(WithoutIds(f, ids)) = {c \in ToSet(f) : Id[c] \notin ids}
    BY IdsSplit
  <2>2. IdsOf(f) = {Id[c] : c \in ToSet(f)}
        /\ IdsOf(WithoutIds(f, ids)) = {Id[c] : c \in ToSet(WithoutIds(f, ids))}
    BY <2>1, IdsOfSet
  <2> QED BY <2>1, <2>2
<1>2. ASSUME NEW i \in DOMAIN A, NEW id \in Requires[A[i].change] \ A[i].missing
      PROVE  id \in IdsOf(WithoutIds(f, ids)) \cup P
  <2>1. id \in IdsOf(f) \cup P \cup {x}
    BY <1>2 DEF Met
  <2>2. A[i].change \in WaitingIn(A) /\ Id[A[i].change] \notin ids
    BY DEF WaitingIn
  <2>3. id # x /\ id \notin ids
    BY <1>2, <2>2
  <2> QED BY <1>1, <2>1, <2>3
<1> QED BY <1>2 DEF Met

\* Only the last section may be empty.
Shaped(q) == \A i \in 1..(Len(q.state) - 1) : q.state[i] # << >>

IsOutcome(r) == r = [queue |-> r.queue, successful |-> r.successful,
                     failed |-> r.failed, cause |-> r.cause]

\* What a failure yields: r, of a queue q whose first section failed.
Fails(q, P, r) ==
    /\ IsOutcome(r) /\ IsQueue(r.queue) /\ Sound(r.queue, P) /\ Shaped(r.queue)
    /\ r.queue.test_key = NoKey /\ r.queue.stream_map = q.stream_map
    /\ r.successful = << >> /\ r.failed \in Seq(Changes)
    /\ IF r.failed = << >> THEN r.cause = NoChange ELSE r.cause = Head(r.failed)
    /\ Members(q) = Members(r.queue) \cup ToSet(r.failed)

Split(q, t) ==
    /\ IsWhole(t) /\ t.state = AfterFailure(q.state) /\ t.test_key = NoKey
    /\ t.awaiting = q.awaiting /\ t.stream_map = q.stream_map

LEMMA SplitIs ==
    ASSUME NEW q, IsWhole(q)
    PROVE  Split(q, [q EXCEPT !.state = AfterFailure(@), !.test_key = NoKey])
<1>1. PICK st : st = AfterFailure(q.state)
  OBVIOUS
<1>2. PICK t : t = [q EXCEPT !.state = AfterFailure(@), !.test_key = NoKey]
  OBVIOUS
<1>3. t = [q EXCEPT !.state = st, !.test_key = NoKey]
  BY <1>1, <1>2 DEF IsWhole
<1>4. Split(q, t)
  BY <1>1, <1>3 DEF Split, IsWhole
<1> QED BY <1>2, <1>4

\* The dependants on x are taken out of f, all that is left in the queue, and
\* of what waits.
TakenOut(q, x, f, r) ==
    /\ IsWhole(r.queue) /\ r.queue.test_key = q.test_key
    /\ r.queue.stream_map = q.stream_map
    /\ \E ids : /\ ids = DependantsOn(Id[x], ToSet(f) \cup WaitingIn(q.awaiting))
                /\ r.queue.state = << WithoutIds(f, ids) >>
                /\ r.queue.awaiting = AwaitingWithoutIds(q, ids)
                /\ r.removed = WithIds(f, ids) \o WithIds(Awaiting(q), ids)

LEMMA TakenOutIs ==
    ASSUME NEW q, IsQueue(q), NEW f \in Seq(Changes), q.state = << f >>, NEW x
    PROVE  TakenOut(q, x, f, WithoutDependantsOn(q, x))
<1>1. Queued(q) = f
  BY FlattenSingle DEF Queued
<1>2. ToSet(Awaiting(q)) = WaitingIn(q.awaiting)
  BY QueueType
<1>3. PICK ids : ids = DependantsOn(Id[x], ToSet(Queued(q)) \cup ToSet(Awaiting(q)))
  OBVIOUS
<1>4. ids = DependantsOn(Id[x], ToSet(f) \cup WaitingIn(q.awaiting))
  BY <1>1, <1>2, <1>3
<1>5. PICK out : out = RemoveAwaiting(q, ids)
  OBVIOUS
<1>6. Removed(q, ids, out)
  BY <1>5, RemoveAwaitingOnly
<1>7. PICK g : g = WithoutIds(f, ids)
  OBVIOUS
<1>8. PICK st : st = [i \in DOMAIN out.state |-> WithoutIds(out.state[i], ids)]
  OBVIOUS
<1>9. st = << g >>
  <2>1. out.state = << f >>
    BY <1>6, Zenon DEF Removed
  <2> QED BY <1>7, <1>8, <2>1
<1>10. PICK t : t = [out EXCEPT !.state = st]
  OBVIOUS
<1>11. /\ IsWhole(t) /\ t.state = << g >> /\ t.test_key = q.test_key
       /\ t.stream_map = q.stream_map /\ t.awaiting = AwaitingWithoutIds(q, ids)
  BY <1>6, <1>9, <1>10 DEF Removed, IsQueue, IsWhole
<1>12. PICK removed : removed = WithIds(Queued(q), ids) \o WithIds(Awaiting(q), ids)
  OBVIOUS
<1>13. PICK r : r = WithoutDependantsOn(q, x)
  OBVIOUS
<1>14. r = [queue |-> t, removed |-> removed]
  <2>1. r = [ queue   |-> [out EXCEPT !.state = [i \in DOMAIN @ |-> WithoutIds(@[i], ids)]],
              removed |-> removed ]
    BY <1>3, <1>5, <1>12, <1>13, Zenon DEF WithoutDependantsOn
  <2>2. [out EXCEPT !.state = [i \in DOMAIN @ |-> WithoutIds(@[i], ids)]] = t
    BY <1>6, <1>8, <1>10 DEF Removed, IsQueue, IsWhole
  <2> QED BY <2>1, <2>2, Zenon
<1>15. r.queue = t /\ r.removed = removed
  BY <1>14
<1> QED BY <1>1, <1>4, <1>7, <1>11, <1>12, <1>13, <1>15, Zenon DEF TakenOut

LEMMA HeadNotEmpty ==
    ASSUME NEW q, IsQueue(q), Shaped(q), Len(q.state) >= 2
    PROVE  Head(q.state) # << >> /\ Head(q.state) \in Seq(Changes)
<1>1. PICK U : U = Seq(Changes)
  OBVIOUS
<1>2. q.state \in Seq(U)
  BY <1>1, Zenon DEF IsQueue
<1>3. Head(q.state) = q.state[1] /\ q.state[1] \in U /\ 1 \in 1..(Len(q.state) - 1)
  BY <1>2
<1> QED BY <1>1, <1>3 DEF Shaped

LEMMA FailureSplits ==
    ASSUME NEW q, IsQueue(q), NEW P, Sound(q, P), Shaped(q), Len(q.state) >= 2,
           Culprits(q.state) = << >>
    PROVE  Fails(q, P, DepsFailure(q))
<1>1. PICK s : s = [q EXCEPT !.state = AfterFailure(@), !.test_key = NoKey]
  OBVIOUS
<1>2. Split(q, s)
  BY <1>1, SplitIs DEF IsQueue
<1>3. PICK r : r = DepsFailure(q)
  OBVIOUS
<1>4. r = [queue |-> s, successful |-> << >>, failed |-> << >>, cause |-> NoChange]
  BY <1>1, <1>3, Zenon DEF DepsFailure
<1>5. /\ r.queue = s /\ r.successful = << >> /\ r.failed = << >> /\ r.cause = NoChange
      /\ IsOutcome(r)
  BY <1>4 DEF IsOutcome
<1>6. q.state \in Seq(Seq(Changes)) /\ q.state # << >> /\ q.awaiting \in Seq(Waiting)
  BY Zenon DEF IsQueue
<1>7. /\ AfterFailure(q.state) \in Seq(Seq(Changes)) /\ AfterFailure(q.state) # << >>
      /\ \A i \in 1..(Len(AfterFailure(q.state)) - 1) : AfterFailure(q.state)[i] # << >>
  BY <1>6, AfterFailureShape DEF Shaped
<1>8. Queued(s) = Queued(q)
  <2>1. Head(q.state) # << >>
    BY HeadNotEmpty
  <2>2. FlattenSeq(q.state) = Cat(<< >>, FlattenSeq(AfterFailure(q.state)))
    BY <1>6, <1>7, <2>1, FailureKeepsOrder
  <2>3. FlattenSeq(AfterFailure(q.state)) \in Seq(Changes)
    BY <1>7, FlattenType, Zenon
  <2>4. Cat(<< >>, FlattenSeq(AfterFailure(q.state))) = FlattenSeq(AfterFailure(q.state))
    BY <2>3, CatEmpty
  <2> QED BY <1>2, <2>2, <2>4, Zenon DEF Split, Queued
<1>9. IsQueue(s) /\ Shaped(s)
  BY <1>2, <1>6, <1>7, Zenon DEF Split, IsQueue, Shaped
<1>10. Sound(s, P)
  BY <1>2, <1>8, Zenon DEF Sound, Split
<1>11. << >> \in Seq(Changes) /\ ToSet(<< >>) = {}
  BY DEF ToSet
<1>12. Members(q) = Members(s) \cup ToSet(<< >>)
  BY <1>2, <1>8, <1>11 DEF Members, Split
<1>13. s.test_key = NoKey /\ s.stream_map = q.stream_map
  BY <1>2, Zenon DEF Split
<1> QED BY <1>3, <1>5, <1>9, <1>10, <1>11, <1>12, <1>13, Zenon DEF Fails

LEMMA HeadOfCat ==
    ASSUME NEW S, NEW u \in Seq(S), NEW v \in Seq(S), Len(u) >= 1
    PROVE  u \o v # << >> /\ Head(u \o v) = Head(u)
<1>1. PICK r : r = u \o v
  OBVIOUS
<1>2. r \in Seq(S) /\ Len(r) >= 1 /\ r[1] = u[1]
  BY <1>1
<1>3. Head(r) = r[1] /\ r # << >> /\ Head(u) = u[1]
  BY <1>2, HeadIsFirst
<1> QED BY <1>1, <1>2, <1>3

LEMMA FailureBlames ==
    ASSUME NEW q, IsQueue(q), NEW P, Sound(q, P), Shaped(q), Len(q.state) >= 2,
           Culprits(q.state) # << >>
    PROVE  Fails(q, P, DepsFailure(q))
<1>1. PICK s : s = [q EXCEPT !.state = AfterFailure(@), !.test_key = NoKey]
  OBVIOUS
<1>2. Split(q, s)
  BY <1>1, SplitIs DEF IsQueue
<1>3. PICK k : k = Culprits(q.state)
  OBVIOUS
<1>4. PICK x : x = Head(k)
  OBVIOUS
<1>5. q.state \in Seq(Seq(Changes)) /\ q.state # << >> /\ q.awaiting \in Seq(Waiting)
  BY Zenon DEF IsQueue
<1>6. Head(q.state) # << >> /\ Head(q.state) \in Seq(Changes)
  BY HeadNotEmpty
<1>7. k = Head(q.state) /\ Len(Head(q.state)) = 1
  BY <1>3 DEF Culprits
<1>8. k \in Seq(Changes) /\ Len(k) = 1 /\ x \in Changes /\ ToSet(k) = {x} /\ IdsOf(k) = {Id[x]}
  <2>1. k \in Seq(Changes) /\ Len(k) = 1
    BY <1>6, <1>7
  <2>2. x = k[1] /\ k[1] \in Changes /\ ToSet(k) = {k[1]}
    BY <1>4, <2>1, SetOfOne
  <2>3. IdsOf(k) = {Id[c] : c \in ToSet(k)}
    BY <2>1, IdsOfSet
  <2> QED BY <2>1, <2>2, <2>3
<1>9. PICK f \in Seq(Changes) : f = FlattenSeq(Tail(q.state))
  <2>1. Tail(q.state) \in Seq(Seq(Changes))
    BY <1>5, HeadTailProperties
  <2> QED BY <2>1, FlattenType, Zenon
<1>10. Queued(q) = k \o f
  BY <1>5, <1>7, <1>9, FlattenHead, Zenon DEF Queued, Cat
<1>11. s.state = << f >> /\ s.state \in Seq(Seq(Changes)) /\ s.state # << >>
  <2>1. s.state = << f >>
    BY <1>2, <1>7, <1>9, AfterFailureCases, Zenon DEF Split
  <2>2. << f >> \in Seq(Seq(Changes)) /\ << f >> # << >>
    OBVIOUS
  <2> QED BY <2>1, <2>2
<1>12. IsQueue(s)
  BY <1>2, <1>5, <1>11, Zenon DEF IsQueue, Split
<1>13. PICK o : o = WithoutDependantsOn(s, x)
  OBVIOUS
<1>14. TakenOut(s, x, f, o)
  BY <1>11, <1>12, <1>13, TakenOutIs
<1>15. PICK t : t = o.queue
  OBVIOUS
<1>16. PICK A, W : A = q.awaiting /\ W = WaitingIn(A)
  OBVIOUS
<1>17. PICK ids : /\ ids = DependantsOn(Id[x], ToSet(f) \cup W)
                  /\ t.state = << WithoutIds(f, ids) >>
                  /\ t.awaiting = AwaitingWithoutIds(s, ids)
                  /\ o.removed = WithIds(f, ids) \o WithIds(Awaiting(s), ids)
  BY <1>2, <1>14, <1>15, <1>16 DEF TakenOut, Split
<1>18. IsWhole(t) /\ t.test_key = NoKey /\ t.stream_map = q.stream_map
  BY <1>2, <1>14, <1>15, Zenon DEF TakenOut, Split
<1>19. PICK g : g = WithoutIds(f, ids)
  OBVIOUS
<1>20. /\ g \in Seq(Changes) /\ WithIds(f, ids) \in Seq(Changes)
       /\ ToSet(g) \cup ToSet(WithIds(f, ids)) = ToSet(f)
  BY <1>19, IdsSplit
<1>21. PICK B : B = AwaitingWithoutIds(s, ids)
  OBVIOUS
<1>22. /\ B \in Seq(Waiting)
       /\ WaitingIn(B) \cup WaitingIn(AwaitingWithIds(s, ids)) = W
       /\ \A i \in DOMAIN B : Id[B[i].change] \notin ids
  <2>1. s.awaiting = A
    BY <1>2, <1>16 DEF Split
  <2>2. \A X : X = B =>
           /\ X \in Seq(Waiting)
           /\ WaitingIn(X) \cup WaitingIn(AwaitingWithIds(s, ids)) = WaitingIn(s.awaiting)
           /\ \A i \in DOMAIN X : Id[X[i].change] \notin ids
    BY <1>12, <1>21, SplitByIds
  <2> QED BY <1>16, <2>1, <2>2
<1>23. /\ Awaiting(s) \in Seq(Changes) /\ ToSet(Awaiting(s)) = W
       /\ WithIds(Awaiting(s), ids) \in Seq(Changes)
       /\ ToSet(WithIds(Awaiting(s), ids)) = {c \in W : Id[c] \in ids}
  <2>1. Awaiting(s) \in Seq(Changes) /\ ToSet(Awaiting(s)) = WaitingIn(s.awaiting)
    BY <1>12, QueueType
  <2>2. WaitingIn(s.awaiting) = W
    BY <1>2, <1>16 DEF Split
  <2>3. WithIds(Awaiting(s), ids) \in Seq(Changes)
        /\ ToSet(WithIds(Awaiting(s), ids)) = {c \in ToSet(Awaiting(s)) : Id[c] \in ids}
    BY <2>1, IdsSplit
  <2> QED BY <2>1, <2>2, <2>3
<1>24. WaitingIn(B) = {c \in W : Id[c] \notin ids}
  <2>1. \A c \in WaitingIn(B) : Id[c] \notin ids
    BY <1>22 DEF WaitingIn
  <2>2. \A i \in DOMAIN AwaitingWithIds(s, ids) : Id[AwaitingWithIds(s, ids)[i].change] \in ids
    BY <1>12, SplitByIds
  <2>3. \A c \in WaitingIn(AwaitingWithIds(s, ids)) : Id[c] \in ids
    BY <2>2 DEF WaitingIn
  <2> QED BY <1>22, <2>1, <2>3
<1>25. Queued(t) = g /\ << g >> \in Seq(Seq(Changes)) /\ << g >> # << >> /\ Len(<< g >>) = 1
  <2>1. FlattenSeq(<< g >>) = g
    BY <1>20, FlattenSingle
  <2>2. << g >> \in Seq(Seq(Changes)) /\ << g >> # << >> /\ Len(<< g >>) = 1
    BY <1>20
  <2> QED BY <1>17, <1>19, <2>1, <2>2 DEF Queued
<1>26. IsQueue(t)
  BY <1>17, <1>18, <1>19, <1>21, <1>22, <1>25, Zenon DEF IsQueue
<1>27. Shaped(t)
  BY <1>17, <1>19, <1>25 DEF Shaped
<1>28. \A c \in ToSet(f) \cup W : Requires[c] \cap ({Id[x]} \cup ids) # {} => Id[c] \in ids
  <2>1. ToSet(f) \cup W \in SUBSET Changes
    <3>1. ToSet(f) \subseteq Changes /\ ToSet(Awaiting(s)) \subseteq Changes
      BY <1>23 DEF ToSet
    <3> QED BY <1>23, <3>1
  <2>2. PICK cs \in SUBSET Changes : cs = ToSet(f) \cup W
    BY <2>1
  <2>3. ids = DependantsOn(Id[x], cs)
    BY <1>17, <2>2
  <2> QED BY <2>2, <2>3, DependantsClosed
<1>29. Sound(t, P)
  <2>1. Follows(f, P \cup {Id[x]})
    BY <1>8, <1>10, FollowsRest DEF Sound
  <2>2. Follows(g, P)
    BY <1>19, <1>28, <2>1, FollowsWithout
  <2>3. IdsOf(Queued(q)) = {Id[x]} \cup IdsOf(f)
    BY <1>8, <1>10, IdsOfCat
  <2>4. A \in Seq(Waiting) /\ Reasons(IdsOf(Queued(q)), A) /\ Met(IdsOf(Queued(q)) \cup P, A)
    BY <1>5, <1>16 DEF Sound
  <2>5. PICK I : B = Picked(A, I)
    BY <1>2, <1>16, <1>21 DEF AwaitingWithoutIds, Split
  <2>6. IdsOf(g) \subseteq IdsOf(Queued(q))
    <3>1. IdsOf(g) = {Id[c] : c \in ToSet(g)} /\ IdsOf(f) = {Id[c] : c \in ToSet(f)}
      BY <1>20, IdsOfSet
    <3> QED BY <1>20, <2>3, <3>1
  <2>7. Reasons(IdsOf(g), B)
    BY <2>4, <2>5, <2>6, PickedReasons
  <2>8. Met(IdsOf(f) \cup P \cup {Id[x]}, B)
    <3>1. Met(IdsOf(Queued(q)) \cup P, B)
      BY <2>4, <2>5, PickedMet
    <3>2. IdsOf(Queued(q)) \cup P = IdsOf(f) \cup P \cup {Id[x]}
      BY <2>3
    <3> QED BY <3>1, <3>2
  <2>9. Met(IdsOf(g) \cup P, B)
    BY <1>19, <1>22, <1>24, <1>28, <2>8, MetWithout
  <2> QED BY <1>17, <1>21, <1>25, <2>2, <2>7, <2>9 DEF Sound
<1>30. PICK failed : failed = k \o o.removed
  OBVIOUS
<1>31. /\ failed \in Seq(Changes) /\ failed # << >> /\ Head(failed) = x
       /\ ToSet(failed) = {x} \cup ToSet(WithIds(f, ids)) \cup {c \in W : Id[c] \in ids}
  <2>1. /\ o.removed \in Seq(Changes)
        /\ ToSet(o.removed) = ToSet(WithIds(f, ids)) \cup {c \in W : Id[c] \in ids}
    <3>1. PICK a, b : a = WithIds(f, ids) /\ b = WithIds(Awaiting(s), ids)
      OBVIOUS
    <3>2. a \in Seq(Changes) /\ b \in Seq(Changes) /\ ToSet(b) = {c \in W : Id[c] \in ids}
      BY <1>20, <1>23, <3>1
    <3>3. a \o b \in Seq(Changes) /\ ToSet(a \o b) = ToSet(a) \cup ToSet(b)
      BY <3>2, SetOfCat
    <3>4. o.removed = a \o b
      BY <1>17, <3>1
    <3> QED BY <3>1, <3>2, <3>3, <3>4
  <2>2. failed \in Seq(Changes) /\ ToSet(failed) = ToSet(k) \cup ToSet(o.removed)
    <3>1. PICK v \in Seq(Changes) : v = o.removed
      BY <2>1
    <3>2. k \in Seq(Changes)
      BY <1>8
    <3>3. k \o v \in Seq(Changes) /\ ToSet(k \o v) = ToSet(k) \cup ToSet(v)
      BY <3>2, SetOfCat
    <3> QED BY <1>30, <3>1, <3>3
  <2>3. failed # << >> /\ Head(failed) = x
    <3>1. PICK v \in Seq(Changes) : v = o.removed
      BY <2>1
    <3>2. PICK u \in Seq(Changes) : u = k /\ Len(u) = 1
      BY <1>8
    <3>3. u \o v # << >> /\ Head(u \o v) = Head(u)
      <4>1. Len(u) >= 1
        BY <3>2
      <4> QED BY <4>1, HeadOfCat
    <3> QED BY <1>4, <1>30, <3>1, <3>2, <3>3
  <2> QED BY <1>8, <2>1, <2>2, <2>3
<1>32. Members(q) = Members(t) \cup ToSet(failed)
  <2>1. ToSet(Queued(q)) = {x} \cup ToSet(f)
    BY <1>8, <1>10, SetOfCat
  <2>2. Members(q) = {x} \cup ToSet(f) \cup W
    BY <1>16, <2>1 DEF Members
  <2>3. Members(t) = ToSet(g) \cup WaitingIn(B)
    BY <1>17, <1>21, <1>25 DEF Members
  <2> QED BY <1>20, <1>24, <1>31, <2>2, <2>3
<1>33. PICK r : r = DepsFailure(q)
  OBVIOUS
<1>34. r = [queue |-> t, successful |-> << >>, failed |-> failed, cause |-> x]
  BY <1>1, <1>3, <1>4, <1>13, <1>15, <1>30, <1>33, Zenon DEF DepsFailure
<1>35. /\ r.queue = t /\ r.successful = << >> /\ r.failed = failed /\ r.cause = x
       /\ IsOutcome(r)
  BY <1>34 DEF IsOutcome
<1> QED BY <1>18, <1>26, <1>27, <1>29, <1>31, <1>32, <1>33, <1>35, Zenon DEF Fails

-----------------------------------------------------------------------------
(* The verdicts, and the stream of the culprit.                             *)

\* Who is blamed if x is the culprit and map the streams that fail already.
Blamed(map, x) ==
    IF Stream[x] = NoStream \/ map[Stream[x]] = NoChange THEN x ELSE map[Stream[x]]

BlamedMap(map, x) ==
    IF Stream[x] = NoStream THEN map ELSE [map EXCEPT ![Stream[x]] = Blamed(map, x)]

Forgiven(map, ok) ==
    [s \in Streams |-> IF s \in {Stream[ok[i]] : i \in DOMAIN ok} THEN NoChange ELSE map[s]]

SameButBlame(r, b) ==
    /\ IsOutcome(b) /\ b.successful = r.successful /\ b.failed = r.failed
    /\ IsWhole(b.queue) /\ b.queue.state = r.queue.state
    /\ b.queue.test_key = r.queue.test_key /\ b.queue.awaiting = r.queue.awaiting

LEMMA BlameIs ==
    ASSUME NEW r, IsOutcome(r), IsWhole(r.queue)
    PROVE  /\ SameButBlame(r, BlameFirstInStream(r))
           /\ IF r.cause = NoChange
              THEN /\ BlameFirstInStream(r).cause = NoChange
                   /\ BlameFirstInStream(r).queue.stream_map = r.queue.stream_map
              ELSE /\ BlameFirstInStream(r).cause = Blamed(r.queue.stream_map, r.cause)
                   /\ BlameFirstInStream(r).queue.stream_map
                         = BlamedMap(r.queue.stream_map, r.cause)
<1>1. PICK b : b = BlameFirstInStream(r)
  OBVIOUS
<1>2. CASE r.cause = NoChange
  <2>1. b = r
    BY <1>1, <1>2 DEF BlameFirstInStream
  <2> QED BY <1>1, <1>2, <2>1, Zenon DEF SameButBlame
<1>3. CASE r.cause # NoChange /\ Stream[r.cause] = NoStream
  <2>1. b = r
    BY <1>1, <1>3 DEF BlameFirstInStream
  <2> QED BY <1>1, <1>3, <2>1, Zenon DEF SameButBlame, Blamed, BlamedMap
<1>4. CASE r.cause # NoChange /\ Stream[r.cause] # NoStream
  <2>1. PICK s : s = Stream[r.cause]
    OBVIOUS
  <2>2. PICK first : first = Blamed(r.queue.stream_map, r.cause)
    OBVIOUS
  <2>3. b = [r EXCEPT !.queue.stream_map[s] = first, !.cause = first]
    BY <1>1, <1>4, <2>1, <2>2 DEF BlameFirstInStream, Blamed
  <2>4. PICK map : map = [r.queue.stream_map EXCEPT ![s] = first]
    OBVIOUS
  <2>5. b = [r EXCEPT !.queue.stream_map = map, !.cause = first]
    BY <2>3, <2>4 DEF IsOutcome, IsWhole
  <2>6. SameButBlame(r, b) /\ b.cause = first /\ b.queue.stream_map = map
    BY <2>5 DEF SameButBlame, IsOutcome, IsWhole
  <2> QED BY <1>1, <1>4, <2>1, <2>2, <2>4, <2>6, Zenon DEF BlamedMap
<1> QED BY <1>2, <1>3, <1>4

\* What a verdict yields: r, of a queue q; passed is the list that passed.
Judges(q, P, passed, r) ==
    /\ IsOutcome(r) /\ IsQueue(r.queue) /\ Sound(r.queue, P \cup IdsOf(passed))
    /\ Shaped(r.queue) /\ r.queue.test_key = NoKey
    /\ r.successful = passed /\ r.failed \in Seq(Changes)
    /\ Members(q) = Members(r.queue) \cup ToSet(passed) \cup ToSet(r.failed)
    /\ LET map == Forgiven(q.stream_map, passed)
       IN  IF r.failed = << >>
           THEN r.cause = NoChange /\ r.queue.stream_map = map
           ELSE /\ r.cause = Blamed(map, Head(r.failed))
                /\ r.queue.stream_map = BlamedMap(map, Head(r.failed))

LEMMA HeadIsMember ==
    ASSUME NEW s \in Seq(Changes), s # << >>
    PROVE  Head(s) \in Changes /\ Head(s) # NoChange
<1>1. Head(s) \in Changes
  OBVIOUS
<1> QED BY <1>1, StreamsAssumption

\* From what a failure yields to what a verdict does: ok passed before it.
LEMMA JudgesFromFails ==
    ASSUME NEW q, NEW t, NEW P, NEW ok \in Seq(Changes), NEW r, Fails(t, P \cup IdsOf(ok), r),
           Members(q) = Members(t) \cup ToSet(ok),
           NEW v, IsOutcome(v), v.successful = ok, v.failed = r.failed, v.cause = r.cause,
           IsWhole(v.queue), v.queue.state = r.queue.state, v.queue.test_key = r.queue.test_key,
           v.queue.awaiting = r.queue.awaiting,
           v.queue.stream_map = Forgiven(q.stream_map, ok)
    PROVE  Judges(q, P, ok, BlameFirstInStream(v))
<1>1. PICK b : b = BlameFirstInStream(v)
  OBVIOUS
<1>2. /\ SameButBlame(v, b)
      /\ IF v.cause = NoChange
         THEN b.cause = NoChange /\ b.queue.stream_map = v.queue.stream_map
         ELSE /\ b.cause = Blamed(v.queue.stream_map, v.cause)
              /\ b.queue.stream_map = BlamedMap(v.queue.stream_map, v.cause)
  BY <1>1, BlameIs
<1>3. PICK u, w : u = b.queue /\ w = r.queue
  OBVIOUS
<1>4. /\ IsOutcome(b) /\ b.successful = ok /\ b.failed = r.failed
      /\ IsWhole(u) /\ u.state = w.state /\ u.test_key = w.test_key /\ u.awaiting = w.awaiting
  BY <1>2, <1>3, Zenon DEF SameButBlame
<1>5. /\ IsQueue(w) /\ Sound(w, P \cup IdsOf(ok)) /\ Shaped(w) /\ w.test_key = NoKey
      /\ r.failed \in Seq(Changes)
      /\ IF r.failed = << >> THEN r.cause = NoChange ELSE r.cause = Head(r.failed)
      /\ Members(t) = Members(w) \cup ToSet(r.failed)
  BY <1>3, Zenon DEF Fails
<1>6. Queued(u) = Queued(w)
  BY <1>4, Zenon DEF Queued
<1>7. IsQueue(u) /\ Sound(u, P \cup IdsOf(ok)) /\ Shaped(u) /\ Members(u) = Members(w)
  BY <1>4, <1>5, <1>6, Zenon DEF IsQueue, Sound, Shaped, Members
<1>8. Members(q) = Members(u) \cup ToSet(ok) \cup ToSet(b.failed)
  BY <1>4, <1>5, <1>7
<1>9. CASE r.failed = << >>
  <2>1. b.cause = NoChange /\ u.stream_map = Forgiven(q.stream_map, ok)
    BY <1>2, <1>3, <1>5, <1>9
  <2> QED BY <1>1, <1>3, <1>4, <1>5, <1>7, <1>8, <1>9, <2>1, Zenon DEF Judges
<1>10. CASE r.failed # << >>
  <2>1. r.cause = Head(r.failed) /\ r.cause # NoChange
    BY <1>5, <1>10, HeadIsMember
  <2>2. /\ b.cause = Blamed(Forgiven(q.stream_map, ok), Head(b.failed))
        /\ u.stream_map = BlamedMap(Forgiven(q.stream_map, ok), Head(b.failed))
    BY <1>2, <1>3, <1>4, <2>1
  <2> QED BY <1>1, <1>3, <1>4, <1>5, <1>7, <1>8, <1>10, <2>2, Zenon DEF Judges
<1> QED BY <1>9, <1>10

LEMMA FailureEffect ==
    ASSUME NEW q, IsQueue(q), NEW P, Sound(q, P), Shaped(q), Len(q.state) >= 2,
           NEW M, q.stream_map \in [Streams -> M]
    PROVE  Judges(q, P, << >>, OnFailure(q))
<1>1. PICK r : r = DepsFailure(q)
  OBVIOUS
<1>2. Fails(q, P, r)
  BY <1>1, FailureSplits, FailureBlames
<1>3. << >> \in Seq(Changes) /\ IdsOf(<< >>) = {} /\ ToSet(<< >>) = {}
  BY DEF IdsOf, ToSet
<1>4. Fails(q, P \cup IdsOf(<< >>), r)
  <2>1. P \cup IdsOf(<< >>) = P
    BY <1>3
  <2> QED BY <1>2, <2>1
<1>5. Members(q) = Members(q) \cup ToSet(<< >>)
  BY <1>3
<1>6. Forgiven(q.stream_map, << >>) = q.stream_map
  BY DEF Forgiven
<1>7. /\ IsOutcome(r) /\ r.successful = << >> /\ r.queue.stream_map = q.stream_map
      /\ IsWhole(r.queue)
  BY <1>2, Zenon DEF Fails, IsQueue
<1>8. Judges(q, P, << >>, BlameFirstInStream(r))
  BY <1>3, <1>4, <1>5, <1>6, <1>7, JudgesFromFails
<1> QED BY <1>1, <1>8 DEF OnFailure

LEMMA SuccessEffect ==
    ASSUME NEW q, IsQueue(q), NEW P, Sound(q, P), Shaped(q), Len(q.state) >= 2
    PROVE  Judges(q, P, Head(q.state), OnSuccess(q))
<1>1. PICK ok \in Seq(Changes) : ok = Head(q.state)
  BY HeadNotEmpty
<1>2. PICK rest : rest = [q EXCEPT !.state = Tail(@)]
  OBVIOUS
<1>3. /\ IsWhole(q) /\ q.state \in Seq(Seq(Changes)) /\ q.state # << >>
      /\ q.awaiting \in Seq(Waiting)
  BY Zenon DEF IsQueue
<1>4. /\ IsWhole(rest) /\ rest.state = Tail(q.state) /\ rest.test_key = q.test_key
      /\ rest.awaiting = q.awaiting /\ rest.stream_map = q.stream_map
  BY <1>2, <1>3 DEF IsWhole
<1>5. /\ Tail(q.state) \in Seq(Seq(Changes)) /\ Tail(q.state) # << >>
      /\ Len(Tail(q.state)) = Len(q.state) - 1
      /\ \A i \in 1..(Len(q.state) - 1) : Tail(q.state)[i] = q.state[i + 1]
  BY <1>3, TailShape
<1>6. PICK l \in Nat : l = Len(q.state) /\ l >= 2
  BY <1>3
<1>7. IsQueue(rest)
  BY <1>3, <1>4, <1>5, Zenon DEF IsQueue
<1>8. Shaped(rest)
  <2>1. \A i \in 1..((l - 1) - 1) : i \in 1..(l - 1) /\ i + 1 \in 1..(l - 1)
    OBVIOUS
  <2> QED BY <1>4, <1>5, <1>6, <2>1 DEF Shaped
<1>9. PICK Q \in Seq(Changes) : Q = Queued(rest)
  BY <1>7, QueueType
<1>10. Queued(q) = ok \o Q
  BY <1>1, <1>3, <1>4, <1>9, FlattenHead, Zenon DEF Queued, Cat
<1>11. /\ IdsOf(Queued(q)) = IdsOf(ok) \cup IdsOf(Q)
       /\ ToSet(Queued(q)) = ToSet(ok) \cup ToSet(Q)
  BY <1>10, IdsOfCat, SetOfCat
<1>12. PICK PO : PO = P \cup IdsOf(ok)
  OBVIOUS
<1>13. Sound(rest, PO)
  <2>1. Follows(Q, PO)
    BY <1>10, <1>12, FollowsRest DEF Sound
  <2>2. Reasons(IdsOf(Q), q.awaiting)
    BY <1>11 DEF Sound, Reasons
  <2>3. Met(IdsOf(Q) \cup PO, q.awaiting)
    <3>1. IdsOf(Q) \cup PO = IdsOf(Queued(q)) \cup P
      BY <1>11, <1>12
    <3> QED BY <3>1 DEF Sound
  <2> QED BY <1>4, <1>9, <2>1, <2>2, <2>3, Zenon DEF Sound
<1>14. Members(q) = Members(rest) \cup ToSet(ok)
  BY <1>4, <1>9, <1>11 DEF Members
<1>15. PICK r : r = IF Len(rest.state) > 1 THEN DepsFailure(rest)
                    ELSE [queue |-> [rest EXCEPT !.test_key = NoKey],
                          successful |-> << >>, failed |-> << >>, cause |-> NoChange]
  OBVIOUS
<1>16. Fails(rest, PO, r)
  <2>1. CASE Len(rest.state) > 1
    <3>1. Len(rest.state) >= 2
      BY <1>4, <1>5, <1>6, <2>1
    <3>2. r = DepsFailure(rest)
      BY <1>15, <2>1
    <3> QED BY <1>7, <1>8, <1>13, <3>1, <3>2, FailureSplits, FailureBlames
  <2>2. CASE ~(Len(rest.state) > 1)
    <3>1. PICK t : t = [rest EXCEPT !.test_key = NoKey]
      OBVIOUS
    <3>2. /\ IsWhole(t) /\ t.state = rest.state /\ t.test_key = NoKey
          /\ t.awaiting = rest.awaiting /\ t.stream_map = rest.stream_map
      BY <1>4, <3>1 DEF IsWhole
    <3>3. r = [queue |-> t, successful |-> << >>, failed |-> << >>, cause |-> NoChange]
      BY <1>15, <2>2, <3>1, Zenon
    <3>4. /\ r.queue = t /\ r.successful = << >> /\ r.failed = << >>
          /\ r.cause = NoChange /\ IsOutcome(r)
      BY <3>3 DEF IsOutcome
    <3>5. Queued(t) = Queued(rest)
      BY <3>2, Zenon DEF Queued
    <3>6. IsQueue(t) /\ Sound(t, PO) /\ Shaped(t) /\ Members(t) = Members(rest)
      BY <1>7, <1>8, <1>13, <3>2, <3>5, Zenon DEF IsQueue, Sound, Shaped, Members
    <3>7. << >> \in Seq(Changes) /\ ToSet(<< >>) = {}
      BY DEF ToSet
    <3>8. Members(rest) = Members(t) \cup ToSet(<< >>)
      BY <3>6, <3>7
    <3> QED BY <3>2, <3>4, <3>6, <3>7, <3>8, Zenon DEF Fails
  <2> QED BY <2>1, <2>2
<1>17. PICK map : map = Forgiven(q.stream_map, ok)
  OBVIOUS
<1>18. PICK v : v = [r EXCEPT !.successful = ok, !.queue.stream_map = map]
  OBVIOUS
<1>19. IsOutcome(r) /\ IsWhole(r.queue) /\ r.queue.stream_map = q.stream_map
  BY <1>4, <1>16, Zenon DEF Fails, IsQueue
<1>20. /\ IsOutcome(v) /\ v.successful = ok /\ v.failed = r.failed /\ v.cause = r.cause
       /\ IsWhole(v.queue) /\ v.queue.state = r.queue.state
       /\ v.queue.test_key = r.queue.test_key /\ v.queue.awaiting = r.queue.awaiting
       /\ v.queue.stream_map = map
  BY <1>18, <1>19 DEF IsOutcome, IsWhole
<1>21. Judges(q, P, ok, BlameFirstInStream(v))
  BY <1>12, <1>14, <1>16, <1>17, <1>20, JudgesFromFails
<1>22. OnSuccess(q) = BlameFirstInStream(v)
  <2>1. v = [r EXCEPT !.successful = Head(q.state),
                      !.queue.stream_map =
                          [s \in Streams |->
                              IF s \in {Stream[Head(q.state)[i]] : i \in DOMAIN Head(q.state)}
                              THEN NoChange ELSE @[s]]]
    BY <1>1, <1>17, <1>18, <1>19 DEF Forgiven, IsOutcome, IsWhole
  <2> QED BY <1>2, <1>15, <2>1, Zenon DEF OnSuccess
<1> QED BY <1>1, <1>21, <1>22

-----------------------------------------------------------------------------
(* get_next_test, and the key of the section under test.                    *)

\* While there is a key, there is a section to test and one to add to.
KeyFits(q) == q.test_key # NoKey => Len(q.state) >= 2

Fit(q) == IsQueue(q) /\ Shaped(q) /\ KeyFits(q)

LEMMA NewQueueFits ==
    /\ Fit(NewQueue) /\ Queued(NewQueue) = << >> /\ NewQueue.awaiting = << >>
    /\ Members(NewQueue) = {} /\ \A P : Sound(NewQueue, P)
    /\ NewQueue.test_key = NoKey /\ NewQueue.stream_map = [s \in Streams |-> NoChange]
<1>1. PICK q : q = NewQueue
  OBVIOUS
<1>2. /\ q.state = << << >> >> /\ q.test_key = NoKey /\ q.awaiting = << >>
      /\ q.stream_map = [s \in Streams |-> NoChange] /\ IsWhole(q)
  BY <1>1 DEF NewQueue, IsWhole
<1>3. << << >> >> \in Seq(Seq(Changes)) /\ << << >> >> # << >> /\ Len(<< << >> >>) = 1
  OBVIOUS
<1>4. << >> \in Seq(Waiting) /\ << >> \in Seq(Changes)
  OBVIOUS
<1>5. IsQueue(q)
  BY <1>2, <1>3, <1>4 DEF IsQueue
<1>6. Shaped(q) /\ KeyFits(q)
  BY <1>2, <1>3 DEF Shaped, KeyFits
<1>7. FlattenSeq(<< << >> >>) = << >>
  BY <1>4, FlattenSingle
<1>8. Queued(q) = << >>
  BY <1>2, <1>7 DEF Queued
<1>9. Members(q) = {}
  BY <1>2, <1>8 DEF Members, WaitingIn, ToSet
<1>10. \A P : Sound(q, P)
  BY <1>2, <1>8 DEF Sound, Follows, Reasons, Met
<1> QED BY <1>1, <1>2, <1>5, <1>6, <1>8, <1>9, <1>10, Zenon DEF Fit

LEMMA AddKeepsFit ==
    ASSUME NEW q, Fit(q), NEW t, IsQueue(t), SameUnderTest(q, t)
    PROVE  Fit(t) /\ (Len(q.state) >= 2 => Head(t.state) = Head(q.state))
<1>1. Shaped(t) /\ KeyFits(t)
  BY Zenon DEF Fit, Shaped, KeyFits, SameUnderTest
<1>2. ASSUME Len(q.state) >= 2 PROVE Head(t.state) = Head(q.state)
  <2>1. PICK U : U = Seq(Changes)
    OBVIOUS
  <2>2. q.state \in Seq(U) /\ t.state \in Seq(U)
    BY <2>1, Zenon DEF IsQueue, Fit
  <2>3. Len(t.state) = Len(q.state) /\ \A i \in 1..(Len(q.state) - 1) : t.state[i] = q.state[i]
    BY Zenon DEF SameUnderTest
  <2>4. 1 \in 1..(Len(q.state) - 1) /\ Len(q.state) >= 1 /\ Len(t.state) >= 1
    BY <1>2, <2>2, <2>3
  <2>5. Head(q.state) = q.state[1] /\ Head(t.state) = t.state[1]
    BY <2>2, <2>4, HeadIsFirst
  <2> QED BY <2>3, <2>4, <2>5
<1> QED BY <1>1, <1>2 DEF Fit

\* What get_next_test yields.
Tests(q, key, t) ==
    /\ Fit(t) /\ Queued(t) = Queued(q) /\ t.awaiting = q.awaiting
    /\ t.stream_map = q.stream_map /\ Head(t.state) = Head(q.state)
    /\ IF Head(q.state) = << >> THEN t = q
       ELSE t.test_key = IF q.test_key = NoKey THEN key ELSE q.test_key

LEMMA NextTestEffect ==
    ASSUME NEW q, Fit(q), NEW key
    PROVE  Tests(q, key, NextTest(q, key))
<1>1. PICK t : t = NextTest(q, key)
  OBVIOUS
<1>2. CASE Head(q.state) = << >>
  <2>1. t = q
    BY <1>1, <1>2 DEF NextTest
  <2> QED BY <1>1, <1>2, <2>1 DEF Tests
<1>3. CASE Head(q.state) # << >>
  <2>1. PICK st : st = IF Len(q.state) <= 1 THEN Append(q.state, << >>) ELSE q.state
    OBVIOUS
  <2>2. t = [ state      |-> st,
              test_key   |-> IF q.test_key = NoKey THEN key ELSE q.test_key,
              awaiting   |-> q.awaiting,
              stream_map |-> q.stream_map ]
    BY <1>1, <1>3, <2>1 DEF NextTest
  <2>3. /\ IsWhole(t) /\ t.state = st /\ t.awaiting = q.awaiting
        /\ t.stream_map = q.stream_map
        /\ t.test_key = IF q.test_key = NoKey THEN key ELSE q.test_key
    BY <2>2 DEF IsWhole
  <2>4. /\ q.state \in Seq(Seq(Changes)) /\ q.state # << >> /\ q.awaiting \in Seq(Waiting)
        /\ Shaped(q)
    BY Zenon DEF Fit, IsQueue
  <2>5. /\ st \in Seq(Seq(Changes)) /\ st # << >> /\ Len(st) >= 2
        /\ FlattenSeq(st) = FlattenSeq(q.state) /\ Head(st) = Head(q.state)
        /\ \A i \in 1..(Len(st) - 1) : st[i] # << >>
    <3>1. CASE Len(q.state) <= 1
      <4>1. PICK U : U = Seq(Changes)
        OBVIOUS
      <4>2. PICK s \in Seq(U) : s = q.state /\ Len(s) = 1
        <5>1. q.state \in Seq(U) /\ q.state # << >>
          BY <2>4, <4>1, Zenon
        <5>2. PICK s \in Seq(U) : s = q.state
          BY <5>1
        <5>3. Len(s) = 1
          <6>1. Len(s) \in Nat /\ Len(s) # 0
            BY <5>1, <5>2, EmptyIfNoLen, LenProperties, Zenon
          <6>2. Len(s) <= 1
            BY <3>1, <5>2, Zenon
          <6>3. \A n \in Nat : n # 0 /\ n <= 1 => n = 1
            OBVIOUS
          <6> QED BY <6>1, <6>2, <6>3, Zenon
        <5> QED BY <5>2, <5>3
      <4>3. st = Append(s, << >>) /\ << >> \in U
        BY <2>1, <3>1, <4>1, <4>2
      <4>4. PICK r : r = Append(s, << >>)
        OBVIOUS
      <4>5. r \in Seq(U) /\ Len(r) = 2 /\ r[1] = s[1] /\ r # << >>
        BY <4>2, <4>3, <4>4
      <4>6. Head(r) = r[1] /\ Head(s) = s[1]
        <5>1. Len(r) >= 1 /\ Len(s) >= 1
          BY <4>2, <4>5
        <5> QED BY <4>5, <5>1, HeadIsFirst
      <4>7. FlattenSeq(r) = FlattenSeq(q.state)
        <5>1. << >> \in Seq(Changes)
          OBVIOUS
        <5>2. FlattenSeq(Append(q.state, << >>)) = FlattenSeq(q.state) \o << >>
          BY <2>4, <5>1, FlattenAppend
        <5>3. FlattenSeq(q.state) \in Seq(Changes)
          BY <2>4, FlattenType
        <5>4. FlattenSeq(q.state) \o << >> = FlattenSeq(q.state)
          BY <5>3
        <5> QED BY <4>2, <4>4, <5>2, <5>4
      <4>8. \A i \in 1..(Len(r) - 1) : r[i] # << >>
        <5>1. \A i \in 1..(Len(r) - 1) : i = 1
          BY <4>5
        <5> QED BY <1>3, <4>2, <4>5, <4>6, <5>1
      <4> QED BY <4>1, <4>2, <4>3, <4>4, <4>5, <4>6, <4>7, <4>8
    <3>2. CASE ~(Len(q.state) <= 1)
      <4>1. st = q.state
        BY <2>1, <3>2
      <4>2. Len(q.state) >= 2
        BY <2>4, <3>2
      <4> QED BY <2>4, <4>1, <4>2, Zenon DEF Shaped
    <3> QED BY <3>1, <3>2
  <2>6. IsQueue(t)
    BY <2>3, <2>4, <2>5, Zenon DEF IsQueue
  <2>7. Shaped(t) /\ KeyFits(t) /\ Queued(t) = Queued(q)
    BY <2>3, <2>5, Zenon DEF Shaped, KeyFits, Queued
  <2> QED BY <1>1, <1>3, <2>3, <2>5, <2>6, <2>7, Zenon DEF Tests, Fit
<1> QED BY <1>2, <1>3

-----------------------------------------------------------------------------
(* Each change is in the queue once.                                        *)

Distinct(s) == \A i, j \in DOMAIN s : s[i] = s[j] => i = j
EachOnce(A) == \A i, j \in DOMAIN A : A[i].change = A[j].change => i = j
Disjoint(S, T) == \A x \in S : x \notin T

\* Those in the queue, Q, and those that wait, A.
Unique(Q, A) == Distinct(Q) /\ EachOnce(A) /\ Disjoint(ToSet(Q), WaitingIn(A))
Once(q) == Unique(Queued(q), q.awaiting)

LEMMA DistinctAppend ==
    ASSUME NEW s \in Seq(Changes), Distinct(s), NEW c \in Changes, c \notin ToSet(s)
    PROVE  Distinct(Append(s, c))
<1>1. PICK t : t = Append(s, c)
  OBVIOUS
<1>2. PICK l \in Nat : l = Len(s)
  OBVIOUS
<1>3. /\ DOMAIN s = 1..l /\ DOMAIN t = 1..(l + 1) /\ t[l + 1] = c
      /\ \A i \in 1..l : t[i] = s[i]
  BY <1>1, <1>2
<1>4. \A i \in 1..l : s[i] # c
  BY <1>3 DEF ToSet
<1>5. ASSUME NEW i \in 1..(l + 1), NEW j \in 1..(l + 1), t[i] = t[j] PROVE i = j
  <2>1. (i = l + 1 \/ i \in 1..l) /\ (j = l + 1 \/ j \in 1..l)
    BY <1>2
  <2> QED BY <1>3, <1>4, <1>5, <2>1 DEF Distinct
<1> QED BY <1>1, <1>3, <1>5 DEF Distinct

LEMMA DistinctCat ==
    ASSUME NEW s \in Seq(Changes), NEW t \in Seq(Changes), Distinct(s \o t)
    PROVE  Distinct(s) /\ Distinct(t) /\ Disjoint(ToSet(s), ToSet(t))
<1>1. PICK u : u = s \o t
  OBVIOUS
<1>2. PICK l \in Nat, m \in Nat : l = Len(s) /\ m = Len(t)
  OBVIOUS
<1>3. /\ DOMAIN s = 1..l /\ DOMAIN t = 1..m /\ DOMAIN u = 1..(l + m)
      /\ \A i \in 1..l : u[i] = s[i] /\ i \in 1..(l + m)
      /\ \A i \in 1..m : u[l + i] = t[i] /\ l + i \in 1..(l + m)
  BY <1>1, <1>2
<1>4. \A i, j \in 1..(l + m) : u[i] = u[j] => i = j
  BY <1>1, <1>3 DEF Distinct
<1>5. Distinct(s)
  BY <1>3, <1>4 DEF Distinct
<1>6. Distinct(t)
  <2>1. ASSUME NEW i \in 1..m, NEW j \in 1..m, t[i] = t[j] PROVE i = j
    <3>1. l + i = l + j
      BY <1>3, <1>4, <2>1
    <3> QED BY <1>2, <3>1
  <2> QED BY <1>3, <2>1 DEF Distinct
<1>7. ASSUME NEW i \in 1..l, NEW j \in 1..m PROVE s[i] # t[j]
  <2>1. i # l + j
    BY <1>2
  <2> QED BY <1>3, <1>4, <2>1
<1> QED BY <1>3, <1>5, <1>6, <1>7 DEF Disjoint, ToSet

LEMMA DistinctPicked ==
    ASSUME NEW s \in Seq(Changes), Distinct(s), NEW I
    PROVE  Distinct(Picked(s, I))
<1>1. PICK t : t = Picked(s, I)
  OBVIOUS
<1>2. t \in Seq(Changes) /\ \E p : PickedFrom(p, t, s, I, Len(s))
  BY <1>1, PickedPlaces
<1>3. PICK p : PickedFrom(p, t, s, I, Len(s))
  BY <1>2
<1>4. PICK l \in Nat, m \in Nat : l = Len(s) /\ m = Len(t) /\ DOMAIN s = 1..l /\ DOMAIN t = 1..m
  BY <1>2
<1>5. /\ \A k \in 1..m : p[k] \in 1..l /\ t[k] = s[p[k]]
      /\ \A j, k \in 1..m : j < k => p[j] < p[k]
  BY <1>3, <1>4 DEF PickedFrom
<1>6. ASSUME NEW i \in 1..m, NEW j \in 1..m, t[i] = t[j] PROVE i = j
  <2>1. p[i] = p[j]
    BY <1>4, <1>5, <1>6 DEF Distinct
  <2>2. ~(i < j) /\ ~(j < i)
    BY <1>4, <1>5, <2>1
  <2> QED BY <2>2
<1> QED BY <1>1, <1>4, <1>6 DEF Distinct

LEMMA EachOncePicked ==
    ASSUME NEW A \in Seq(Waiting), EachOnce(A), NEW I
    PROVE  EachOnce(Picked(A, I)) /\ WaitingIn(Picked(A, I)) \subseteq {A[i].change : i \in I \cap DOMAIN A}
<1>1. PICK B : B = Picked(A, I)
  OBVIOUS
<1>2. /\ B \in Seq(Waiting) /\ Len(B) \in Nat /\ DOMAIN B = 1..Len(B)
      /\ \E p : PickedFrom(p, B, A, I, Len(A))
  BY <1>1, PickedWaiting
<1>3. PICK p : PickedFrom(p, B, A, I, Len(A))
  BY <1>2
<1>4. PICK l, m : l = Len(A) /\ m = Len(B)
  OBVIOUS
<1>5. l \in Nat /\ m \in Nat /\ DOMAIN A = 1..l /\ DOMAIN B = 1..m
  BY <1>2, <1>4, WaitingLength
<1>6. /\ \A k \in 1..m : p[k] \in 1..l /\ p[k] \in I /\ B[k] = A[p[k]]
      /\ \A j, k \in 1..m : j < k => p[j] < p[k]
  BY <1>3, <1>4 DEF PickedFrom
<1>7. ASSUME NEW i \in 1..m, NEW j \in 1..m, B[i].change = B[j].change PROVE i = j
  <2>1. p[i] = p[j]
    BY <1>5, <1>6, <1>7 DEF EachOnce
  <2>2. ~(i < j) /\ ~(j < i)
    BY <1>5, <1>6, <2>1
  <2> QED BY <2>2
<1>8. EachOnce(B)
  BY <1>5, <1>7 DEF EachOnce
<1>9. WaitingIn(B) \subseteq {A[i].change : i \in I \cap DOMAIN A}
  BY <1>5, <1>6 DEF WaitingIn
<1> QED BY <1>1, <1>8, <1>9

LEMMA EachOnceAppend ==
    ASSUME NEW A \in Seq(Waiting), EachOnce(A), NEW w \in Waiting, w.change \notin WaitingIn(A)
    PROVE  EachOnce(Append(A, w))
<1>1. PICK t : t = Append(A, w)
  OBVIOUS
<1>2. PICK l : l = Len(A)
  OBVIOUS
<1>3. /\ l \in Nat /\ DOMAIN A = 1..l /\ DOMAIN t = 1..(l + 1) /\ t[l + 1] = w
      /\ \A i \in 1..l : t[i] = A[i]
  <2>1. /\ t \in Seq(Waiting) /\ Len(t) = l + 1 /\ t[l + 1] = w /\ \A i \in 1..l : t[i] = A[i]
    BY <1>1, <1>2, AppendWaiting
  <2>2. DOMAIN t = 1..Len(t)
    BY <2>1, WaitingLength
  <2> QED BY <1>2, <2>1, <2>2, WaitingLength
<1>4. \A i \in 1..l : A[i].change # w.change
  BY <1>3 DEF WaitingIn
<1>5. ASSUME NEW i \in 1..(l + 1), NEW j \in 1..(l + 1), t[i].change = t[j].change PROVE i = j
  <2>1. (i = l + 1 \/ i \in 1..l) /\ (j = l + 1 \/ j \in 1..l)
    BY <1>3
  <2> QED BY <1>3, <1>4, <1>5, <2>1 DEF EachOnce
<1> QED BY <1>1, <1>3, <1>5 DEF EachOnce

-----------------------------------------------------------------------------
(* add leaves each change once, if it had the new one not yet.              *)

LEMMA OnceIs ==
    ASSUME NEW q, IsQueue(q)
    PROVE  /\ Queued(q) \in Seq(Changes) /\ q.awaiting \in Seq(Waiting)
           /\ ToSet(Queued(q)) \subseteq Changes /\ WaitingIn(q.awaiting) \subseteq Changes
<1>1. Queued(q) \in Seq(Changes) /\ q.awaiting \in Seq(Waiting)
  BY QueueType DEF IsQueue
<1>2. ToSet(Queued(q)) \subseteq Changes
  <2>1. \A s \in Seq(Changes) : ToSet(s) \subseteq Changes
    BY DEF ToSet
  <2> QED BY <1>1, <2>1
<1>3. WaitingIn(q.awaiting) \subseteq Changes
  BY <1>1, WaitingLength DEF WaitingIn
<1> QED BY <1>1, <1>2, <1>3

\* Some of those that wait go.
LEMMA OnceRemoved ==
    ASSUME NEW q, IsQueue(q), Once(q), NEW ids
    PROVE  /\ Removed(q, ids, RemoveAwaiting(q, ids)) /\ Once(RemoveAwaiting(q, ids))
           /\ Queued(RemoveAwaiting(q, ids)) = Queued(q)
<1>1. PICK t : t = RemoveAwaiting(q, ids)
  OBVIOUS
<1>2. Removed(q, ids, t)
  BY <1>1, RemoveAwaitingOnly
<1>3. t.state = q.state /\ t.awaiting = AwaitingWithoutIds(q, ids)
  BY <1>2, Zenon DEF Removed
<1>4. Queued(t) = Queued(q)
  BY <1>3, Zenon DEF Queued
<1>5. PICK A : A \in Seq(Waiting) /\ A = q.awaiting
  BY DEF IsQueue
<1>6. PICK I : AwaitingWithoutIds(q, ids) = Picked(A, I)
  BY <1>5 DEF AwaitingWithoutIds
<1>7. Distinct(Queued(q)) /\ EachOnce(A) /\ Disjoint(ToSet(Queued(q)), WaitingIn(A))
  BY <1>5, Zenon DEF Once, Unique
<1>8. EachOnce(t.awaiting) /\ WaitingIn(t.awaiting) \subseteq WaitingIn(A)
  <2>1. EachOnce(Picked(A, I)) /\ WaitingIn(Picked(A, I)) \subseteq {A[i].change : i \in I \cap DOMAIN A}
    BY <1>5, <1>7, EachOncePicked
  <2>2. {A[i].change : i \in I \cap DOMAIN A} \subseteq WaitingIn(A)
    BY DEF WaitingIn
  <2> QED BY <1>3, <1>6, <2>1, <2>2
<1>9. Disjoint(ToSet(Queued(t)), WaitingIn(t.awaiting))
  BY <1>4, <1>7, <1>8 DEF Disjoint
<1> QED BY <1>1, <1>2, <1>4, <1>7, <1>8, <1>9 DEF Once, Unique

\* No change has its turn twice, or is in q already.
NewTurn(turn, q) ==
    /\ EachOnce(turn)
    /\ \A m \in DOMAIN turn : turn[m].change \notin Members(q)

LEMMA PlaceOnce ==
    ASSUME NEW q, NEW turn, NEW P, TurnOK(turn, P, Queued(q), q.awaiting), NewTurn(turn, q),
           NEW n \in Nat, n + 1 <= Len(turn),
           NEW r, Placed(q, turn, P, n, r), Once(r.queue)
    PROVE  Once(Place(r, turn[n + 1]).queue)
<1>1. PICK w, t, p, u : w = turn[n + 1] /\ t = Place(r, w) /\ p = r.queue /\ u = t.queue
  OBVIOUS
<1>2. /\ IsResult(r) /\ IsQueue(p)
      /\ Placing(turn, P, Queued(q), q.awaiting, n, Queued(p), p.awaiting, r.added)
  BY <1>1, Zenon DEF Placed
<1>3. /\ n + 1 \in DOMAIN turn /\ \A m \in 1..n : m \in DOMAIN turn /\ m # n + 1
      /\ w \in Waiting
  <2>1. PICK W : W = Waiting
    OBVIOUS
  <2>2. turn \in Seq(W)
    BY <2>1 DEF TurnOK
  <2> QED BY <1>1, <2>1, <2>2
<1>4. w.change \in Changes
  BY <1>3 DEF Waiting
<1>5. w.change \notin Members(p)
  <2>1. Members(p) = Members(q) \cup {turn[m].change : m \in 1..n}
    BY <1>2, Zenon DEF Placing, Members
  <2>2. \A m \in 1..n : turn[m].change # w.change
    BY <1>1, <1>3 DEF NewTurn, EachOnce
  <2>3. w.change \notin Members(q)
    BY <1>1, <1>3 DEF NewTurn
  <2> QED BY <2>1, <2>2, <2>3
<1>6. PICK Q \in Seq(Changes), A \in Seq(Waiting) : Q = Queued(p) /\ A = p.awaiting
  BY <1>2, OnceIs
<1>7. Distinct(Q) /\ EachOnce(A) /\ Disjoint(ToSet(Q), WaitingIn(A))
  BY <1>1, <1>6, Zenon DEF Once, Unique
<1>8. w.change \notin ToSet(Q) /\ w.change \notin WaitingIn(A)
  BY <1>5, <1>6 DEF Members
<1>9. IsWhole(p) /\ p.state \in Seq(Seq(Changes)) /\ p.state # << >>
  BY <1>2, Zenon DEF IsQueue
<1>10. CASE w.missing \ IdsOf(r.added) = {}
  <2>1. IntoQueue(r, w, t)
    BY <1>1, <1>2, <1>9, <1>10, PlaceCases
  <2>2. u.state = AddToLast(p.state, w.change) /\ u.awaiting = A
    BY <1>1, <1>6, <2>1, Zenon DEF IntoQueue
  <2>3. FlattenSeq(AddToLast(p.state, w.change)) = Append(FlattenSeq(p.state), w.change)
    BY <1>4, <1>9, AddedToLast, Zenon
  <2>4. Queued(u) = Append(Q, w.change)
    BY <1>6, <2>2, <2>3, Zenon DEF Queued
  <2>5. Distinct(Append(Q, w.change)) /\ ToSet(Append(Q, w.change)) = ToSet(Q) \cup {w.change}
    BY <1>4, <1>7, <1>8, DistinctAppend, IdsOfAppend
  <2>6. Disjoint(ToSet(Q) \cup {w.change}, WaitingIn(A))
    BY <1>7, <1>8 DEF Disjoint
  <2>7. Once(u)
    BY <1>7, <2>2, <2>4, <2>5, <2>6 DEF Once, Unique
  <2> QED BY <1>1, <2>7
<1>11. CASE w.missing \ IdsOf(r.added) # {}
  <2>1. PICK v : v = [change |-> w.change, missing |-> w.missing \ IdsOf(r.added)]
    OBVIOUS
  <2>2. v \in Waiting /\ v.change = w.change
    BY <1>3, <2>1 DEF Waiting
  <2>3. Aside(r, w, t)
    BY <1>1, <1>2, <1>9, <1>11, PlaceCases
  <2>4. u.state = p.state /\ u.awaiting = Append(A, v)
    BY <1>1, <1>6, <2>1, <2>3, Zenon DEF Aside
  <2>5. Queued(u) = Q
    BY <1>6, <2>4, Zenon DEF Queued
  <2>6. EachOnce(Append(A, v)) /\ WaitingIn(Append(A, v)) = WaitingIn(A) \cup {w.change}
    BY <1>7, <1>8, <2>2, EachOnceAppend, AppendWaiting
  <2>7. Disjoint(ToSet(Q), WaitingIn(A) \cup {w.change})
    BY <1>7, <1>8 DEF Disjoint
  <2>8. Once(u)
    BY <1>7, <2>4, <2>5, <2>6, <2>7 DEF Once, Unique
  <2> QED BY <1>1, <2>8
<1> QED BY <1>10, <1>11

LEMMA AllPlacedOnce ==
    ASSUME NEW q, NEW turn, NEW P, TurnOK(turn, P, Queued(q), q.awaiting), IsQueue(q),
           Placing(turn, P, Queued(q), q.awaiting, 0, Queued(q), q.awaiting, << >>),
           NewTurn(turn, q), Once(q)
    PROVE  Once(PlaceAll(q, turn).queue)
<1>1. PICK l \in Nat : l = Len(turn)
  <2>1. PICK W : W = Waiting
    OBVIOUS
  <2>2. turn \in Seq(W)
    BY <2>1 DEF TurnOK
  <2> QED BY <2>2
<1> DEFINE f == CHOOSE f : PlacesAll(f, q, turn, l)
<1>2. PlacesAll(f, q, turn, l)
  BY PlacesExist
<1>3. PlaceAll(q, turn) = f[l]
  BY <1>1 DEF PlaceAll, PlacesAll
<1> HIDE DEF f
<1> DEFINE T == {n \in Nat : n <= l => Placed(q, turn, P, n, f[n]) /\ Once(f[n].queue)}
<1>4. 0 \in T
  <2>1. f[0] = [queue |-> q, added |-> << >>, rejected |-> << >>]
    BY <1>1, <1>2 DEF PlacesAll
  <2>2. PICK r : r = f[0]
    OBVIOUS
  <2>3. r.queue = q /\ r.added = << >> /\ r.rejected = << >> /\ IsResult(r)
    BY <2>1, <2>2 DEF IsResult
  <2>4. SameUnderTest(q, q)
    BY DEF SameUnderTest
  <2>5. Placed(q, turn, P, 0, r) /\ Once(r.queue)
    BY <2>3, <2>4, Zenon DEF Placed
  <2> QED BY <2>2, <2>5
<1>5. ASSUME NEW n \in T \cap Nat PROVE n + 1 \in T
  <2>1. SUFFICES ASSUME n \in Nat, n + 1 <= l
                 PROVE  Placed(q, turn, P, n + 1, f[n + 1]) /\ Once(f[n + 1].queue)
    OBVIOUS
  <2>2. Placed(q, turn, P, n, f[n]) /\ Once(f[n].queue)
    BY <1>1, <2>1
  <2> HIDE DEF T
  <2>3. f[n + 1] = Place(f[n], turn[n + 1])
    <3>1. n + 1 \in 0..l /\ n + 1 # 0 /\ (n + 1) - 1 = n
      BY <2>1
    <3> QED BY <1>2, <3>1 DEF PlacesAll
  <2>4. Placed(q, turn, P, n + 1, Place(f[n], turn[n + 1]))
    BY <1>1, <2>1, <2>2, PlaceNext
  <2>5. Once(Place(f[n], turn[n + 1]).queue)
    BY <1>1, <2>1, <2>2, PlaceOnce
  <2> QED BY <2>3, <2>4, <2>5, Zenon
<1>6. Nat \subseteq T
  <2> HIDE DEF T
  <2> QED BY <1>4, <1>5, SetInduction
<1>7. l \in T
  BY <1>6
<1> QED BY <1>3, <1>7

\* Who stays when add makes t of q requires nobody who goes.
StaysFree(q, t) ==
    \A x \in Members(q) \cap Members(t) : \A y \in Members(q) \ Members(t) :
        Id[y] \notin Requires[x]

LEMMA TurnIsNew ==
    ASSUME NEW q, IsQueue(q), Once(q), NEW c \in Changes, c \notin Members(q), NEW ids,
           NEW w \in Waiting, w.change = c,
           NEW turn, turn = TurnOf(w, AwaitingWithIds(q, ids))
    PROVE  NewTurn(turn, RemoveAwaiting(q, ids))
<1>1. PICK A : A \in Seq(Waiting) /\ A = q.awaiting
  BY DEF IsQueue
<1>2. Distinct(Queued(q)) /\ EachOnce(A) /\ Disjoint(ToSet(Queued(q)), WaitingIn(A))
  BY <1>1, Zenon DEF Once, Unique
<1>3. PICK B : B = AwaitingWithIds(q, ids)
  OBVIOUS
<1>4. PICK C : C = AwaitingWithoutIds(q, ids)
  OBVIOUS
<1>5. /\ B \in Seq(Waiting) /\ WaitingIn(C) \cup WaitingIn(B) = WaitingIn(A)
      /\ \A i \in DOMAIN C : Id[C[i].change] \notin ids
      /\ \A i \in DOMAIN B : Id[B[i].change] \in ids
  <2>1. \A X, Y : X = B /\ Y = C =>
           /\ X \in Seq(Waiting) /\ WaitingIn(Y) \cup WaitingIn(X) = WaitingIn(q.awaiting)
           /\ \A i \in DOMAIN Y : Id[Y[i].change] \notin ids
           /\ \A i \in DOMAIN X : Id[X[i].change] \in ids
    BY <1>3, <1>4, SplitByIds
  <2> QED BY <1>1, <2>1
<1>6. EachOnce(B)
  <2>1. PICK I : B = Picked(A, I)
    BY <1>1, <1>3 DEF AwaitingWithIds
  <2> QED BY <1>1, <1>2, <2>1, EachOncePicked
<1>7. PICK t : t = RemoveAwaiting(q, ids)
  OBVIOUS
<1>8. Members(t) = ToSet(Queued(q)) \cup WaitingIn(C)
  <2>1. Removed(q, ids, t) /\ Queued(t) = Queued(q)
    BY <1>7, OnceRemoved
  <2>2. t.awaiting = C
    BY <1>4, <2>1, Zenon DEF Removed
  <2> QED BY <2>1, <2>2, Zenon DEF Members
<1>9. PICK m \in Nat : m = Len(B) /\ DOMAIN B = 1..m
  BY <1>5, WaitingLength
<1>10. /\ DOMAIN turn = 1..(m + 1) /\ turn[1] = w
       /\ \A i \in 1..m : turn[i + 1] = B[i]
  <2>1. /\ TurnOf(w, B) \in Seq(Waiting) /\ Len(TurnOf(w, B)) = Len(B) + 1
        /\ TurnOf(w, B)[1] = w /\ \A i \in 1..Len(B) : TurnOf(w, B)[i + 1] = B[i]
    BY <1>5, TurnShape
  <2>2. turn \in Seq(Waiting) /\ Len(turn) = m + 1 /\ turn[1] = w
        /\ \A i \in 1..m : turn[i + 1] = B[i]
    BY <1>3, <1>9, <2>1
  <2> QED BY <2>2, WaitingLength
<1>11. \A i \in 1..(m + 1) : i = 1 \/ \E k \in 1..m : i = k + 1
  <2>1. ASSUME NEW i \in 1..(m + 1), i # 1 PROVE \E k \in 1..m : i = k + 1
    <3>1. i - 1 \in 1..m /\ i = (i - 1) + 1
      BY <1>9, <2>1
    <3> QED BY <3>1
  <2> QED BY <2>1
<1>12. \A k \in 1..m : /\ B[k].change # c /\ B[k].change \in WaitingIn(A)
                       /\ B[k].change \notin Members(t)
  <2>1. \A k \in 1..m : B[k].change \in WaitingIn(B)
    BY <1>9 DEF WaitingIn
  <2>2. \A x \in WaitingIn(C) : Id[x] \notin ids
    BY <1>5 DEF WaitingIn
  <2>3. \A x \in WaitingIn(A) : x # c /\ x \notin ToSet(Queued(q))
    BY <1>1, <1>2 DEF Disjoint, Members
  <2>4. \A k \in 1..m : Id[B[k].change] \in ids
    BY <1>5, <1>9
  <2> QED BY <1>5, <1>8, <2>1, <2>2, <2>3, <2>4
<1>13. c \notin Members(t)
  BY <1>1, <1>5, <1>8 DEF Members
<1>14. EachOnce(turn)
  <2>1. ASSUME NEW i \in 1..(m + 1), NEW j \in 1..(m + 1), turn[i].change = turn[j].change
        PROVE  i = j
    <3>1. CASE i = 1 \/ j = 1
      BY <1>10, <1>11, <1>12, <2>1, <3>1
    <3>2. CASE i # 1 /\ j # 1
      <4>1. PICK k \in 1..m, n \in 1..m : i = k + 1 /\ j = n + 1
        BY <1>11, <3>2
      <4>2. B[k].change = B[n].change
        BY <1>10, <2>1, <4>1
      <4>3. k = n
        BY <1>6, <1>9, <4>2 DEF EachOnce
      <4> QED BY <4>1, <4>3
    <3> QED BY <3>1, <3>2
  <2> QED BY <1>10, <2>1 DEF EachOnce
<1>15. \A i \in DOMAIN turn : turn[i].change \notin Members(t)
  <2>1. ASSUME NEW i \in 1..(m + 1) PROVE turn[i].change \notin Members(t)
    <3>1. CASE i = 1
      BY <1>10, <1>13, <3>1
    <3>2. CASE i # 1
      <4>1. PICK k \in 1..m : i = k + 1
        BY <1>11, <3>2
      <4>2. turn[i] = B[k]
        BY <1>10, <4>1
      <4> QED BY <1>12, <4>2
    <3> QED BY <3>1, <3>2
  <2> QED BY <1>10, <2>1
<1> QED BY <1>7, <1>14, <1>15 DEF NewTurn

\* Those that wait and go required the new change, and those that stay did not.
LEMMA RejectionStaysFree ==
    ASSUME NEW q, IsQueue(q), Once(q), NEW P, Sound(q, P), DistinctIds,
           \A y \in Members(q) : Id[y] \notin P, NEW c \in Changes,
           NEW ids, ids = DependantsOn(Id[c], {c} \cup WaitingIn(q.awaiting)),
           NEW t, t = RemoveAwaiting(q, ids)
    PROVE  StaysFree(q, t)
<1>1. PICK Q, W : Q = Queued(q) /\ W = WaitingIn(q.awaiting)
  OBVIOUS
<1>2. /\ Q \in Seq(Changes) /\ ToSet(Q) \subseteq Changes /\ W \subseteq Changes
      /\ Disjoint(ToSet(Q), W)
  BY <1>1, OnceIs, Zenon DEF Once, Unique
<1>3. PICK C : C = AwaitingWithoutIds(q, ids)
  OBVIOUS
<1>4. PICK B : B = AwaitingWithIds(q, ids)
  OBVIOUS
<1>5. /\ WaitingIn(C) \cup WaitingIn(B) = W
      /\ \A i \in DOMAIN C : Id[C[i].change] \notin ids
      /\ \A i \in DOMAIN B : Id[B[i].change] \in ids
  <2>1. \A X, Y : X = B /\ Y = C =>
           /\ WaitingIn(Y) \cup WaitingIn(X) = WaitingIn(q.awaiting)
           /\ \A i \in DOMAIN Y : Id[Y[i].change] \notin ids
           /\ \A i \in DOMAIN X : Id[X[i].change] \in ids
    BY <1>3, <1>4, SplitByIds
  <2> QED BY <1>1, <2>1
<1>6. /\ \A x \in WaitingIn(C) : Id[x] \notin ids
      /\ \A x \in WaitingIn(B) : Id[x] \in ids
  BY <1>5 DEF WaitingIn
<1>7. Members(t) = ToSet(Q) \cup WaitingIn(C)
  <2>1. Removed(q, ids, t) /\ Queued(t) = Queued(q)
    BY OnceRemoved
  <2>2. t.awaiting = C
    BY <1>3, <2>1, Zenon DEF Removed
  <2> QED BY <1>1, <2>1, <2>2, Zenon DEF Members
<1>8. Members(q) = ToSet(Q) \cup W
  BY <1>1, Zenon DEF Members
<1>9. ASSUME NEW x \in Members(t), NEW y \in Members(q), y \notin Members(t)
      PROVE  Id[y] \notin Requires[x]
  <2>1. y \in W /\ Id[y] \in ids /\ y \in Changes
    BY <1>2, <1>5, <1>6, <1>7, <1>8, <1>9
  <2>2. CASE x \in ToSet(Q)
    <3>1. PICK i \in 1..Len(Q) : x = Q[i]
      BY <1>2, <2>2 DEF ToSet
    <3>2. SUFFICES ASSUME Id[y] \in Requires[Q[i]] PROVE FALSE
      BY <3>1
    <3>3. Id[y] \notin P
      BY <1>9
    <3>4. PICK j \in 1..(i - 1) : Id[Q[j]] = Id[y]
      <4>1. DOMAIN Q = 1..Len(Q)
        BY <1>2
      <4>2. Follows(Q, P)
        BY <1>1, Zenon DEF Sound
      <4> QED BY <3>1, <3>2, <3>3, <4>1, <4>2 DEF Follows
    <3>5. j \in 1..Len(Q)
      BY <1>2, <3>1, <3>4
    <3>6. Q[j] \in ToSet(Q) /\ Q[j] \in Changes
      BY <1>2, <3>5 DEF ToSet
    <3>7. Q[j] = y
      BY <2>1, <3>4, <3>6 DEF DistinctIds
    <3> QED BY <1>2, <2>1, <3>6, <3>7 DEF Disjoint
  <2>3. CASE x \in WaitingIn(C)
    <3>1. x \in W /\ Id[x] \notin ids
      BY <1>5, <1>6, <2>3
    <3>2. PICK cs \in SUBSET Changes : cs = {c} \cup W
      BY <1>2
    <3>3. ids = DependantsOn(Id[c], cs) /\ x \in cs
      BY <1>1, <3>1, <3>2
    <3>4. Requires[x] \cap ({Id[c]} \cup DependantsOn(Id[c], cs)) # {} =>
             Id[x] \in DependantsOn(Id[c], cs)
      BY <3>3, DependantsClosed
    <3> QED BY <2>1, <3>1, <3>3, <3>4
  <2> QED BY <1>7, <1>9, <2>2, <2>3
<1> QED BY <1>9 DEF StaysFree

LEMMA AddedOnce ==
    ASSUME NEW q, IsQueue(q), Once(q), NEW P, Sound(q, P), DistinctIds,
           \A y \in Members(q) : Id[y] \notin P, NEW c \in Changes, c \notin Members(q)
    PROVE  Once(Added(q, c).queue) /\ StaysFree(q, Added(q, c).queue)
<1>1. PICK ids : ids = DependantsOn(Id[c], {c} \cup ToSet(Awaiting(q)))
  OBVIOUS
<1>2. PICK w : w = [change |-> c, missing |-> MissingDeps(q, c)]
  OBVIOUS
<1>3. PICK turn : turn = TurnOf(w, AwaitingWithIds(q, ids))
  OBVIOUS
<1>4. w \in Waiting /\ w.change = c /\ w.missing = MissingDeps(q, c)
  <2>1. Requires[c] \in SUBSET Ids
    BY DependenciesAssumption
  <2> QED BY <1>2, <2>1 DEF MissingDeps, Waiting
<1>5. ids = DependantsOn(Id[c], {c} \cup WaitingIn(q.awaiting))
  BY <1>1, QueueType
<1>6. Added(q, c) = IF Id[c] \in ids
                    THEN [queue |-> RemoveAwaiting(q, ids), added |-> << >>,
                          rejected |-> [i \in DOMAIN turn |-> turn[i].change]]
                    ELSE PlaceAll(RemoveAwaiting(q, ids), turn)
  BY <1>1, <1>2, <1>3, Zenon DEF Added, TurnOf
<1>7. PICK r : r = Added(q, c)
  OBVIOUS
<1>8. PICK t : t = RemoveAwaiting(q, ids)
  OBVIOUS
<1>9. Removed(q, ids, t) /\ Once(t) /\ Queued(t) = Queued(q)
  BY <1>8, OnceRemoved
<1>10. CASE Id[c] \in ids
  <2>1. r.queue = t
    BY <1>6, <1>7, <1>8, <1>10
  <2>2. StaysFree(q, t)
    BY <1>5, <1>8, RejectionStaysFree
  <2> QED BY <1>7, <1>9, <2>1, <2>2
<1>11. CASE Id[c] \notin ids
  <2>1. r = PlaceAll(t, turn)
    BY <1>6, <1>7, <1>8, <1>11
  <2>2. PICK C : C = AwaitingWithoutIds(q, ids)
    OBVIOUS
  <2>3. IsQueue(t) /\ t.awaiting = C /\ C \in Seq(Waiting)
    <3>1. IsQueue(t) /\ t.awaiting = C
      BY <1>9, <2>2, Zenon DEF Removed
    <3> QED BY <3>1, OnceIs
  <2>4. TurnOK(turn, P, Queued(q), C)
    BY <1>1, <1>3, <1>4, <1>11, <2>2, TurnIsOK
  <2>5. TurnOK(turn, P, Queued(t), t.awaiting)
    BY <1>9, <2>3, <2>4, Zenon
  <2>6. Placing(turn, P, Queued(t), t.awaiting, 0, Queued(t), t.awaiting, << >>)
    <3>1. PICK A : A \in Seq(Waiting) /\ A = q.awaiting
      BY DEF IsQueue
    <3>2. PICK I : C = Picked(A, I)
      BY <2>2, <3>1 DEF AwaitingWithoutIds
    <3>3. Reasons(IdsOf(Queued(q)), C) /\ Met(IdsOf(Queued(q)) \cup P, C)
      BY <3>1, <3>2, PickedReasons, PickedMet DEF Sound
    <3>4. Queued(t) \in Seq(Changes)
      BY <2>3, OnceIs
    <3>5. Follows(Queued(t), P)
      BY <1>9, Zenon DEF Sound
    <3> QED BY <1>9, <2>3, <2>5, <3>3, <3>4, <3>5, PlacingStarts
  <2>7. NewTurn(turn, t)
    BY <1>3, <1>4, <1>8, TurnIsNew
  <2>8. Once(r.queue)
    BY <1>9, <2>1, <2>3, <2>5, <2>6, <2>7, AllPlacedOnce
  <2>9. Members(q) \subseteq Members(r.queue)
    <3>1. Placed(t, turn, P, Len(turn), r)
      BY <2>1, <2>3, <2>5, <2>6, PlacedByAll
    <3>2. r.rejected = << >>
      BY <3>1, Zenon DEF Placed
    <3>3. Adds(q, P, c, r)
      BY <1>7, AddedEffect
    <3>4. Members(r.queue) \cup ToSet(r.rejected) = Members(q) \cup {c}
      BY <3>3, Zenon DEF Adds
    <3>5. ToSet(<< >>) = {}
      BY DEF ToSet
    <3> QED BY <3>2, <3>4, <3>5
  <2>10. StaysFree(q, r.queue)
    BY <2>9 DEF StaysFree
  <2> QED BY <1>7, <2>8, <2>10
<1> QED BY <1>10, <1>11

-----------------------------------------------------------------------------
(* Whom a verdict takes out of the queue.                                   *)

\* r takes x and those of M, all others in the queue, that depend on it.
Blames(x, M, r) ==
    LET ids == DependantsOn(Id[x], M)
    IN  /\ Once(r.queue) /\ r.cause = x /\ r.failed # << >>
        /\ ToSet(r.failed) = {x} \cup {d \in M : Id[d] \in ids}
        /\ Members(r.queue) = {d \in M : Id[d] \notin ids}

LEMMA BlamesExactly ==
    ASSUME NEW q, IsQueue(q), Once(q), Shaped(q), Len(q.state) >= 2,
           Len(Head(q.state)) = 1, NEW x, x = Head(q.state)[1]
    PROVE  Blames(x, Members(q) \ {x}, DepsFailure(q))
<1>1. PICK s : s = [q EXCEPT !.state = AfterFailure(@), !.test_key = NoKey]
  OBVIOUS
<1>2. Split(q, s)
  BY <1>1, SplitIs DEF IsQueue
<1>3. q.state \in Seq(Seq(Changes)) /\ q.state # << >> /\ q.awaiting \in Seq(Waiting)
  BY Zenon DEF IsQueue
<1>4. PICK k \in Seq(Changes) : k = Head(q.state) /\ k # << >>
  BY HeadNotEmpty
<1>5. k = Culprits(q.state) /\ Len(k) = 1
  BY <1>4 DEF Culprits
<1>6. x = k[1] /\ Head(k) = x /\ x \in Changes /\ ToSet(k) = {x}
  <2>1. x = k[1] /\ Head(k) = k[1] /\ k[1] \in Changes
    BY <1>4, <1>5
  <2>2. ToSet(k) = {k[1]}
    BY <1>4, <1>5, SetOfOne
  <2> QED BY <2>1, <2>2
<1>7. PICK f \in Seq(Changes) : f = FlattenSeq(Tail(q.state))
  <2>1. Tail(q.state) \in Seq(Seq(Changes))
    BY <1>3, HeadTailProperties
  <2> QED BY <2>1, FlattenType, Zenon
<1>8. Queued(q) = k \o f
  BY <1>3, <1>4, <1>7, FlattenHead, Zenon DEF Queued, Cat
<1>9. s.state = << f >> /\ s.state \in Seq(Seq(Changes)) /\ s.state # << >>
  <2>1. s.state = << f >>
    BY <1>2, <1>4, <1>5, <1>7, AfterFailureCases, Zenon DEF Split
  <2>2. << f >> \in Seq(Seq(Changes)) /\ << f >> # << >>
    OBVIOUS
  <2> QED BY <2>1, <2>2
<1>10. IsQueue(s)
  BY <1>2, <1>3, <1>9, Zenon DEF IsQueue, Split
<1>11. PICK o : o = WithoutDependantsOn(s, x)
  OBVIOUS
<1>12. TakenOut(s, x, f, o)
  BY <1>9, <1>10, <1>11, TakenOutIs
<1>13. PICK A, W : A \in Seq(Waiting) /\ A = q.awaiting /\ W = WaitingIn(A)
  BY <1>3
<1>14. s.awaiting = A
  BY <1>2, <1>13 DEF Split
\* Each change stands in one place only.
<1>15. /\ Distinct(f) /\ x \notin ToSet(f) /\ x \notin W /\ EachOnce(A)
       /\ Disjoint(ToSet(f), W)
       /\ Members(q) = {x} \cup ToSet(f) \cup W
  <2>1. Distinct(Queued(q)) /\ EachOnce(A) /\ Disjoint(ToSet(Queued(q)), W)
    BY <1>13, Zenon DEF Once, Unique
  <2>2. Distinct(f) /\ Disjoint(ToSet(k), ToSet(f))
    BY <1>4, <1>8, <2>1, DistinctCat
  <2>3. ToSet(Queued(q)) = {x} \cup ToSet(f)
    BY <1>4, <1>6, <1>8, SetOfCat
  <2>4. Members(q) = ToSet(Queued(q)) \cup W
    BY <1>13, Zenon DEF Members
  <2> QED BY <1>6, <2>1, <2>2, <2>3, <2>4 DEF Disjoint
<1>16. PICK M : M = Members(q) \ {x}
  OBVIOUS
<1>17. M = ToSet(f) \cup W
  BY <1>15, <1>16
<1>18. PICK ids : ids = DependantsOn(Id[x], M)
  OBVIOUS
<1>19. PICK t : t = o.queue
  OBVIOUS
<1>20. /\ t.state = << WithoutIds(f, ids) >> /\ t.awaiting = AwaitingWithoutIds(s, ids)
       /\ o.removed = WithIds(f, ids) \o WithIds(Awaiting(s), ids)
  BY <1>12, <1>13, <1>14, <1>17, <1>18, <1>19 DEF TakenOut
<1>21. PICK g : g = WithoutIds(f, ids)
  OBVIOUS
<1>22. /\ g \in Seq(Changes) /\ ToSet(g) = {d \in ToSet(f) : Id[d] \notin ids} /\ Distinct(g)
  <2>1. g \in Seq(Changes) /\ ToSet(g) = {d \in ToSet(f) : Id[d] \notin ids}
    BY <1>21, IdsSplit
  <2>2. PICK I : g = Picked(f, I)
    BY <1>21 DEF WithoutIds
  <2> QED BY <1>15, <2>1, <2>2, DistinctPicked
<1>23. PICK B, C : B = AwaitingWithoutIds(s, ids) /\ C = AwaitingWithIds(s, ids)
  OBVIOUS
<1>24. WaitingIn(B) = {d \in W : Id[d] \notin ids} /\ EachOnce(B)
  <2>1. /\ WaitingIn(B) \cup WaitingIn(C) = W
        /\ \A i \in DOMAIN B : Id[B[i].change] \notin ids
        /\ \A i \in DOMAIN C : Id[C[i].change] \in ids
    <3>1. \A X, Y : X = C /\ Y = B =>
             /\ WaitingIn(Y) \cup WaitingIn(X) = WaitingIn(s.awaiting)
             /\ \A i \in DOMAIN Y : Id[Y[i].change] \notin ids
             /\ \A i \in DOMAIN X : Id[X[i].change] \in ids
      BY <1>10, <1>23, SplitByIds
    <3> QED BY <1>13, <1>14, <1>23, <3>1
  <2>2. /\ \A d \in WaitingIn(B) : Id[d] \notin ids
        /\ \A d \in WaitingIn(C) : Id[d] \in ids
    BY <2>1 DEF WaitingIn
  <2>3. PICK I : B = Picked(A, I)
    BY <1>14, <1>23 DEF AwaitingWithoutIds
  <2>4. EachOnce(B)
    BY <1>13, <1>15, <2>3, EachOncePicked
  <2> QED BY <2>1, <2>2, <2>4
<1>25. Queued(t) = g
  <2>1. FlattenSeq(<< g >>) = g
    BY <1>22, FlattenSingle
  <2> QED BY <1>20, <1>21, <2>1 DEF Queued
<1>26. Once(t) /\ Members(t) = {d \in M : Id[d] \notin ids}
  <2>1. Disjoint(ToSet(g), WaitingIn(B))
    BY <1>15, <1>22, <1>24 DEF Disjoint
  <2>2. Once(t)
    BY <1>20, <1>22, <1>23, <1>24, <1>25, <2>1 DEF Once, Unique
  <2>3. Members(t) = ToSet(g) \cup WaitingIn(B)
    BY <1>20, <1>23, <1>25 DEF Members
  <2> QED BY <1>17, <1>22, <1>24, <2>2, <2>3
<1>27. PICK failed : failed = k \o o.removed
  OBVIOUS
<1>28. failed # << >> /\ ToSet(failed) = {x} \cup {d \in M : Id[d] \in ids}
  <2>1. PICK a, b : a = WithIds(f, ids) /\ b = WithIds(Awaiting(s), ids)
    OBVIOUS
  <2>2. a \in Seq(Changes) /\ ToSet(a) = {d \in ToSet(f) : Id[d] \in ids}
    BY <2>1, IdsSplit
  <2>3. b \in Seq(Changes) /\ ToSet(b) = {d \in W : Id[d] \in ids}
    <3>1. Awaiting(s) \in Seq(Changes) /\ ToSet(Awaiting(s)) = W
      BY <1>10, <1>13, <1>14, QueueType
    <3> QED BY <2>1, <3>1, IdsSplit
  <2>4. PICK v \in Seq(Changes) : v = o.removed /\ ToSet(v) = ToSet(a) \cup ToSet(b)
    <3>1. a \o b \in Seq(Changes) /\ ToSet(a \o b) = ToSet(a) \cup ToSet(b)
      BY <2>2, <2>3, SetOfCat
    <3> QED BY <1>20, <2>1, <3>1
  <2>5. ToSet(k \o v) = ToSet(k) \cup ToSet(v)
    BY <1>4, SetOfCat
  <2>6. k \o v # << >>
    <3>1. Len(k) >= 1
      BY <1>5
    <3> QED BY <1>4, <3>1, HeadOfCat
  <2> QED BY <1>6, <1>17, <1>27, <2>2, <2>3, <2>4, <2>5, <2>6
<1>29. PICK r : r = DepsFailure(q)
  OBVIOUS
<1>30. r = [queue |-> t, successful |-> << >>, failed |-> failed, cause |-> x]
  <2>1. Culprits(q.state) # << >> /\ Head(Culprits(q.state)) = x
    BY <1>4, <1>5, <1>6
  <2> QED BY <1>1, <1>5, <1>11, <1>19, <1>27, <1>29, <2>1, Zenon DEF DepsFailure
<1>31. r.queue = t /\ r.failed = failed /\ r.cause = x
  BY <1>30
<1> QED BY <1>16, <1>18, <1>26, <1>28, <1>29, <1>31, Zenon DEF Blames

\* r takes nobody.
BlamesNone(q, r) ==
    /\ Once(r.queue) /\ r.cause = NoChange /\ r.failed = << >>
    /\ Members(r.queue) = Members(q)

LEMMA SplitsExactly ==
    ASSUME NEW q, IsQueue(q), Once(q), Shaped(q), Len(q.state) >= 2,
           Len(Head(q.state)) # 1
    PROVE  BlamesNone(q, DepsFailure(q))
<1>1. PICK s : s = [q EXCEPT !.state = AfterFailure(@), !.test_key = NoKey]
  OBVIOUS
<1>2. Split(q, s)
  BY <1>1, SplitIs DEF IsQueue
<1>3. PICK r : r = DepsFailure(q)
  OBVIOUS
<1>4. Culprits(q.state) = << >>
  BY DEF Culprits
<1>5. r = [queue |-> s, successful |-> << >>, failed |-> << >>, cause |-> NoChange]
  BY <1>1, <1>3, <1>4, Zenon DEF DepsFailure
<1>6. r.queue = s /\ r.failed = << >> /\ r.cause = NoChange
  BY <1>5
<1>7. q.state \in Seq(Seq(Changes)) /\ q.state # << >>
  BY Zenon DEF IsQueue
<1>8. AfterFailure(q.state) \in Seq(Seq(Changes))
  BY <1>7, AfterFailureShape DEF Shaped
<1>9. Queued(s) = Queued(q)
  <2>1. Head(q.state) # << >>
    BY HeadNotEmpty
  <2>2. FlattenSeq(q.state) = Cat(<< >>, FlattenSeq(AfterFailure(q.state)))
    BY <1>4, <1>7, <1>8, <2>1, FailureKeepsOrder
  <2>3. FlattenSeq(AfterFailure(q.state)) \in Seq(Changes)
    BY <1>8, FlattenType, Zenon
  <2>4. Cat(<< >>, FlattenSeq(AfterFailure(q.state))) = FlattenSeq(AfterFailure(q.state))
    BY <2>3, CatEmpty
  <2> QED BY <1>2, <2>2, <2>4, Zenon DEF Split, Queued
<1>10. s.awaiting = q.awaiting
  BY <1>2, Zenon DEF Split
<1>11. Once(s) /\ Members(s) = Members(q)
  BY <1>9, <1>10, Zenon DEF Once, Members
<1> QED BY <1>3, <1>6, <1>11, Zenon DEF BlamesNone

(* A verdict, when ok passed and s is what is known to fail, if anything.   *)

Others(q, ok, x) == Members(q) \ (ToSet(ok) \cup {x})

\* The culprit and what depends on it, if s is a single change.
FailedWith(q, ok, s) ==
    IF Len(s) = 1
    THEN {s[1]} \cup {d \in Others(q, ok, s[1]) :
                         Id[d] \in DependantsOn(Id[s[1]], Others(q, ok, s[1]))}
    ELSE {}

CauseWith(q, ok, s) ==
    IF Len(s) = 1 THEN Blamed(Forgiven(q.stream_map, ok), s[1]) ELSE NoChange

ExactlyJudges(q, ok, s, r) ==
    /\ Once(r.queue) /\ r.successful = ok /\ r.failed \in Seq(Changes)
    /\ ToSet(r.failed) = FailedWith(q, ok, s) /\ r.cause = CauseWith(q, ok, s)
    /\ Members(r.queue) = Members(q) \ (ToSet(ok) \cup FailedWith(q, ok, s))

LEMMA TheOnlyOne ==
    ASSUME NEW s \in Seq(Changes), Len(s) = 1
    PROVE  s[1] \in Changes /\ ToSet(s) = {s[1]}
BY SetOfOne

\* From what the failure of t, all of q but ok, yields: r, of which v tells
\* that ok passed.
LEMMA ExactlyFromFails ==
    ASSUME NEW q, NEW t, NEW ok, Members(t) = Members(q) \ ToSet(ok), NEW s \in Seq(Changes),
           NEW P, NEW r, Fails(t, P, r),
           IF Len(s) = 1 THEN Blames(s[1], Members(t) \ {s[1]}, r) ELSE BlamesNone(t, r),
           NEW v, IsOutcome(v), v.successful = ok, v.failed = r.failed, v.cause = r.cause,
           IsWhole(v.queue), v.queue.state = r.queue.state,
           v.queue.awaiting = r.queue.awaiting,
           v.queue.stream_map = Forgiven(q.stream_map, ok)
    PROVE  ExactlyJudges(q, ok, s, BlameFirstInStream(v))
<1>1. PICK b : b = BlameFirstInStream(v)
  OBVIOUS
<1>2. /\ SameButBlame(v, b)
      /\ IF v.cause = NoChange
         THEN b.cause = NoChange
         ELSE b.cause = Blamed(v.queue.stream_map, v.cause)
  BY <1>1, BlameIs
<1>3. PICK u, w : u = b.queue /\ w = r.queue
  OBVIOUS
<1>4. /\ b.successful = ok /\ b.failed = r.failed /\ u.state = w.state /\ u.awaiting = w.awaiting
  BY <1>2, <1>3, Zenon DEF SameButBlame
<1>5. Queued(u) = Queued(w)
  BY <1>4, Zenon DEF Queued
<1>6. (Once(w) => Once(u)) /\ Members(u) = Members(w)
  BY <1>4, <1>5, Zenon DEF Once, Members
<1>7. b.failed \in Seq(Changes)
  BY <1>4, Zenon DEF Fails
<1>8. CASE Len(s) = 1
  <2>1. PICK x : x = s[1]
    OBVIOUS
  <2>2. x \in Changes /\ x # NoChange
    <3>1. x \in Changes
      BY <1>8, <2>1, TheOnlyOne, Zenon
    <3> QED BY <3>1, StreamsAssumption
  <2>3. PICK M, ids : M = Members(t) \ {x} /\ ids = DependantsOn(Id[x], M)
    OBVIOUS
  <2>4. /\ Once(w) /\ r.cause = x /\ ToSet(r.failed) = {x} \cup {d \in M : Id[d] \in ids}
        /\ Members(w) = {d \in M : Id[d] \notin ids}
    BY <1>3, <1>8, <2>1, <2>3 DEF Blames
  <2>5. M = Others(q, ok, x)
    BY <2>3 DEF Others
  <2>6. FailedWith(q, ok, s) = {x} \cup {d \in M : Id[d] \in ids}
    BY <1>8, <2>1, <2>3, <2>5 DEF FailedWith
  <2>7. b.cause = CauseWith(q, ok, s)
    BY <1>2, <1>8, <2>1, <2>2, <2>4 DEF CauseWith
  <2>8. Members(u) = Members(q) \ (ToSet(ok) \cup FailedWith(q, ok, s))
    BY <1>6, <2>3, <2>4, <2>6
  <2> QED BY <1>1, <1>3, <1>4, <1>6, <1>7, <2>4, <2>6, <2>7, <2>8, Zenon DEF ExactlyJudges
<1>9. CASE Len(s) # 1
  <2>1. /\ Once(w) /\ r.cause = NoChange /\ r.failed = << >> /\ Members(w) = Members(t)
    BY <1>3, <1>9 DEF BlamesNone
  <2>2. FailedWith(q, ok, s) = {} /\ CauseWith(q, ok, s) = NoChange
    BY <1>9 DEF FailedWith, CauseWith
  <2>3. ToSet(b.failed) = {}
    BY <1>4, <2>1 DEF ToSet
  <2>4. b.cause = NoChange
    BY <1>2, <2>1
  <2>5. Members(u) = Members(q) \ (ToSet(ok) \cup FailedWith(q, ok, s))
    BY <1>6, <2>1, <2>2
  <2> QED BY <1>1, <1>3, <1>4, <1>6, <1>7, <2>1, <2>2, <2>3, <2>4, <2>5, Zenon DEF ExactlyJudges
<1> QED BY <1>8, <1>9

LEMMA FailureExactly ==
    ASSUME NEW q, IsQueue(q), Once(q), Shaped(q), Len(q.state) >= 2, NEW P, Sound(q, P),
           NEW M, q.stream_map \in [Streams -> M]
    PROVE  ExactlyJudges(q, << >>, Head(q.state), OnFailure(q))
<1>1. PICK s \in Seq(Changes) : s = Head(q.state)
  BY HeadNotEmpty
<1>2. PICK r : r = DepsFailure(q)
  OBVIOUS
<1>3. Fails(q, P, r)
  BY <1>2, FailureSplits, FailureBlames
<1>4. IF Len(s) = 1 THEN Blames(s[1], Members(q) \ {s[1]}, r) ELSE BlamesNone(q, r)
  BY <1>1, <1>2, BlamesExactly, SplitsExactly
<1>5. Members(q) = Members(q) \ ToSet(<< >>)
  BY DEF ToSet
<1>6. Forgiven(q.stream_map, << >>) = q.stream_map
  BY DEF Forgiven
<1>7. /\ IsOutcome(r) /\ r.successful = << >> /\ r.queue.stream_map = q.stream_map
      /\ IsWhole(r.queue)
  BY <1>3, Zenon DEF Fails, IsQueue
<1>8. ExactlyJudges(q, << >>, s, BlameFirstInStream(r))
  BY <1>3, <1>4, <1>5, <1>6, <1>7, ExactlyFromFails
<1> QED BY <1>1, <1>2, <1>8 DEF OnFailure

\* The section behind the first, if it is known to fail when the first passes.
SecondSection(q) == IF Len(q.state) >= 3 THEN q.state[2] ELSE << >>

LEMMA SuccessExactly ==
    ASSUME NEW q, IsQueue(q), Once(q), Shaped(q), Len(q.state) >= 2, NEW P, Sound(q, P)
    PROVE  /\ ExactlyJudges(q, Head(q.state), SecondSection(q), OnSuccess(q))
           /\ Disjoint(ToSet(Head(q.state)), ToSet(SecondSection(q)))
<1>1. PICK ok \in Seq(Changes) : ok = Head(q.state)
  BY HeadNotEmpty
<1>2. PICK rest : rest = [q EXCEPT !.state = Tail(@)]
  OBVIOUS
<1>3. /\ IsWhole(q) /\ q.state \in Seq(Seq(Changes)) /\ q.state # << >>
      /\ q.awaiting \in Seq(Waiting)
  BY Zenon DEF IsQueue
<1>4. /\ IsWhole(rest) /\ rest.state = Tail(q.state) /\ rest.test_key = q.test_key
      /\ rest.awaiting = q.awaiting /\ rest.stream_map = q.stream_map
  BY <1>2, <1>3 DEF IsWhole
<1>5. /\ Tail(q.state) \in Seq(Seq(Changes)) /\ Tail(q.state) # << >>
      /\ Len(Tail(q.state)) = Len(q.state) - 1
      /\ \A i \in 1..(Len(q.state) - 1) : Tail(q.state)[i] = q.state[i + 1]
  BY <1>3, TailShape
<1>6. PICK l \in Nat : l = Len(q.state) /\ l >= 2
  BY <1>3
<1>7. IsQueue(rest)
  BY <1>3, <1>4, <1>5, Zenon DEF IsQueue
<1>8. Shaped(rest)
  <2>1. \A i \in 1..((l - 1) - 1) : i \in 1..(l - 1) /\ i + 1 \in 1..(l - 1)
    OBVIOUS
  <2> QED BY <1>4, <1>5, <1>6, <2>1 DEF Shaped
<1>9. PICK Q \in Seq(Changes) : Q = Queued(rest)
  BY <1>7, QueueType
<1>10. Queued(q) = ok \o Q
  BY <1>1, <1>3, <1>4, <1>9, FlattenHead, Zenon DEF Queued, Cat
<1>11. /\ IdsOf(Queued(q)) = IdsOf(ok) \cup IdsOf(Q)
       /\ ToSet(Queued(q)) = ToSet(ok) \cup ToSet(Q)
  BY <1>10, IdsOfCat, SetOfCat
<1>12. PICK PO : PO = P \cup IdsOf(ok)
  OBVIOUS
<1>13. Sound(rest, PO)
  <2>1. Follows(Q, PO)
    BY <1>10, <1>12, FollowsRest DEF Sound
  <2>2. Reasons(IdsOf(Q), q.awaiting)
    BY <1>11 DEF Sound, Reasons
  <2>3. Met(IdsOf(Q) \cup PO, q.awaiting)
    <3>1. IdsOf(Q) \cup PO = IdsOf(Queued(q)) \cup P
      BY <1>11, <1>12
    <3> QED BY <3>1 DEF Sound
  <2> QED BY <1>4, <1>9, <2>1, <2>2, <2>3, Zenon DEF Sound
\* The rest has each change once, and none of those that passed.
<1>14. PICK W : W = WaitingIn(q.awaiting)
  OBVIOUS
<1>15. Distinct(Queued(q)) /\ EachOnce(q.awaiting) /\ Disjoint(ToSet(Queued(q)), W)
  BY <1>14, Zenon DEF Once, Unique
<1>16. Distinct(Q) /\ Disjoint(ToSet(ok), ToSet(Q))
  BY <1>10, <1>15, DistinctCat
<1>17. Once(rest)
  BY <1>4, <1>9, <1>11, <1>14, <1>15, <1>16 DEF Once, Unique, Disjoint
<1>18. Members(rest) = Members(q) \ ToSet(ok)
  <2>1. Members(q) = ToSet(Queued(q)) \cup W /\ Members(rest) = ToSet(Q) \cup W
    BY <1>4, <1>9, <1>14, Zenon DEF Members
  <2> QED BY <1>11, <1>15, <1>16, <2>1 DEF Disjoint
<1>19. PICK s : s = SecondSection(q)
  OBVIOUS
<1>20. PICK r : r = IF Len(rest.state) > 1 THEN DepsFailure(rest)
                    ELSE [queue |-> [rest EXCEPT !.test_key = NoKey],
                          successful |-> << >>, failed |-> << >>, cause |-> NoChange]
  OBVIOUS
<1>21. /\ s \in Seq(Changes) /\ Fails(rest, PO, r) /\ Disjoint(ToSet(ok), ToSet(s))
       /\ IF Len(s) = 1 THEN Blames(s[1], Members(rest) \ {s[1]}, r) ELSE BlamesNone(rest, r)
  <2>1. CASE l >= 3
    <3>1. Len(rest.state) >= 2 /\ Len(rest.state) > 1
      BY <1>4, <1>5, <1>6, <2>1
    <3>2. r = DepsFailure(rest)
      BY <1>20, <3>1
    <3>3. Head(rest.state) = s
      <4>1. s = q.state[2]
        BY <1>6, <1>19, <2>1 DEF SecondSection
      <4>2. Tail(q.state)[1] = q.state[2]
        BY <1>5, <1>6
      <4>3. PICK U : U = Seq(Changes)
        OBVIOUS
      <4>4. PICK st \in Seq(U) : st = Tail(q.state) /\ st # << >>
        BY <1>5, <4>3
      <4>5. Head(st) = st[1]
        BY <4>4
      <4> QED BY <1>4, <4>1, <4>2, <4>4, <4>5
    <3>4. s \in Seq(Changes)
      BY <1>7, <1>8, <3>1, <3>3, HeadNotEmpty
    <3>5. Fails(rest, PO, r)
      BY <1>7, <1>8, <1>13, <3>1, <3>2, FailureSplits, FailureBlames
    <3>6. IF Len(s) = 1 THEN Blames(s[1], Members(rest) \ {s[1]}, r) ELSE BlamesNone(rest, r)
      BY <1>7, <1>8, <1>17, <3>1, <3>2, <3>3, BlamesExactly, SplitsExactly
    <3>7. ToSet(s) \subseteq ToSet(Q)
      <4>1. rest.state \in Seq(Seq(Changes)) /\ rest.state # << >>
        BY <1>4, <1>5
      <4>2. PICK z \in Seq(Changes) : z = FlattenSeq(Tail(rest.state))
        <5>1. Tail(rest.state) \in Seq(Seq(Changes))
          BY <4>1, HeadTailProperties
        <5> QED BY <5>1, FlattenType, Zenon
      <4>3. Q = s \o z
        BY <1>9, <3>3, <4>1, <4>2, FlattenHead, Zenon DEF Queued, Cat
      <4> QED BY <3>4, <4>3, SetOfCat
    <3> QED BY <1>16, <3>4, <3>5, <3>6, <3>7 DEF Disjoint
  <2>2. CASE ~(l >= 3)
    <3>1. ~(Len(rest.state) > 1)
      BY <1>4, <1>5, <1>6, <2>2
    <3>2. s = << >> /\ s \in Seq(Changes) /\ Len(s) # 1 /\ Disjoint(ToSet(ok), ToSet(s))
      BY <1>6, <1>19, <2>2 DEF SecondSection, Disjoint, ToSet
    <3>3. PICK t : t = [rest EXCEPT !.test_key = NoKey]
      OBVIOUS
    <3>4. /\ IsWhole(t) /\ t.state = rest.state /\ t.test_key = NoKey
          /\ t.awaiting = rest.awaiting /\ t.stream_map = rest.stream_map
      BY <1>4, <3>3 DEF IsWhole
    <3>5. r = [queue |-> t, successful |-> << >>, failed |-> << >>, cause |-> NoChange]
      BY <1>20, <3>1, <3>3, Zenon
    <3>6. /\ r.queue = t /\ r.successful = << >> /\ r.failed = << >>
          /\ r.cause = NoChange /\ IsOutcome(r)
      BY <3>5 DEF IsOutcome
    <3>7. Queued(t) = Queued(rest)
      BY <3>4, Zenon DEF Queued
    <3>8. IsQueue(t) /\ Sound(t, PO) /\ Shaped(t) /\ Members(t) = Members(rest) /\ Once(t)
      BY <1>7, <1>8, <1>13, <1>17, <3>4, <3>7, Zenon DEF IsQueue, Sound, Shaped, Members, Once
    <3>9. << >> \in Seq(Changes) /\ ToSet(<< >>) = {}
      BY DEF ToSet
    <3>10. Members(rest) = Members(t) \cup ToSet(<< >>)
      BY <3>8, <3>9
    <3>11. Fails(rest, PO, r)
      BY <3>4, <3>6, <3>8, <3>9, <3>10, Zenon DEF Fails
    <3>12. BlamesNone(rest, r)
      BY <3>6, <3>8, Zenon DEF BlamesNone
    <3> QED BY <3>2, <3>11, <3>12
  <2> QED BY <2>1, <2>2
<1>22. PICK map : map = Forgiven(q.stream_map, ok)
  OBVIOUS
<1>23. PICK v : v = [r EXCEPT !.successful = ok, !.queue.stream_map = map]
  OBVIOUS
<1>24. IsOutcome(r) /\ IsWhole(r.queue) /\ r.queue.stream_map = q.stream_map
  BY <1>4, <1>21, Zenon DEF Fails, IsQueue
<1>25. /\ IsOutcome(v) /\ v.successful = ok /\ v.failed = r.failed /\ v.cause = r.cause
       /\ IsWhole(v.queue) /\ v.queue.state = r.queue.state
       /\ v.queue.awaiting = r.queue.awaiting
       /\ v.queue.stream_map = map
  BY <1>23, <1>24 DEF IsOutcome, IsWhole
<1>26. ExactlyJudges(q, ok, s, BlameFirstInStream(v))
  BY <1>18, <1>21, <1>22, <1>25, ExactlyFromFails
<1>27. OnSuccess(q) = BlameFirstInStream(v)
  <2>1. v = [r EXCEPT !.successful = Head(q.state),
                      !.queue.stream_map =
                          [z \in Streams |->
                              IF z \in {Stream[Head(q.state)[i]] : i \in DOMAIN Head(q.state)}
                              THEN NoChange ELSE @[z]]]
    BY <1>1, <1>22, <1>23, <1>24 DEF Forgiven, IsOutcome, IsWhole
  <2> QED BY <1>2, <1>20, <2>1, Zenon DEF OnSuccess
<1> QED BY <1>1, <1>19, <1>21, <1>26, <1>27
=============================================================================
