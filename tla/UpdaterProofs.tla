--------------------------- MODULE UpdaterProofs ----------------------------
(***************************************************************************)
(* Updates of upstream sources, for any histories, entries, push maps and  *)
(* number of jobs and patches: tags are followed forward only, and no vote *)
(* of a job takes an update to the branch that people have to see.         *)
(***************************************************************************)
EXTENDS Updater, Lemmas

-----------------------------------------------------------------------------
(* The greatest of some tags is one of them.                                *)

Better(t, best) == IF CommitCmp(t.commit, best.commit) > 0 THEN t ELSE best

Bests(f, tags, n) ==
    f = [k \in 1..n |-> IF k = 1 THEN tags[1] ELSE Better(tags[k], f[k - 1])]

LEMMA BestsExist ==
    ASSUME NEW S, NEW tags \in Seq(S)
    PROVE  \A n \in 0..Len(tags) : \E f \in [1..n -> S] : Bests(f, tags, n)
<1> DEFINE T == {n \in Nat : n <= Len(tags) => \E f \in [1..n -> S] : Bests(f, tags, n)}
<1>1. 0 \in T
  <2> DEFINE e == [k \in 1..0 |-> IF k = 1 THEN tags[1] ELSE Better(tags[k], tags[1])]
  <2>1. e \in [1..0 -> S]
    OBVIOUS
  <2>2. Bests(e, tags, 0)
    BY DEF Bests
  <2> QED BY <2>1, <2>2
<1>2. ASSUME NEW n \in T \cap Nat PROVE n + 1 \in T
  <2>1. SUFFICES ASSUME n \in Nat, n + 1 <= Len(tags)
                 PROVE  \E f \in [1..(n + 1) -> S] : Bests(f, tags, n + 1)
    OBVIOUS
  <2>2. n <= Len(tags) /\ \E f \in [1..n -> S] : Bests(f, tags, n)
    BY <2>1
  <2> PICK f \in [1..n -> S] : Bests(f, tags, n)
    BY <2>2
  <2> HIDE DEF T
  <2> DEFINE next(k) == IF k = 1 THEN tags[1] ELSE Better(tags[k], f[k - 1])
             g == [k \in 1..(n + 1) |-> next(k)]
  <2>3. \A k \in 1..n : g[k] = f[k] /\ f[k] \in S
    <3>1. \A k \in 1..n : f[k] = next(k)
      BY DEF Bests
    <3>2. \A k \in 1..n : k \in 1..(n + 1)
      BY <2>1
    <3> QED BY <3>1, <3>2
  <2>4. \A k \in 1..(n + 1) : k # 1 => k - 1 \in 1..n
    BY <2>1
  <2>5. g \in [1..(n + 1) -> S]
    <3>1. ASSUME NEW k \in 1..(n + 1) PROVE next(k) \in S
      <4>1. tags[1] \in S /\ tags[k] \in S
        BY <2>1
      <4> QED BY <2>3, <2>4, <4>1, Zenon DEF Better
    <3> HIDE DEF next
    <3> QED BY <3>1
  <2>6. \A k \in 1..(n + 1) : g[k] = IF k = 1 THEN tags[1] ELSE Better(tags[k], g[k - 1])
    <3>1. \A k \in 1..(n + 1) : k # 1 => g[k - 1] = f[k - 1]
      BY <2>3, <2>4, Zenon
    <3> QED BY <3>1
  <2>7. Bests(g, tags, n + 1)
    <3>1. g = [k \in 1..(n + 1) |-> g[k]]
      OBVIOUS
    <3> HIDE DEF g
    <3> QED BY <2>6, <3>1 DEF Bests
  <2> HIDE DEF g
  <2> QED BY <2>5, <2>7
<1>3. Nat \subseteq T
  <2> HIDE DEF T
  <2> QED BY <1>1, <1>2, SetInduction
<1>4. \A n \in 0..Len(tags) : n \in Nat /\ n <= Len(tags)
  OBVIOUS
<1> QED BY <1>3, <1>4

\* What takes its first value from S and each other from S or the one before
\* stays in S.
LEMMA BestsIn ==
    ASSUME NEW S, NEW tags \in Seq(S), NEW n \in 0..Len(tags), NEW f, Bests(f, tags, n)
    PROVE  \A k \in 1..n : f[k] \in S
<1> DEFINE T == {k \in Nat : k \in 1..n => f[k] \in S}
<1>1. 0 \in T
  OBVIOUS
<1>2. ASSUME NEW k \in T \cap Nat PROVE k + 1 \in T
  <2>1. SUFFICES ASSUME k \in Nat, k + 1 \in 1..n PROVE f[k + 1] \in S
    OBVIOUS
  <2>2. k + 1 # 1 => k \in 1..n /\ f[k] \in S
    BY <2>1
  <2>3. tags[1] \in S /\ tags[k + 1] \in S /\ (k + 1) - 1 = k
    BY <2>1
  <2>4. f[k + 1] = IF k + 1 = 1 THEN tags[1] ELSE Better(tags[k + 1], f[(k + 1) - 1])
    BY <2>1 DEF Bests
  <2> HIDE DEF T
  <2> QED BY <2>2, <2>3, <2>4, Zenon DEF Better
<1>3. Nat \subseteq T
  <2> HIDE DEF T
  <2> QED BY <1>1, <1>2, SetInduction
<1>4. \A k \in 1..n : k \in Nat
  OBVIOUS
<1> QED BY <1>3, <1>4

LEMMA GreatestIsOne ==
    ASSUME NEW S, NEW tags \in Seq(S), tags # << >>
    PROVE  Greatest(tags) \in S
<1>1. PICK l \in Nat : l = Len(tags) /\ l # 0 /\ l \in 0..Len(tags) /\ l \in 1..l
  BY EmptyIfNoLen
<1> DEFINE f == CHOOSE f : Bests(f, tags, l)
<1>2. Bests(f, tags, l)
  BY <1>1, BestsExist
<1>3. Greatest(tags) = f[l]
  BY <1>1 DEF Greatest, Bests, Better
<1> HIDE DEF f
<1> QED BY <1>1, <1>2, <1>3, BestsIn

-----------------------------------------------------------------------------
(* What an update makes of an entry.                                        *)

Tags == [name : STRING, annotated : BOOLEAN, commit : Commits]
Upstreams == [head : Commits, tags : Seq(Tags)]

LEMMA EligibleAre ==
    ASSUME NEW e, NEW u \in Upstreams
    PROVE  /\ Eligible(e, u) \in Seq(Tags)
           /\ \A t : t \in ToSet(Eligible(e, u)) <=>
                        \E i \in DOMAIN u.tags : t = u.tags[i] /\ IsEligible(t, e, u)
<1>1. PICK s \in Seq(Tags) : s = u.tags
  BY DEF Upstreams
<1>2. PICK I : I = {i \in DOMAIN s : IsEligible(s[i], e, u)}
  OBVIOUS
<1>3. PICK r \in Seq(Tags) : r = Picked(s, I)
  BY PickedPlaces
<1>4. PICK l, m \in Nat : DOMAIN s = 1..l /\ l = Len(s) /\ DOMAIN r = 1..m /\ m = Len(r)
  BY <1>1, <1>3
<1>5. PICK p : PickedFrom(p, r, s, I, l)
  BY <1>3, <1>4, PickedPlaces
<1>6. /\ p \in [1..m -> I \cap (1..l)]
      /\ \A i \in I \cap (1..l) : \E k \in 1..m : p[k] = i
      /\ \A k \in 1..m : r[k] = s[p[k]]
  BY <1>4, <1>5, Zenon DEF PickedFrom
<1>7. Eligible(e, u) = r
  BY <1>1, <1>2, <1>3, Zenon DEF Eligible
<1>8. ASSUME NEW k \in DOMAIN r PROVE \E i \in DOMAIN s : r[k] = s[i] /\ IsEligible(r[k], e, u)
  <2>1. p[k] \in I /\ r[k] = s[p[k]]
    BY <1>4, <1>6
  <2> QED BY <1>2, <2>1
<1>9. ASSUME NEW i \in DOMAIN s, IsEligible(s[i], e, u) PROVE \E k \in DOMAIN r : r[k] = s[i]
  <2>1. i \in I \cap (1..l)
    BY <1>2, <1>4, <1>9
  <2> QED BY <1>4, <1>6, <2>1
<1>10. \A t : t \in ToSet(r) <=> \E k \in DOMAIN r : t = r[k]
  BY DEF ToSet
<1>11. \A t : t \in ToSet(r) <=> \E i \in DOMAIN s : t = s[i] /\ IsEligible(t, e, u)
  BY <1>8, <1>9, <1>10
<1> QED BY <1>1, <1>7, <1>11, Zenon

\* The commit a tag policy takes, if another, does not come before the one the
\* entry has, and an eligible tag has it.
Forward(e, c, u) ==
    /\ c \notin Before[e.commit]
    /\ \E t \in ToSet(Eligible(e, u)) : t.commit = c

LEMMA TaggedIsForward ==
    ASSUME NEW e \in Entries, NEW u \in Upstreams
    PROVE  /\ TaggedCommit(e, u) \in Commits
           /\ TaggedCommit(e, u) # e.commit => Forward(e, TaggedCommit(e, u), u)
<1>1. e.commit \in Commits
  BY DEF Entries
<1>2. CASE Eligible(e, u) = << >>
  BY <1>1, <1>2 DEF TaggedCommit
<1>3. CASE Eligible(e, u) # << >>
  <2>1. PICK r \in Seq(Tags) : r = Eligible(e, u)
    BY EligibleAre
  <2>2. r \in Seq(ToSet(r))
    BY DEF ToSet
  <2>3. PICK g \in ToSet(r) : g = Greatest(r)
    <3>1. PICK S : S = ToSet(r)
      OBVIOUS
    <3> QED BY <1>3, <2>1, <2>2, <3>1, GreatestIsOne
  <2>4. g.commit \in Commits
    <3>1. g \in Tags
      BY <2>3 DEF ToSet
    <3> QED BY <3>1 DEF Tags
  <2>5. PICK n : n = g.commit
    OBVIOUS
  <2>6. TaggedCommit(e, u) = IF CommitCmp(n, e.commit) <= 0 THEN e.commit ELSE n
    BY <1>3, <2>1, <2>3, <2>5, Zenon DEF TaggedCommit
  <2>7. n # e.commit /\ ~(CommitCmp(n, e.commit) <= 0) => n \notin Before[e.commit]
    BY DEF CommitCmp
  <2> QED BY <1>1, <2>1, <2>3, <2>4, <2>5, <2>6, <2>7 DEF Forward
<1> QED BY <1>2, <1>3

LEMMA UpdatedIsForward ==
    ASSUME NEW e \in Entries, NEW u \in Upstreams
    PROVE  /\ Updated(e, u) \in Entries
           /\ Updated(e, u) # e /\ e.policy = {"tagged"} => Forward(e, Updated(e, u).commit, u)
<1>1. PICK c \in Commits : c = TaggedCommit(e, u)
  BY TaggedIsForward
<1>2. PICK h \in Commits : h = u.head
  BY DEF Upstreams
<1>3. e.commit \in Commits
  BY DEF Entries
<1>4. PICK T : T = << e.commit, c, h >>
  OBVIOUS
<1>5. T[1] = e.commit /\ T[2] = c /\ T[3] = h
  BY <1>4
<1>6. PICK I : I = {i \in 1..3 : Policies[i] \in e.policy /\ T[i] # e.commit}
  OBVIOUS
<1>7. Updated(e, u) = IF I = {} THEN e ELSE [e EXCEPT !.commit = T[Min(I)]]
  BY <1>1, <1>2, <1>4, <1>6, Zenon DEF Updated, Targets
<1>8. CASE I = {}
  BY <1>7, <1>8
<1>9. CASE I # {}
  <2>1. PICK i \in I : i = Min(I)
    <3>1. I \subseteq Nat
      BY <1>6
    <3>2. \E x \in I : \A y \in I : x <= y
      BY <1>9, <3>1, LeastNat
    <3> QED BY <3>2, Zenon DEF Min
  <2>2. i \in 1..3 /\ Policies[i] \in e.policy /\ T[i] \in Commits
    BY <1>3, <1>5, <1>6
  <2>3. Updated(e, u) = [e EXCEPT !.commit = T[i]]
    BY <1>7, <1>9, <2>1, Zenon
  <2>4. Updated(e, u) \in Entries /\ Updated(e, u).commit = T[i]
    BY <2>2, <2>3 DEF Entries
  <2>5. ASSUME e.policy = {"tagged"} PROVE Forward(e, Updated(e, u).commit, u)
    <3>1. i = 2
      BY <2>2, <2>5 DEF Policies
    <3>2. T[i] = c /\ c # e.commit
      BY <1>5, <1>6, <3>1
    <3> QED BY <1>1, <2>4, <3>2, TaggedIsForward, Zenon
  <2> QED BY <2>4, <2>5
<1> QED BY <1>8, <1>9

-----------------------------------------------------------------------------
(* An upstream moves on: its branch by commits that come after the one it   *)
(* had, its tags by one more.                                               *)

Grows(u, v) ==
    /\ v \in Upstreams /\ Before[u.head] \subseteq Before[v.head]
    /\ \A i \in DOMAIN u.tags : \E k \in DOMAIN v.tags : v.tags[k] = u.tags[i]

LEMMA ForwardStays ==
    ASSUME NEW u \in Upstreams, NEW v, Grows(u, v), NEW e, NEW c, Forward(e, c, u)
    PROVE  Forward(e, c, v)
<1>1. PICK t \in ToSet(Eligible(e, u)) : t.commit = c
  BY DEF Forward
<1>2. PICK i \in DOMAIN u.tags : t = u.tags[i] /\ IsEligible(t, e, u)
  BY EligibleAre
<1>3. PICK k \in DOMAIN v.tags : v.tags[k] = t
  BY <1>2 DEF Grows
<1>4. IsEligible(t, e, v)
  BY <1>2 DEF IsEligible, Grows
<1>5. v \in Upstreams
  BY DEF Grows
<1>6. t \in ToSet(Eligible(e, v))
  BY <1>3, <1>4, <1>5, EligibleAre
<1> QED BY <1>1, <1>6 DEF Forward

LEMMA AdvanceGrows ==
    ASSUME NEW u \in Upstreams, NEW c \in Commits, u.head \in Before[c]
    PROVE  Grows(u, [u EXCEPT !.head = c])
<1>1. PICK v : v = [u EXCEPT !.head = c]
  OBVIOUS
<1>2. v \in Upstreams /\ v.head = c /\ v.tags = u.tags
  BY <1>1 DEF Upstreams
<1>3. Before[u.head] \subseteq Before[c]
  BY BeforeAssumption
<1> QED BY <1>1, <1>2, <1>3 DEF Grows

LEMMA InsertedAre ==
    ASSUME NEW S, NEW s \in Seq(S), NEW x \in S, NEW at \in 0..Len(s)
    PROVE  /\ InsertAt(s, at + 1, x) \in Seq(S)
           /\ \A i \in DOMAIN s : \E k \in DOMAIN InsertAt(s, at + 1, x) :
                                      InsertAt(s, at + 1, x)[k] = s[i]
<1>1. PICK l \in Nat : l = Len(s) /\ DOMAIN s = 1..l
  OBVIOUS
<1>2. PICK a : a = SubSeq(s, 1, at)
  OBVIOUS
<1>3. PICK b : b = SubSeq(s, at + 1, l)
  OBVIOUS
<1>4. /\ a \in Seq(S) /\ Len(a) = at /\ \A i \in 1..at : a[i] = s[i]
  BY <1>1, <1>2
<1>5. /\ b \in Seq(S) /\ Len(b) = l - at /\ \A i \in 1..(l - at) : b[i] = s[at + i]
  BY <1>1, <1>3
<1>6. PICK r : r = a \o << x >> \o b
  OBVIOUS
<1>7. (at + 1) - 1 = at
  BY <1>1
<1>8. InsertAt(s, at + 1, x) = r
  BY <1>1, <1>2, <1>3, <1>6, <1>7 DEF InsertAt
<1>9. /\ r \in Seq(S) /\ DOMAIN r = 1..(l + 1)
      /\ \A i \in 1..at : r[i] = a[i]
      /\ \A i \in 1..(l - at) : r[at + 1 + i] = b[i]
  <2>0. << x >> \in Seq(S)
    OBVIOUS
  <2>1. PICK q \in Seq(S) : q = a \o << x >>
    <3>1. a \o << x >> \in Seq(S)
      BY <1>4, <2>0
    <3> QED BY <3>1
  <2>2. at \in Nat /\ l - at \in Nat /\ Len(q) = at + 1 /\ \A i \in 1..at : q[i] = a[i]
    BY <1>1, <1>4, <2>1
  <2>3. r = q \o b
    BY <1>6, <2>1
  <2>4. r \in Seq(S) /\ Len(r) = (at + 1) + (l - at)
    <3>1. r \in Seq(S)
      BY <1>5, <2>1, <2>3
    <3>2. Len(r) = Len(q) + Len(b)
      <4>1. b \in Seq(S)
        BY <1>5
      <4>2. \A x1, x2 \in Seq(S) : Len(x1 \o x2) = Len(x1) + Len(x2)
        OBVIOUS
      <4> QED BY <2>1, <2>3, <4>1, <4>2, Zenon
    <3> QED BY <1>5, <2>2, <3>1, <3>2
  <2>5. \A i \in 1..(at + 1) : r[i] = q[i]
    BY <1>5, <2>2, <2>3
  <2>6. \A i \in 1..(l - at) : r[at + 1 + i] = b[i]
    BY <1>5, <2>2, <2>3
  <2>7. \A i \in 1..at : i \in 1..(at + 1)
    BY <2>2
  <2>8. DOMAIN r = 1..(l + 1)
    BY <2>2, <2>4
  <2> QED BY <2>2, <2>4, <2>5, <2>6, <2>7, <2>8
<1>10. ASSUME NEW i \in 1..l PROVE \E k \in 1..(l + 1) : r[k] = s[i]
  <2>1. CASE i <= at
    <3>1. i \in 1..at /\ i \in 1..(l + 1)
      BY <2>1
    <3> QED BY <1>4, <1>9, <3>1
  <2>2. CASE i > at
    <3>1. PICK d \in 1..(l - at) : i = at + d
      <4>1. i - at \in 1..(l - at) /\ i = at + (i - at)
        BY <1>1, <2>2
      <4> QED BY <4>1
    <3>2. at + 1 + d \in 1..(l + 1)
      BY <1>1, <3>1
    <3> QED BY <1>5, <1>9, <3>1, <3>2
  <2> QED BY <1>1, <2>1, <2>2
<1> QED BY <1>1, <1>8, <1>9, <1>10

LEMMA TagGrows ==
    ASSUME NEW u \in Upstreams, NEW t \in Tags, NEW at \in 0..Len(u.tags)
    PROVE  Grows(u, [u EXCEPT !.tags = InsertAt(@, at + 1, t)])
<1>1. PICK s \in Seq(Tags) : s = u.tags
  BY DEF Upstreams
<1>2. PICK r : r = InsertAt(s, at + 1, t)
  OBVIOUS
<1>3. r \in Seq(Tags) /\ \A i \in DOMAIN s : \E k \in DOMAIN r : r[k] = s[i]
  BY <1>1, <1>2, InsertedAre
<1>4. PICK v : v = [u EXCEPT !.tags = r]
  OBVIOUS
<1>5. v \in Upstreams /\ v.head = u.head /\ v.tags = r
  BY <1>3, <1>4 DEF Upstreams
<1>6. Grows(u, v)
  BY <1>1, <1>3, <1>5 DEF Grows
<1> QED BY <1>1, <1>2, <1>4, <1>6

-----------------------------------------------------------------------------
(* What modify-entries makes of a configuration.                            *)

LEMMA GreatestOf ==
    ASSUME NEW n \in Nat, NEW T, T \subseteq 1..n, T # {}
    PROVE  Max(T) \in T
<1>1. PICK D : D = {n - x : x \in T}
  OBVIOUS
<1>2. \A x \in T : x \in Nat /\ n - x \in Nat
  OBVIOUS
<1>3. D \subseteq Nat /\ D # {}
  BY <1>1, <1>2
<1>4. PICK d \in D : \A y \in D : d <= y
  BY <1>3, LeastNat
<1>5. PICK x \in T : d = n - x
  BY <1>1
<1>6. ASSUME NEW y \in T PROVE x >= y
  <2>1. n - x <= n - y
    BY <1>1, <1>4, <1>5
  <2> QED BY <1>2, <2>1
<1> QED BY <1>6, Zenon DEF Max

LEMMA SetEntriesType ==
    ASSUME NEW old \in Seq(Entries), NEW given \in Seq(Entries)
    PROVE  SetEntries(old, given) \in Seq(Entries)
<1>1. PICK l, n \in Nat : DOMAIN old = 1..l /\ DOMAIN given = 1..n
  OBVIOUS
<1> DEFINE givenAs(key) == {k \in DOMAIN given : given[k].key = key}
           last(key) == given[Max(givenAs(key))]
           first(es, i) == \A k \in 1..(i - 1) : es[k].key # es[i].key
           isNew(k) == first(given, k) /\ \A i \in DOMAIN old : old[i].key # given[k].key
           put(i) == IF first(old, i) /\ givenAs(old[i].key) # {} THEN last(old[i].key) ELSE old[i]
<1>2. ASSUME NEW key, givenAs(key) # {} PROVE last(key) \in Entries
  <2>1. givenAs(key) \subseteq 1..n
    BY <1>1
  <2>2. Max(givenAs(key)) \in givenAs(key)
    BY <1>2, <2>1, GreatestOf
  <2> QED BY <2>2
<1>3. PICK a : a = [i \in DOMAIN old |-> put(i)]
  OBVIOUS
<1>4. a \in Seq(Entries)
  <2>1. ASSUME NEW i \in DOMAIN old PROVE put(i) \in Entries
    <3>1. old[i] \in Entries
      OBVIOUS
    <3> HIDE DEF givenAs, last, first
    <3> QED BY <1>2, <3>1, Zenon
  <2> HIDE DEF put
  <2>2. a \in [1..l -> Entries]
    BY <1>1, <1>3, <2>1
  <2> QED BY <2>2
<1>5. PICK I : I = {k \in DOMAIN given : isNew(k)}
  OBVIOUS
<1>6. PICK new \in Seq(Entries) : new = Picked(given, I)
  BY PickedPlaces
<1>7. PICK m \in Nat : DOMAIN new = 1..m
  BY <1>6
<1>8. PICK b : b = [k \in DOMAIN new |-> last(new[k].key)]
  OBVIOUS
<1>9. b \in Seq(Entries)
  <2>1. ASSUME NEW k \in DOMAIN new PROVE last(new[k].key) \in Entries
    <3>1. PICK g \in DOMAIN given : new[k] = given[g]
      <4>1. PICK p : PickedFrom(p, new, given, I, Len(given))
        BY <1>6, PickedPlaces
      <4>2. k \in 1..Len(new)
        BY <2>1
      <4>3. new[k] = given[p[k]] /\ p[k] \in I
        BY <4>1, <4>2 DEF PickedFrom
      <4> QED BY <1>5, <4>3
    <3>2. g \in givenAs(new[k].key)
      BY <3>1
    <3> HIDE DEF givenAs, last
    <3> QED BY <1>2, <3>2
  <2> HIDE DEF last
  <2>2. b \in [1..m -> Entries]
    BY <1>7, <1>8, <2>1
  <2> QED BY <2>2
<1>10. SetEntries(old, given) = a \o b
  BY <1>3, <1>5, <1>6, <1>8, Zenon DEF SetEntries
<1> QED BY <1>4, <1>9, <1>10

-----------------------------------------------------------------------------
(* The invariant.  A job knows every update it is about to push; a patch is *)
(* marked for its vote to merge it only if none of its updates is of a      *)
(* source marked "never"; and what a job has taken from the tags it         *)
(* follows it may still take, whatever happens upstream.                    *)

Steps == {"idle", "update", "modified", "push", "pushing"}
JobSet == [step : Steps, base : Seq(Entries), config : Seq(Entries), told : SUBSET Entries]
HeaderSets == [md5 : Seq(Entries)] \cup [automerge : {"yes"}, md5 : Seq(Entries)]
PatchSet == [base : Seq(Entries), config : Seq(Entries), headers : HeaderSets,
             state : {"open", "merged", "abandoned"}, vote : {"none", "submit", "done"}]

Tells(job) == job.step \in {"push", "pushing"} => Updates(job.base, job.config) \subseteq job.told

Follows(job, us) ==
    job.step = "update" => \A i \in DOMAIN job.config :
        /\ i \in DOMAIN job.base
        /\ job.config[i] # job.base[i] /\ job.base[i].policy = {"tagged"} =>
              Forward(job.base[i], job.config[i].commit, us[job.base[i].key])

Asks(p) ==
    /\ p.vote = "submit" => HeaderIsTrue(p, "automerge")
    /\ HeaderIsTrue(p, "automerge") => \A e \in Updates(p.base, p.config) : e.automerge # "never"

JobsAre(js, us) == js \in [Jobs -> JobSet] /\ \A j \in Jobs : Tells(js[j]) /\ Follows(js[j], us)
PatchesAre(ps) == ps \in Seq(PatchSet) /\ \A k \in DOMAIN ps : Asks(ps[k])

IInv ==
    /\ upstream \in [Sources -> Upstreams]
    /\ branch \in Seq(Entries)
    /\ JobsAre(jobs, upstream)
    /\ PatchesAre(patches)

LEMMA SetJob ==
    ASSUME NEW js, NEW us, JobsAre(js, us), NEW j \in Jobs,
           NEW job \in JobSet, Tells(job), Follows(job, us)
    PROVE  JobsAre([js EXCEPT ![j] = job], us)
<1>1. PICK r : r = [js EXCEPT ![j] = job]
  OBVIOUS
<1>2. r \in [Jobs -> JobSet]
  BY <1>1 DEF JobsAre
<1>3. ASSUME NEW i \in Jobs PROVE Tells(r[i]) /\ Follows(r[i], us)
  <2>1. r[i] = IF i = j THEN job ELSE js[i]
    BY <1>1 DEF JobsAre
  <2> QED BY <2>1, Zenon DEF JobsAre
<1> QED BY <1>1, <1>2, <1>3, Zenon DEF JobsAre

LEMMA SetUpstream ==
    ASSUME NEW us \in [Sources -> Upstreams], NEW js, JobsAre(js, us),
           NEW s \in Sources, NEW v, Grows(us[s], v)
    PROVE  /\ [us EXCEPT ![s] = v] \in [Sources -> Upstreams]
           /\ JobsAre(js, [us EXCEPT ![s] = v])
<1>1. PICK vs : vs = [us EXCEPT ![s] = v]
  OBVIOUS
<1>2. vs \in [Sources -> Upstreams]
  BY <1>1 DEF Grows
<1>3. ASSUME NEW key \in Sources, NEW e, NEW c, Forward(e, c, us[key]) PROVE Forward(e, c, vs[key])
  <2>1. vs[key] = IF key = s THEN v ELSE us[key]
    BY <1>1
  <2>2. us[key] \in Upstreams
    OBVIOUS
  <2> QED BY <1>3, <2>1, <2>2, ForwardStays, Zenon
<1>4. ASSUME NEW j \in Jobs PROVE Follows(js[j], vs)
  <2>1. PICK job \in JobSet : job = js[j]
    BY DEF JobsAre
  <2>2. SUFFICES ASSUME job.step = "update", NEW i \in DOMAIN job.config
                 PROVE  /\ i \in DOMAIN job.base
                        /\ job.config[i] # job.base[i] /\ job.base[i].policy = {"tagged"} =>
                              Forward(job.base[i], job.config[i].commit, vs[job.base[i].key])
    BY <2>1, Zenon DEF Follows
  <2>3. /\ i \in DOMAIN job.base
        /\ job.config[i] # job.base[i] /\ job.base[i].policy = {"tagged"} =>
              Forward(job.base[i], job.config[i].commit, us[job.base[i].key])
    BY <2>1, <2>2, Zenon DEF Follows, JobsAre
  <2>4. job.base[i].key \in Sources
    <3>1. PICK b \in Seq(Entries) : b = job.base
      BY DEF JobSet
    <3>2. b[i] \in Entries
      BY <2>3, <3>1
    <3> QED BY <3>1, <3>2 DEF Entries
  <2> QED BY <1>3, <2>3, <2>4, Zenon
<1> QED BY <1>1, <1>2, <1>4 DEF JobsAre

LEMMA SetPatch ==
    ASSUME NEW ps, PatchesAre(ps), NEW k \in DOMAIN ps, NEW p \in PatchSet, Asks(p)
    PROVE  PatchesAre([ps EXCEPT ![k] = p])
<1>1. PICK r : r = [ps EXCEPT ![k] = p]
  OBVIOUS
<1>2. r \in Seq(PatchSet) /\ DOMAIN r = DOMAIN ps
  BY <1>1 DEF PatchesAre
<1>3. ASSUME NEW i \in DOMAIN ps PROVE Asks(r[i])
  <2>1. r[i] = IF i = k THEN p ELSE ps[i]
    BY <1>1
  <2> QED BY <2>1, Zenon DEF PatchesAre
<1> QED BY <1>1, <1>2, <1>3, Zenon DEF PatchesAre

LEMMA AddPatch ==
    ASSUME NEW ps, PatchesAre(ps), NEW p \in PatchSet, Asks(p)
    PROVE  PatchesAre(Append(ps, p))
<1>1. PICK r : r = Append(ps, p)
  OBVIOUS
<1>2. PICK l \in Nat : DOMAIN ps = 1..l /\ Len(ps) = l
  BY DEF PatchesAre
<1>3. r \in Seq(PatchSet) /\ DOMAIN r = 1..(l + 1)
  BY <1>1, <1>2 DEF PatchesAre
<1>4. ASSUME NEW i \in 1..(l + 1) PROVE Asks(r[i])
  <2>1. CASE i \in 1..l
    <3>1. r[i] = ps[i]
      BY <1>1, <1>2, <2>1 DEF PatchesAre
    <3> QED BY <1>2, <2>1, <3>1, Zenon DEF PatchesAre
  <2>2. CASE i = l + 1
    <3>1. r[i] = p
      BY <1>1, <1>2, <2>2 DEF PatchesAre
    <3> QED BY <3>1, Zenon
  <2> QED BY <2>1, <2>2
<1> QED BY <1>1, <1>3, <1>4, Zenon DEF PatchesAre

-----------------------------------------------------------------------------
(* Each step preserves the invariant.                                       *)

Job(st, b, s, T) == [step |-> st, base |-> b, config |-> s, told |-> T]

LEMMA JobIs ==
    ASSUME NEW job \in JobSet
    PROVE  job = Job(job.step, job.base, job.config, job.told)
  BY DEF JobSet, Job

LEMMA JobMade ==
    ASSUME NEW st \in Steps, NEW b \in Seq(Entries), NEW s \in Seq(Entries),
           NEW T, T \subseteq Entries
    PROVE  Job(st, b, s, T) \in JobSet
  BY DEF Job, JobSet

GoesTo(job, st) == [job EXCEPT !.step = st]
GoesTelling(job, st, T) == [job EXCEPT !.step = st, !.told = T]
GoesWith(job, st, s, T) == [job EXCEPT !.step = st, !.config = s, !.told = T]

\* A job that goes on to another step with another configuration and message.
LEMMA JobGoesOn ==
    ASSUME NEW job \in JobSet, NEW st \in Steps, NEW s \in Seq(Entries),
           NEW T, T \subseteq Entries
    PROVE  /\ Job(st, job.base, s, T) \in JobSet
           /\ GoesTo(job, st) = Job(st, job.base, job.config, job.told)
           /\ GoesTelling(job, st, T) = Job(st, job.base, job.config, T)
           /\ GoesWith(job, st, s, T) = Job(st, job.base, s, T)
<1>1. PICK b, c, K : b = job.base /\ c = job.config /\ K = job.told
  OBVIOUS
<1>2. job = Job(job.step, b, c, K)
  BY <1>1, JobIs
<1>3. b \in Seq(Entries)
  BY <1>1 DEF JobSet
<1>4. [job EXCEPT !.step = st] = Job(st, b, c, K)
  BY <1>2 DEF Job
<1>5. [Job(st, b, c, K) EXCEPT !.told = T] = Job(st, b, c, T)
  BY DEF Job
<1>6. [Job(st, b, c, K) EXCEPT !.config = s] = Job(st, b, s, K)
  BY DEF Job
<1>7. [Job(st, b, s, K) EXCEPT !.told = T] = Job(st, b, s, T)
  BY DEF Job
<1>8. [job EXCEPT !.step = st, !.told = T] = Job(st, b, c, T)
  <2>1. [job EXCEPT !.step = st, !.told = T] = [[job EXCEPT !.step = st] EXCEPT !.told = T]
    OBVIOUS
  <2> QED BY <1>4, <1>5, <2>1
<1>9. [job EXCEPT !.step = st, !.config = s, !.told = T] = Job(st, b, s, T)
  <2>1. [job EXCEPT !.step = st, !.config = s, !.told = T]
          = [[[job EXCEPT !.step = st] EXCEPT !.config = s] EXCEPT !.told = T]
    OBVIOUS
  <2> QED BY <1>4, <1>6, <1>7, <2>1
<1>10. Job(st, b, s, T) \in JobSet
  BY <1>3, JobMade, Zenon
<1> QED BY <1>1, <1>4, <1>8, <1>9, <1>10, Zenon DEF GoesTo, GoesTelling, GoesWith

LEMMA IdleIs == Idle \in JobSet /\ Tells(Idle) /\ \A us : Follows(Idle, us)
<1>1. Idle = Job("idle", << >>, << >>, {})
  BY DEF Idle, Job
<1>2. Idle \in JobSet
  <2>1. "idle" \in Steps /\ << >> \in Seq(Entries) /\ {} \subseteq Entries
    BY DEF Steps
  <2> QED BY <1>1, <2>1, JobMade, Zenon
<1> QED BY <1>2 DEF Idle, Tells, Follows

LEMMA InitIInv == Init => IInv
<1> SUFFICES ASSUME Init PROVE IInv
  OBVIOUS
<1>1. upstream \in [Sources -> Upstreams]
  BY UpdaterAssumption DEF Init, Upstreams
<1>2. branch \in Seq(Entries)
  BY UpdaterAssumption DEF Init
<1>3. JobsAre(jobs, upstream)
  BY IdleIs DEF Init, JobsAre
<1>4. PatchesAre(patches)
  BY DEF Init, PatchesAre
<1> QED BY <1>1, <1>2, <1>3, <1>4 DEF IInv

LEMMA AdvanceIInv ==
    ASSUME IInv, NEW s \in Moving, Advance(s)
    PROVE  IInv'
<1>1. PICK c \in Commits : /\ upstream[s].head \in Before[c]
                           /\ upstream' = [upstream EXCEPT ![s].head = c]
  BY DEF Advance
<1>2. PICK u \in Upstreams : u = upstream[s] /\ s \in Sources
  BY UpdaterAssumption DEF IInv
<1>3. PICK v : v = [u EXCEPT !.head = c]
  OBVIOUS
<1>4. Grows(u, v)
  BY <1>1, <1>2, <1>3, AdvanceGrows
<1>5. upstream' = [upstream EXCEPT ![s] = v]
  BY <1>1, <1>2, <1>3
<1>6. upstream' \in [Sources -> Upstreams] /\ JobsAre(jobs, upstream')
  BY <1>2, <1>4, <1>5, SetUpstream, Zenon DEF IInv
<1> QED BY <1>6 DEF IInv, Advance

LEMMA MakeTagIInv ==
    ASSUME IInv, NEW s \in Tagging, MakeTag(s)
    PROVE  IInv'
<1>1. PICK c \in Before[upstream[s].head], kind \in TagKinds, at \in 0..Len(upstream[s].tags) :
        upstream' = [upstream EXCEPT ![s].tags =
          InsertAt(@, at + 1, [name |-> kind.name, annotated |-> kind.annotated, commit |-> c])]
  BY DEF MakeTag
<1>2. PICK u \in Upstreams : u = upstream[s] /\ s \in Sources
  BY UpdaterAssumption DEF IInv
<1>3. PICK t \in Tags : t = [name |-> kind.name, annotated |-> kind.annotated, commit |-> c]
  <2>1. c \in Commits
    BY <1>2, BeforeAssumption DEF Upstreams
  <2>2. kind \in [name : STRING, annotated : BOOLEAN]
    BY UpdaterAssumption
  <2> QED BY <2>1, <2>2 DEF Tags
<1>4. PICK v : v = [u EXCEPT !.tags = InsertAt(@, at + 1, t)]
  OBVIOUS
<1>5. Grows(u, v)
  BY <1>2, <1>4, TagGrows
<1>6. upstream' = [upstream EXCEPT ![s] = v]
  BY <1>1, <1>2, <1>3, <1>4
<1>7. upstream' \in [Sources -> Upstreams] /\ JobsAre(jobs, upstream')
  BY <1>2, <1>5, <1>6, SetUpstream, Zenon DEF IInv
<1> QED BY <1>7 DEF IInv, MakeTag

\* Only one job moves.
LEMMA MovesIInv ==
    ASSUME IInv, NEW j \in Jobs, NEW job \in JobSet, Tells(job), Follows(job, upstream),
           jobs' = [jobs EXCEPT ![j] = job], UNCHANGED <<upstream, branch, patches>>
    PROVE  IInv'
<1>1. JobsAre(jobs', upstream)
  BY SetJob, Zenon DEF IInv
<1> QED BY <1>1 DEF IInv

LEMMA ResetIInv ==
    ASSUME IInv, NEW j \in Jobs, jobs' = [jobs EXCEPT ![j] = Idle],
           UNCHANGED <<upstream, branch, patches>>
    PROVE  IInv'
  BY IdleIs, MovesIInv, Zenon

LEMMA CloneIInv ==
    ASSUME IInv, NEW j \in Jobs, Clone(j)
    PROVE  IInv'
<1>1. PICK job : job = [Idle EXCEPT !.step = "update", !.base = branch]
  OBVIOUS
<1>2. job = Job("update", branch, << >>, {})
  <2>1. job = [[Idle EXCEPT !.step = "update"] EXCEPT !.base = branch]
    BY <1>1
  <2> QED BY <2>1 DEF Idle, Job
<1>3. job \in JobSet
  <2>1. "update" \in Steps /\ << >> \in Seq(Entries) /\ {} \subseteq Entries
    BY DEF Steps
  <2> QED BY <1>2, <2>1, JobMade, Zenon DEF IInv
<1>4. Tells(job) /\ Follows(job, upstream)
  BY <1>2 DEF Tells, Follows, Job
<1>5. jobs' = [jobs EXCEPT ![j] = job] /\ UNCHANGED <<upstream, branch, patches>>
  BY <1>1 DEF Clone
<1> QED BY <1>3, <1>4, <1>5, MovesIInv

LEMMA UpdateNextIInv ==
    ASSUME IInv, NEW j \in Jobs, UpdateNext(j)
    PROVE  IInv'
<1>1. PICK job \in JobSet : job = jobs[j] /\ Follows(job, upstream)
  BY DEF IInv, JobsAre
<1>2. PICK b, s \in Seq(Entries) : b = job.base /\ s = job.config
  BY DEF JobSet
<1>3. PICK l \in Nat : l = Len(s) /\ DOMAIN s = 1..l
  OBVIOUS
<1>4. job.step = "update" /\ l + 1 \in DOMAIN b
  BY <1>1, <1>2, <1>3 DEF UpdateNext
<1>5. PICK e \in Entries : e = b[l + 1]
  BY <1>4
<1>6. PICK u \in Upstreams : u = upstream[e.key]
  BY DEF IInv, Entries
<1>7. PICK x \in Entries : /\ x = Updated(e, u)
                           /\ x # e /\ e.policy = {"tagged"} => Forward(e, x.commit, u)
  BY UpdatedIsForward, Zenon
<1>8. PICK r : r = Append(s, x)
  OBVIOUS
<1>9. r \in Seq(Entries) /\ DOMAIN r = 1..(l + 1) /\ r[l + 1] = x /\ \A i \in 1..l : r[i] = s[i]
  BY <1>3, <1>8
<1>10. PICK job2 : job2 = [job EXCEPT !.config = r]
  OBVIOUS
<1>11. job2 \in JobSet /\ job2.step = "update" /\ job2.base = b /\ job2.config = r
  BY <1>2, <1>4, <1>9, <1>10 DEF JobSet
<1>12. Tells(job2)
  BY <1>11 DEF Tells
<1>13. Follows(job2, upstream)
  <2>1. ASSUME NEW i \in 1..(l + 1)
        PROVE  /\ i \in DOMAIN b
               /\ r[i] # b[i] /\ b[i].policy = {"tagged"} =>
                     Forward(b[i], r[i].commit, upstream[b[i].key])
    <3>1. CASE i = l + 1
      BY <1>4, <1>5, <1>6, <1>7, <1>9, <3>1, Zenon
    <3>2. CASE i \in 1..l
      <4>1. r[i] = s[i] /\ i \in DOMAIN s
        BY <1>3, <1>9, <3>2
      <4> QED BY <1>1, <1>2, <1>4, <4>1, Zenon DEF Follows
    <3> QED BY <3>1, <3>2
  <2> QED BY <1>9, <1>11, <2>1, Zenon DEF Follows
<1>14. jobs' = [jobs EXCEPT ![j] = job2] /\ UNCHANGED <<upstream, branch, patches>>
  <2>1. Moves(j, [jobs[j] EXCEPT !.config = Append(@, Updated(jobs[j].base[l + 1], upstream[jobs[j].base[l + 1].key]))])
    BY <1>1, <1>2, <1>3 DEF UpdateNext
  <2>2. job2 = [jobs[j] EXCEPT !.config = Append(@, Updated(jobs[j].base[l + 1], upstream[jobs[j].base[l + 1].key]))]
    BY <1>1, <1>2, <1>5, <1>6, <1>7, <1>8, <1>10
  <2> QED BY <2>1, <2>2, Zenon DEF Moves
<1> QED BY <1>11, <1>12, <1>13, <1>14, MovesIInv

LEMMA UpdatesType ==
    ASSUME NEW old, NEW new \in Seq(Entries)
    PROVE  Updates(old, new) \subseteq Entries
  BY DEF Updates

LEMMA ModifyIInv ==
    ASSUME IInv, NEW j \in Jobs, Modify(j)
    PROVE  IInv'
<1>1. PICK given \in Given :
        jobs' = [jobs EXCEPT ![j].step = "modified",
                             ![j].config = SetEntries(jobs[j].base, given),
                             ![j].told = ToSet(SetEntries(jobs[j].base, given))]
  BY DEF Modify
<1>2. PICK job \in JobSet : job = jobs[j]
  BY DEF IInv, JobsAre
<1>3. PICK s \in Seq(Entries) : s = SetEntries(job.base, given)
  <2>1. job.base \in Seq(Entries) /\ given \in Seq(Entries)
    BY UpdaterAssumption DEF JobSet
  <2> QED BY <2>1, SetEntriesType
<1>4. PICK T : T = ToSet(s)
  OBVIOUS
<1>5. T \subseteq Entries
  BY <1>4 DEF ToSet
<1>6. PICK job2 : job2 = [job EXCEPT !.step = "modified", !.config = s, !.told = T]
  OBVIOUS
<1>7. job2 \in JobSet /\ job2.step = "modified"
  <2>1. job2 = Job("modified", job.base, s, T) /\ job2 \in JobSet
    <3>1. "modified" \in Steps /\ job2 = GoesWith(job, "modified", s, T)
      BY <1>6 DEF Steps, GoesWith
    <3> QED BY <1>5, <3>1, JobGoesOn, Zenon
  <2> QED BY <2>1 DEF Job
<1>8. jobs' = [jobs EXCEPT ![j] = job2]
  BY <1>1, <1>2, <1>3, <1>4, <1>6 DEF IInv, JobsAre, JobSet
<1>9. Tells(job2) /\ Follows(job2, upstream)
  BY <1>7 DEF Tells, Follows
<1> QED BY <1>7, <1>8, <1>9, MovesIInv DEF Modify

LEMMA CommitIInv ==
    ASSUME IInv, NEW j \in Jobs, Commit(j)
    PROVE  IInv'
<1>1. PICK job \in JobSet : job = jobs[j]
  BY DEF IInv, JobsAre
<1>2. PICK U : U = Updates(job.base, job.config)
  OBVIOUS
<1>3. U \subseteq Entries
  BY <1>2, UpdatesType DEF JobSet
<1>4. Moves(j, IF U = {} THEN Idle ELSE [job EXCEPT !.step = "push", !.told = @ \cup U])
  BY <1>1, <1>2, Zenon DEF Commit
<1>5. CASE U = {}
  BY <1>4, <1>5, ResetIInv DEF Moves
<1>6. CASE U # {}
  <2>1. PICK job2 : job2 = [job EXCEPT !.step = "push", !.told = @ \cup U]
    OBVIOUS
  <2>2. /\ job2 \in JobSet /\ job2.step = "push"
        /\ job2.base = job.base /\ job2.config = job.config /\ U \subseteq job2.told
    <3>1. PICK T : T = job.told \cup U
      OBVIOUS
    <3>2. T \subseteq Entries /\ job.config \in Seq(Entries)
      BY <1>3, <3>1 DEF JobSet
    <3>3. "push" \in Steps /\ job2 = GoesTelling(job, "push", T)
      BY <2>1, <3>1 DEF Steps, GoesTelling
    <3>4. job2 = Job("push", job.base, job.config, T) /\ job2 \in JobSet
      BY <3>2, <3>3, JobGoesOn, Zenon
    <3> QED BY <3>1, <3>4 DEF Job
  <2>3. Tells(job2) /\ Follows(job2, upstream)
    BY <1>2, <2>2 DEF Tells, Follows
  <2> QED BY <1>4, <1>6, <2>1, <2>2, <2>3, MovesIInv DEF Moves
<1> QED BY <1>5, <1>6

LEMMA CheckIInv ==
    ASSUME IInv, NEW j \in Jobs, Check(j)
    PROVE  IInv'
<1>1. PICK job \in JobSet : job = jobs[j] /\ Tells(job) /\ job.step = "push"
  BY DEF IInv, JobsAre, Check
<1>2. PICK stop \in BOOLEAN : stop = ("error" \in DOMAIN PushDetails \/ Similar(job.config))
  OBVIOUS
<1>3. Moves(j, IF stop THEN Idle ELSE [job EXCEPT !.step = "pushing"])
  BY <1>1, <1>2, Zenon DEF Check
<1>4. CASE stop
  BY <1>3, <1>4, ResetIInv DEF Moves
<1>5. CASE ~stop
  <2>1. PICK job2 : job2 = [job EXCEPT !.step = "pushing"]
    OBVIOUS
  <2>2. /\ job2 \in JobSet /\ job2.step = "pushing"
        /\ job2.base = job.base /\ job2.config = job.config /\ job2.told = job.told
    <3>1. job.told \subseteq Entries /\ job.config \in Seq(Entries)
      BY DEF JobSet
    <3>2. "pushing" \in Steps /\ job2 = GoesTo(job, "pushing")
      BY <2>1 DEF Steps, GoesTo
    <3>3. job2 = Job("pushing", job.base, job.config, job.told) /\ job2 \in JobSet
      BY <3>1, <3>2, JobGoesOn, Zenon
    <3> QED BY <3>3 DEF Job
  <2>3. Tells(job2) /\ Follows(job2, upstream)
    BY <1>1, <2>2 DEF Tells, Follows
  <2> QED BY <1>3, <1>5, <2>1, <2>2, <2>3, MovesIInv DEF Moves
<1> QED BY <1>4, <1>5

LEMMA FailIInv ==
    ASSUME IInv, NEW j \in Jobs, Fail(j)
    PROVE  IInv'
  BY ResetIInv DEF Fail

\* A header "automerge" is there only if the updates allow it.
LEMMA HeadersTell ==
    ASSUME NEW job \in JobSet, Tells(job), job.step = "pushing", NEW p,
           p.headers = Headers(job), p.base = job.base, p.config = job.config,
           HeaderIsTrue(p, "automerge")
    PROVE  \A e \in Updates(p.base, p.config) : e.automerge # "never"
<1>1. Automerge(job.told)
  <2>1. SUFFICES ASSUME ~Automerge(job.told) PROVE FALSE
    OBVIOUS
  <2>2. "automerge" \notin DOMAIN p.headers
    BY <2>1 DEF Headers
  <2> QED BY <2>2 DEF HeaderIsTrue, PatchHeader
<1>2. \A e \in job.told : e.automerge # "never"
  BY <1>1 DEF Automerge
<1>3. Updates(p.base, p.config) \subseteq job.told
  BY DEF Tells
<1> QED BY <1>2, <1>3

Patch(job) ==
    [base |-> job.base, config |-> job.config, headers |-> Headers(job), state |-> "open",
     vote |-> "none"]

LEMMA PatchMade ==
    ASSUME NEW job \in JobSet, Tells(job), job.step = "pushing"
    PROVE  Patch(job) \in PatchSet /\ Asks(Patch(job))
<1>1. PICK b, s \in Seq(Entries) : b = job.base /\ s = job.config
  BY DEF JobSet
<1>2. PICK h \in HeaderSets : h = Headers(job)
  <2>1. Headers(job) \in [md5 : Seq(Entries)] \/ Headers(job) \in [automerge : {"yes"}, md5 : Seq(Entries)]
    BY <1>1 DEF Headers
  <2> QED BY <2>1 DEF HeaderSets
<1>3. Patch(job) = [base |-> b, config |-> s, headers |-> h, state |-> "open", vote |-> "none"]
  BY <1>1, <1>2 DEF Patch
<1>4. Patch(job) \in PatchSet
  BY <1>3 DEF PatchSet
<1>5. PICK p : p = Patch(job)
  OBVIOUS
<1>6. p.headers = Headers(job) /\ p.base = job.base /\ p.config = job.config /\ p.vote = "none"
  BY <1>5 DEF Patch
<1>7. Asks(p)
  BY <1>6, HeadersTell DEF Asks
<1> QED BY <1>4, <1>5, <1>7

LEMMA PushIInv ==
    ASSUME IInv, NEW j \in Jobs, Push(j)
    PROVE  IInv'
<1>1. PICK job \in JobSet : job = jobs[j] /\ Tells(job) /\ job.step = "pushing"
  BY DEF IInv, JobsAre, Push
<1>2. patches' = Append(patches, Patch(job))
  BY <1>1 DEF Push, Patch
<1>3. PatchesAre(patches')
  BY <1>1, <1>2, PatchMade, AddPatch, Zenon DEF IInv
<1>4. jobs' = [jobs EXCEPT ![j] = Idle]
  BY DEF Push
<1>5. JobsAre(jobs', upstream)
  BY <1>4, IdleIs, SetJob, Zenon DEF IInv
<1> QED BY <1>3, <1>5 DEF IInv, Push

\* The state and the vote of a patch do not change what it asks for.
LEMMA PatchSays ==
    ASSUME NEW p \in PatchSet, Asks(p), NEW q \in PatchSet,
           q.base = p.base, q.config = p.config, q.headers = p.headers,
           q.vote = "submit" => HeaderIsTrue(p, "automerge")
    PROVE  Asks(q)
<1>1. HeaderIsTrue(q, "automerge") <=> HeaderIsTrue(p, "automerge")
  BY Zenon DEF HeaderIsTrue, PatchHeader
<1> QED BY <1>1, Zenon DEF Asks

LEMMA StartCheckIInv ==
    ASSUME IInv, NEW k \in DOMAIN patches, StartCheck(k)
    PROVE  IInv'
<1>1. PICK p \in PatchSet : p = patches[k] /\ Asks(p)
  BY DEF IInv, PatchesAre
<1>2. PICK q : q = [p EXCEPT !.vote = "submit"]
  OBVIOUS
<1>3. /\ q \in PatchSet /\ q.base = p.base /\ q.config = p.config /\ q.headers = p.headers
  BY <1>2 DEF PatchSet
<1>4. HeaderIsTrue(p, "automerge")
  BY <1>1 DEF StartCheck, CanMerge
<1>5. Asks(q)
  BY <1>1, <1>3, <1>4, PatchSays, Zenon
<1>6. patches' = [patches EXCEPT ![k] = q]
  BY <1>1, <1>2 DEF StartCheck
<1>7. PatchesAre(patches')
  BY <1>3, <1>5, <1>6, SetPatch, Zenon DEF IInv
<1> QED BY <1>7 DEF IInv, StartCheck

PatchTo(k, st, v) == [patches EXCEPT ![k] = [@ EXCEPT !.state = st, !.vote = v]]

\* A vote that is no longer given, a state that is another.
LEMMA PatchDone ==
    ASSUME IInv, NEW k \in DOMAIN patches,
           NEW v \in {"none", "submit", "done"}, NEW st \in {"open", "merged", "abandoned"},
           v = "submit" => patches[k].vote = "submit"
    PROVE  PatchesAre(PatchTo(k, st, v))
<1>1. PICK p \in PatchSet : p = patches[k] /\ Asks(p)
  BY DEF IInv, PatchesAre
<1>2. PICK q0 : q0 = [p EXCEPT !.state = st]
  OBVIOUS
<1>3. /\ q0 \in PatchSet /\ q0.base = p.base /\ q0.config = p.config /\ q0.headers = p.headers
      /\ q0.vote = p.vote
  BY <1>2 DEF PatchSet
<1>4. PICK q : q = [q0 EXCEPT !.vote = v]
  OBVIOUS
<1>5. /\ q \in PatchSet /\ q.base = p.base /\ q.config = p.config /\ q.headers = p.headers
      /\ q.vote = v
  BY <1>3, <1>4 DEF PatchSet
<1>6. q.vote = "submit" => HeaderIsTrue(p, "automerge")
  BY <1>1, <1>5 DEF Asks
<1>7. Asks(q)
  BY <1>1, <1>5, <1>6, PatchSays, Zenon
<1>8. PatchTo(k, st, v) = [patches EXCEPT ![k] = q]
  BY <1>1, <1>2, <1>4 DEF PatchTo
<1>9. PatchesAre([patches EXCEPT ![k] = q])
  BY <1>5, <1>7, SetPatch, Zenon DEF IInv
<1> QED BY <1>8, <1>9

\* Where the branch and what the patch was made from both have an entry, each
\* field is the patch's if the patch changes it.
LEMMA EntryMerged ==
    ASSUME NEW p \in PatchSet, branch \in Seq(Entries), NEW i \in DOMAIN p.base,
           i \in DOMAIN branch, i \in DOMAIN p.config
    PROVE  /\ MergedEntry(p, i) \in Entries
           /\ p.config[i] = p.base[i] => MergedEntry(p, i) = branch[i]
           /\ MergedEntry(p, i).automerge = IF p.config[i].automerge # p.base[i].automerge
                                            THEN p.config[i].automerge ELSE branch[i].automerge
<1>1. PICK b, c, d \in Entries : b = p.base[i] /\ c = p.config[i] /\ d = branch[i]
  <2>1. PICK x, y \in Seq(Entries) : x = p.base /\ y = p.config
    BY DEF PatchSet
  <2>2. x[i] \in Entries /\ y[i] \in Entries /\ branch[i] \in Entries
    BY <2>1
  <2> QED BY <2>1, <2>2
<1> DEFINE line(f) == IF c[f] # b[f] THEN c[f] ELSE d[f]
<1>2. MergedEntry(p, i) =
        [key |-> line("key"), commit |-> line("commit"), automerge |-> line("automerge"),
         policy |-> line("policy"), filter |-> line("filter"),
         annotatedOnly |-> line("annotatedOnly")]
  BY <1>1, Zenon DEF MergedEntry
<1>3. MergedEntry(p, i) \in Entries
  BY <1>2 DEF Entries
<1>4. c = b => MergedEntry(p, i) = d
  BY <1>2 DEF Entries
<1>5. MergedEntry(p, i).automerge = line("automerge")
  BY <1>2
<1> HIDE DEF line
<1>6. line("automerge") = IF c.automerge # b.automerge THEN c.automerge ELSE d.automerge
  BY DEF line
<1> QED BY <1>1, <1>3, <1>4, <1>5, <1>6

LEMMA MergedIs ==
    ASSUME NEW p \in PatchSet, branch \in Seq(Entries), Mergeable(p)
    PROVE  /\ Merged(p) \in Seq(Entries)
           /\ DOMAIN Merged(p) = DOMAIN branch \cup DOMAIN p.config
           /\ \A i \in DOMAIN Merged(p) :
                Merged(p)[i] = IF i \in DOMAIN p.base THEN MergedEntry(p, i)
                               ELSE IF i \in DOMAIN branch THEN branch[i] ELSE p.config[i]
<1>1. PICK b, c \in Seq(Entries) : b = p.base /\ c = p.config
  BY DEF PatchSet
<1>2. PICK l, n \in Nat : DOMAIN branch = 1..l /\ DOMAIN c = 1..n
  BY <1>1
<1>3. PICK m \in Nat : (1..l) \cup (1..n) = 1..m
  <2>1. (1..l) \cup (1..n) = 1..(IF l <= n THEN n ELSE l)
    OBVIOUS
  <2> QED BY <2>1
<1> DEFINE entry(i) == IF i \in DOMAIN p.base THEN MergedEntry(p, i)
                       ELSE IF i \in DOMAIN branch THEN branch[i] ELSE p.config[i]
<1>4. Merged(p) = [i \in 1..m |-> entry(i)]
  BY <1>1, <1>2, <1>3, Zenon DEF Merged
<1>5. ASSUME NEW i \in 1..m PROVE entry(i) \in Entries
  <2>1. i \in DOMAIN branch \cup DOMAIN c
    BY <1>2, <1>3
  <2>2. CASE i \in DOMAIN p.base
    <3>1. i \in DOMAIN branch /\ i \in DOMAIN p.config
      BY <2>2 DEF Mergeable
    <3> QED BY <2>2, <3>1, EntryMerged
  <2>3. CASE i \notin DOMAIN p.base /\ i \in DOMAIN branch
    BY <2>3
  <2>4. CASE i \notin DOMAIN p.base /\ i \notin DOMAIN branch
    BY <1>1, <2>1, <2>4
  <2> QED BY <2>2, <2>3, <2>4
<1> HIDE DEF entry
<1>6. Merged(p) \in [1..m -> Entries]
  BY <1>4, <1>5
<1>7. DOMAIN Merged(p) = 1..m /\ \A i \in 1..m : Merged(p)[i] = entry(i)
  BY <1>4
<1>8. Merged(p) \in Seq(Entries)
  BY <1>6
<1> QED BY <1>1, <1>2, <1>3, <1>7, <1>8 DEF entry

\* What a merge changes of an entry marked "never", if no update of the patch
\* is of such a one: the mark stands on the branch, and was not there before.
Marked(i, b, old, new) ==
    new[i].automerge = "never" /\ (i \notin DOMAIN old \/ new[i] # old[i]) =>
        /\ i \in DOMAIN old \cap DOMAIN b
        /\ old[i].automerge = "never" /\ b[i].automerge # "never"

LEMMA MergeMarks ==
    ASSUME NEW p \in PatchSet, branch \in Seq(Entries), Mergeable(p),
           \A e \in Updates(p.base, p.config) : e.automerge # "never",
           NEW i \in DOMAIN Merged(p)
    PROVE  Marked(i, p.base, branch, Merged(p))
<1>1. PICK m : m = Merged(p)
  OBVIOUS
<1>2. /\ i \in DOMAIN branch \cup DOMAIN p.config
      /\ m[i] = IF i \in DOMAIN p.base THEN MergedEntry(p, i)
                ELSE IF i \in DOMAIN branch THEN branch[i] ELSE p.config[i]
  BY <1>1, MergedIs
<1>3. ASSUME i \in DOMAIN p.config, i \notin DOMAIN p.base \/ p.config[i] # p.base[i]
      PROVE  p.config[i].automerge # "never"
  BY <1>3 DEF Updates
<1>4. CASE i \notin DOMAIN p.base
  BY <1>1, <1>2, <1>3, <1>4 DEF Marked
<1>5. CASE i \in DOMAIN p.base
  <2>1. i \in DOMAIN branch /\ i \in DOMAIN p.config
    BY <1>5 DEF Mergeable
  <2>2. PICK r : r = MergedEntry(p, i)
    OBVIOUS
  <2>3. /\ p.config[i] = p.base[i] => r = branch[i]
        /\ r.automerge = IF p.config[i].automerge # p.base[i].automerge
                         THEN p.config[i].automerge ELSE branch[i].automerge
    BY <1>5, <2>1, <2>2, EntryMerged
  <2>4. m[i] = r
    BY <1>2, <1>5, <2>2
  <2> QED BY <1>1, <1>3, <1>5, <2>1, <2>3, <2>4 DEF Marked
<1> QED BY <1>4, <1>5

\* A patch that is merged, abandoned or not.
LEMMA PatchIInv ==
    ASSUME IInv, NEW k \in DOMAIN patches,
           NEW v \in {"none", "submit", "done"}, NEW st \in {"open", "merged", "abandoned"},
           v = "submit" => patches[k].vote = "submit",
           patches' = PatchTo(k, st, v),
           (Mergeable(patches[k]) /\ branch' = Merged(patches[k])) \/ UNCHANGED branch,
           UNCHANGED <<upstream, jobs>>
    PROVE  IInv'
<1>1. PICK p \in PatchSet : p = patches[k]
  BY DEF IInv, PatchesAre
<1>2. branch' \in Seq(Entries)
  <2>1. CASE Mergeable(p) /\ branch' = Merged(p)
    BY <2>1, MergedIs DEF IInv
  <2>2. CASE UNCHANGED branch
    BY <2>2 DEF IInv
  <2> QED BY <1>1, <2>1, <2>2
<1>3. PatchesAre(patches')
  BY PatchDone
<1> QED BY <1>2, <1>3 DEF IInv

\* The ways the actions say it.
VoteOf(k, v) == [patches EXCEPT ![k].vote = v]
StateOf(k, st) == [patches EXCEPT ![k].state = st]
BothOf(k, st, v) == [patches EXCEPT ![k].state = st, ![k].vote = v]

LEMMA PatchChanges ==
    ASSUME IInv, NEW k \in DOMAIN patches, NEW st \in {"open", "merged", "abandoned"}
    PROVE  /\ patches[k].vote \in {"none", "submit", "done"}
           /\ patches[k].state = "open" => VoteOf(k, "done") = PatchTo(k, "open", "done")
           /\ BothOf(k, st, "done") = PatchTo(k, st, "done")
           /\ StateOf(k, st) = PatchTo(k, st, patches[k].vote)
<1>1. PICK p \in PatchSet : p = patches[k]
  BY DEF IInv, PatchesAre
<1>2. p.vote \in {"none", "submit", "done"}
  BY DEF PatchSet
<1>3. p.state = "open" => p = [p EXCEPT !.state = "open"]
  BY DEF PatchSet
<1>4. PICK q : q = [p EXCEPT !.state = st]
  OBVIOUS
<1>5. q = [q EXCEPT !.vote = p.vote]
  BY <1>4 DEF PatchSet
<1>6. p.state = "open" => VoteOf(k, "done") = PatchTo(k, "open", "done")
  BY <1>1, <1>3 DEF VoteOf, PatchTo
<1>7. BothOf(k, st, "done") = PatchTo(k, st, "done")
  BY <1>1 DEF BothOf, PatchTo
<1>8. StateOf(k, st) = PatchTo(k, st, p.vote)
  BY <1>1, <1>4, <1>5 DEF StateOf, PatchTo
<1> QED BY <1>1, <1>2, <1>6, <1>7, <1>8, Zenon

LEMMA SubmitIInv ==
    ASSUME IInv, NEW k \in DOMAIN patches, Submit(k)
    PROVE  IInv'
<1>1. patches[k].state = "open" /\ UNCHANGED <<upstream, jobs>>
  BY DEF Submit
<1>2. CASE /\ Mergeable(patches[k]) /\ branch' = Merged(patches[k])
           /\ patches' = [patches EXCEPT ![k].state = "merged", ![k].vote = "done"]
  <2>1. patches' = BothOf(k, "merged", "done")
    BY <1>2 DEF BothOf
  <2>2. BothOf(k, "merged", "done") = PatchTo(k, "merged", "done")
    BY PatchChanges
  <2> QED BY <1>1, <1>2, <2>1, <2>2, PatchIInv
<1>3. CASE UNCHANGED branch /\ patches' = [patches EXCEPT ![k].vote = "done"]
  <2>1. patches' = VoteOf(k, "done")
    BY <1>3 DEF VoteOf
  <2>2. VoteOf(k, "done") = PatchTo(k, "open", "done")
    BY <1>1, PatchChanges
  <2> QED BY <1>1, <1>3, <2>1, <2>2, PatchIInv
<1> QED BY <1>2, <1>3 DEF Submit

LEMMA ReviewIInv ==
    ASSUME IInv, NEW k \in DOMAIN patches, Review(k)
    PROVE  IInv'
<1>1. PICK v \in {"none", "submit", "done"} : v = patches[k].vote
  BY PatchChanges
<1>2. UNCHANGED <<upstream, jobs>>
  BY DEF Review
<1>3. CASE /\ Mergeable(patches[k]) /\ branch' = Merged(patches[k])
           /\ patches' = [patches EXCEPT ![k].state = "merged"]
  <2>1. patches' = StateOf(k, "merged") /\ StateOf(k, "merged") = PatchTo(k, "merged", v)
    BY <1>1, <1>3, PatchChanges DEF StateOf
  <2> QED BY <1>1, <1>2, <1>3, <2>1, PatchIInv
<1>4. CASE patches' = [patches EXCEPT ![k].state = "abandoned"] /\ UNCHANGED branch
  <2>1. patches' = StateOf(k, "abandoned") /\ StateOf(k, "abandoned") = PatchTo(k, "abandoned", v)
    BY <1>1, <1>4, PatchChanges DEF StateOf
  <2> QED BY <1>1, <1>2, <1>4, <2>1, PatchIInv
<1> QED BY <1>3, <1>4 DEF Review

LEMMA NextIInv == IInv /\ [Next]_vars => IInv'
<1> SUFFICES ASSUME IInv, [Next]_vars PROVE IInv'
  OBVIOUS
<1>1. ASSUME NEW s \in Moving, Advance(s) PROVE IInv'
  BY <1>1, AdvanceIInv
<1>2. ASSUME NEW s \in Tagging, MakeTag(s) PROVE IInv'
  BY <1>2, MakeTagIInv
<1>3. ASSUME NEW j \in Jobs, Work(j) PROVE IInv'
  BY <1>3, CloneIInv, UpdateNextIInv, CommitIInv, CheckIInv, PushIInv, Zenon DEF Work
<1>4. ASSUME NEW j \in Jobs, Modify(j) \/ Fail(j) PROVE IInv'
  BY <1>4, ModifyIInv, FailIInv
<1>5. ASSUME NEW k \in DOMAIN patches, Gerrit(k) PROVE IInv'
  BY <1>5, StartCheckIInv, SubmitIInv DEF Gerrit
<1>6. ASSUME NEW k \in DOMAIN patches, Review(k) PROVE IInv'
  BY <1>6, ReviewIInv
<1>7. CASE UNCHANGED vars
  BY <1>7 DEF vars, IInv
<1> QED BY <1>1, <1>2, <1>3, <1>4, <1>5, <1>6, <1>7, Zenon DEF Next

LEMMA IInvHolds == Spec => []IInv
  BY InitIInv, NextIInv, PTL DEF Spec

-----------------------------------------------------------------------------
(***************************************************************************)
(* However upstreams move on while jobs read them, what a job writes for a *)
(* source that follows tags alone is a tag it may take, and never an older *)
(* commit than it had.                                                     *)
(***************************************************************************)
THEOREM TagsGoForward == Spec => []TagsAreFollowedForward
<1>1. IInv => TagsAreFollowedForward
  BY Zenon DEF IInv, JobsAre, Follows, Forward, TagsAreFollowedForward
<1> QED BY <1>1, IInvHolds, PTL

(***************************************************************************)
(* However updates, reviews and checks of several patches interleave, no   *)
(* vote of check-patch puts an update of a source into the branch that was *)
(* marked "never" when the update was made, nor sets the mark; what it     *)
(* updates of a source marked since was merged with the review that did.   *)
(***************************************************************************)
THEOREM NeverSourcesAreSeen == Spec => NeverSourcesWaitForReview
<1>1. ASSUME IInv, NEW k \in DOMAIN patches, Submit(k)
      PROVE  \A i \in DOMAIN branch' : Marked(i, patches[k].base, branch, branch')
  <2>1. PICK p \in PatchSet : p = patches[k] /\ Asks(p)
    BY <1>1 DEF IInv, PatchesAre
  <2>2. p.vote = "submit"
    BY <1>1, <2>1 DEF Submit
  <2>3. \A e \in Updates(p.base, p.config) : e.automerge # "never"
    BY <2>1, <2>2 DEF Asks
  <2>4. CASE Mergeable(p) /\ branch' = Merged(p)
    <3>1. \A i \in DOMAIN Merged(p) : Marked(i, p.base, branch, Merged(p))
      BY <1>1, <2>3, <2>4, MergeMarks DEF IInv
    <3> QED BY <2>1, <2>4, <3>1
  <2>5. CASE branch' = branch
    BY <2>5 DEF Marked
  <2> QED BY <1>1, <2>1, <2>4, <2>5 DEF Submit
<1>2. IInv /\ [Next]_vars =>
        [\A k \in DOMAIN patches : Submit(k) =>
            \A i \in DOMAIN branch' :
              branch'[i].automerge = "never" /\ (i \notin DOMAIN branch \/ branch'[i] # branch[i]) =>
                /\ i \in DOMAIN branch \cap DOMAIN patches[k].base
                /\ branch[i].automerge = "never" /\ patches[k].base[i].automerge # "never"]_vars
  BY <1>1 DEF Marked
<1> QED BY <1>2, IInvHolds, PTL DEF Spec, NeverSourcesWaitForReview
=============================================================================
