--------------------------- MODULE SlaveJobProofs ---------------------------
(***************************************************************************)
(* The jobs of a node, for any jobs in any order, upstreams and registries: *)
(* Docker is cleaned of exactly what need not stay, one answer of the       *)
(* registry for each tag accounts for all Dockerfiles, a script sees the    *)
(* files of its commit and of its sources, its changed files are found, and *)
(* it has the variables that are meant for it.                              *)
(***************************************************************************)
EXTENDS SlaveJob, Lemmas, FiniteSetTheorems

LEMMA KeptClosed ==
  ASSUME NEW there, DOMAIN there \subseteq Images
  PROVE  /\ Whitelisted(there) \subseteq Kept(there)
         /\ Kept(there) \subseteq Images
         /\ WithAncestors(Kept(there))
<1>1. Whitelisted(there) \subseteq Images
  BY DEF Whitelisted
<1>2. ASSUME NEW k \in Kept(there), Parent[k] # NoImage PROVE Parent[k] \in Kept(there)
  <2>1. k \in Images
    BY DEF Kept
  <2>2. Parent[k] \in Images
    BY <1>2, <2>1, DockerAssumption
  <2>3. ASSUME NEW S \in SUBSET Images, Whitelisted(there) \subseteq S, WithAncestors(S)
        PROVE  Parent[k] \in S
    <3>1. k \in S
      BY <2>3 DEF Kept
    <3> QED BY <1>2, <2>3, <3>1 DEF WithAncestors
  <2> QED BY <2>2, <2>3 DEF Kept
<1> QED BY <1>1, <1>2 DEF Kept, WithAncestors

LEMMA KeptLeast ==
  ASSUME NEW there, NEW S \in SUBSET Images, Whitelisted(there) \subseteq S, WithAncestors(S)
  PROVE  Kept(there) \subseteq S
BY DEF Kept

\* What is kept is whitelisted or has a child that is kept.
LEMMA KeptForReason ==
  ASSUME NEW there, DOMAIN there \subseteq Images, NEW k \in Kept(there),
         k \notin Whitelisted(there)
  PROVE  \E c \in Kept(there) : Parent[c] = k
<1> DEFINE S == Kept(there) \ {k}
<1>1. SUFFICES ASSUME ~\E c \in Kept(there) : Parent[c] = k PROVE FALSE
  OBVIOUS
<1>2. S \in SUBSET Images /\ Whitelisted(there) \subseteq S
  BY KeptClosed
<1>3. WithAncestors(S)
  BY <1>1, KeptClosed DEF WithAncestors
<1> QED BY <1>2, <1>3, KeptLeast
-----------------------------------------------------------------------------
(* The loop of _exclude_whitelisted_parents.                               *)

\* f is the function of turns that Excluded defines on 0..n.
Excludes(f, w, ch, n) ==
  f = [k \in 0..n |-> IF k = 0 THEN [whitelist |-> w, children |-> ch] ELSE Excluding(f[k - 1])]

LEMMA ExcludesExist ==
  ASSUME NEW w, NEW ch
  PROVE  \A n \in Nat : \E f : Excludes(f, w, ch, n)
<1> DEFINE base == [whitelist |-> w, children |-> ch]
<1> DEFINE T == {n \in Nat : \E f : Excludes(f, w, ch, n)}
<1>1. 0 \in T
  <2> DEFINE e == [k \in 0..0 |-> base]
  <2>1. Excludes(e, w, ch, 0)
    BY DEF Excludes
  <2> QED BY <2>1
<1>2. ASSUME NEW n \in T \cap Nat PROVE n + 1 \in T
  <2>1. n \in Nat /\ \E f : Excludes(f, w, ch, n)
    OBVIOUS
  <2> PICK f : Excludes(f, w, ch, n)
    BY <2>1
  <2> HIDE DEF T
  <2> DEFINE next(k) == IF k = 0 THEN base ELSE Excluding(f[k - 1])
             g == [k \in 0..(n + 1) |-> next(k)]
  <2>2. \A k \in 0..n : g[k] = f[k]
    <3>1. \A k \in 0..n : f[k] = next(k)
      BY DEF Excludes
    <3>2. \A k \in 0..n : k \in 0..(n + 1)
      BY <2>1
    <3> QED BY <3>1, <3>2
  <2>3. \A k \in 0..(n + 1) : k # 0 => k - 1 \in 0..n /\ g[k - 1] = f[k - 1]
    <3>1. \A k \in 0..(n + 1) : k # 0 => k - 1 \in 0..n
      BY <2>1
    <3> HIDE DEF g
    <3> QED BY <2>2, <3>1
  <2>4. \A k \in 0..(n + 1) : g[k] = IF k = 0 THEN base ELSE Excluding(g[k - 1])
    BY <2>3
  <2>5. Excludes(g, w, ch, n + 1)
    <3>1. g = [k \in 0..(n + 1) |-> g[k]]
      OBVIOUS
    <3> HIDE DEF g
    <3> QED BY <2>4, <3>1 DEF Excludes
  <2> HIDE DEF g
  <2> QED BY <2>1, <2>5 DEF T
<1>3. Nat \subseteq T
  <2> HIDE DEF T
  <2> QED BY <1>1, <1>2, SetInduction
<1> QED BY <1>3

\* What holds after each turn, when the map ch is searched for the images K.
Excludable(r, w, ch, K) ==
  /\ w \subseteq r.whitelist /\ r.whitelist \subseteq K
  /\ DOMAIN r.children \subseteq DOMAIN ch
  /\ \A p \in DOMAIN r.children : r.children[p] = ch[p]
  /\ DOMAIN ch \ DOMAIN r.children \subseteq r.whitelist

Exhausted(r) == WhitelistedParents(r.whitelist, r.children) = {}

LEMMA ExcludingStep ==
  ASSUME NEW r, NEW w, NEW ch, NEW K, Excludable(r, w, ch, K),
         \A p \in DOMAIN ch : ch[p] \cap K # {} => p \in K
  PROVE  /\ Excludable(Excluding(r), w, ch, K)
         /\ Exhausted(r) => Exhausted(Excluding(r))
         /\ DOMAIN Excluding(r).children \subseteq DOMAIN r.children
         /\ ~Exhausted(r) => DOMAIN Excluding(r).children # DOMAIN r.children
<1> DEFINE parents == WhitelistedParents(r.whitelist, r.children)
<1>1. PICK s : s = Excluding(r)
  OBVIOUS
<1>2. s.whitelist = r.whitelist \cup parents /\ s.children = Without(r.children, parents)
  BY <1>1 DEF Excluding
<1>3. /\ DOMAIN s.children = DOMAIN r.children \ parents
      /\ \A p \in DOMAIN s.children : s.children[p] = r.children[p]
  BY <1>2 DEF Without
<1>4. parents \subseteq DOMAIN r.children /\ parents \subseteq K
  BY DEF WhitelistedParents, Excludable
<1>5. Excludable(s, w, ch, K)
  BY <1>2, <1>3, <1>4 DEF Excludable
<1>6. ASSUME parents = {} PROVE WhitelistedParents(s.whitelist, s.children) = {}
  BY <1>2, <1>3, <1>6 DEF WhitelistedParents
<1>7. parents # {} => DOMAIN s.children # DOMAIN r.children
  BY <1>3, <1>4
<1> QED BY <1>1, <1>3, <1>5, <1>6, <1>7 DEF Exhausted

LEMMA ExcludedIs ==
  ASSUME NEW w, NEW ch, NEW K, IsFiniteSet(DOMAIN ch), w \subseteq K,
         \A p \in DOMAIN ch : ch[p] \cap K # {} => p \in K
  PROVE  \E r : /\ Excluded(w, ch) = r.children
                /\ Excludable(r, w, ch, K) /\ Exhausted(r)
<1> DEFINE N == Cardinality(DOMAIN ch)
<1>1. N \in Nat
  BY FS_CardinalityType
<1> HIDE DEF N
<1> DEFINE after == CHOOSE f : Excludes(f, w, ch, N)
<1>2. Excludes(after, w, ch, N)
  BY <1>1, ExcludesExist
<1>3. Excluded(w, ch) = after[N].children
  BY DEF Excluded, Excludes, N
<1> HIDE DEF after
<1> DEFINE Few(r, n) == IsFiniteSet(DOMAIN r.children) /\ Cardinality(DOMAIN r.children) <= N - n
           T == {n \in Nat : n <= N => /\ Excludable(after[n], w, ch, K)
                                       /\ Exhausted(after[n]) \/ Few(after[n], n)}
<1>4. 0 \in T
  <2>1. PICK r : r = after[0]
    OBVIOUS
  <2>2. r = [whitelist |-> w, children |-> ch]
    BY <1>1, <1>2, <2>1 DEF Excludes
  <2>3. r.whitelist = w /\ r.children = ch
    BY <2>2
  <2>4. Excludable(r, w, ch, K)
    BY <2>3 DEF Excludable
  <2>5. Few(r, 0)
    BY <1>1, <2>3 DEF N
  <2> QED BY <2>1, <2>4, <2>5
<1>5. ASSUME NEW n \in T \cap Nat PROVE n + 1 \in T
  <2>1. SUFFICES ASSUME n \in Nat, n + 1 <= N
                 PROVE  /\ Excludable(after[n + 1], w, ch, K)
                        /\ Exhausted(after[n + 1]) \/ Few(after[n + 1], n + 1)
    OBVIOUS
  <2>2. PICK r : r = after[n]
    OBVIOUS
  <2>3. Excludable(r, w, ch, K) /\ (Exhausted(r) \/ Few(r, n))
    BY <1>1, <2>1, <2>2
  <2>4. after[n + 1] = Excluding(r)
    <3>1. n + 1 \in 0..N /\ n + 1 # 0 /\ (n + 1) - 1 = n
      BY <1>1, <2>1
    <3> QED BY <1>2, <2>2, <3>1 DEF Excludes
  <2>5. PICK s : s = Excluding(r)
    OBVIOUS
  <2>6. /\ Excludable(s, w, ch, K)
        /\ Exhausted(r) => Exhausted(s)
        /\ DOMAIN s.children \subseteq DOMAIN r.children
        /\ ~Exhausted(r) => DOMAIN s.children # DOMAIN r.children
    BY <2>3, <2>5, ExcludingStep
  <2>7. ASSUME ~Exhausted(r) PROVE Few(s, n + 1)
    <3>1. IsFiniteSet(DOMAIN r.children) /\ Cardinality(DOMAIN r.children) <= N - n
      BY <2>3, <2>7
    <3>2. /\ IsFiniteSet(DOMAIN s.children)
          /\ Cardinality(DOMAIN s.children) <= Cardinality(DOMAIN r.children)
          /\ Cardinality(DOMAIN s.children) # Cardinality(DOMAIN r.children)
      BY <2>6, <2>7, <3>1, FS_Subset
    <3>3. Cardinality(DOMAIN s.children) \in Nat /\ Cardinality(DOMAIN r.children) \in Nat
      BY <3>1, <3>2, FS_CardinalityType
    <3> QED BY <1>1, <2>1, <3>1, <3>2, <3>3
  <2> HIDE DEF Few, T
  <2> QED BY <2>4, <2>5, <2>6, <2>7
<1>6. N \in T
  <2> HIDE DEF T
  <2>1. Nat \subseteq T
    BY <1>4, <1>5, SetInduction
  <2> QED BY <1>1, <2>1
<1>7. PICK r : r = after[N]
  OBVIOUS
<1>8. Excludable(r, w, ch, K) /\ (Exhausted(r) \/ Few(r, N))
  BY <1>1, <1>6, <1>7
<1>9. ASSUME Few(r, N) PROVE Exhausted(r)
  <2>1. IsFiniteSet(DOMAIN r.children) /\ Cardinality(DOMAIN r.children) = 0
    <3>1. Cardinality(DOMAIN r.children) \in Nat
      BY <1>9, FS_CardinalityType
    <3> QED BY <1>1, <1>9, <3>1
  <2>2. DOMAIN r.children = {}
    BY <2>1, FS_EmptySet
  <2> QED BY <2>2 DEF Exhausted, WhitelistedParents
<1> QED BY <1>3, <1>7, <1>8, <1>9

LEMMA MapIs ==
  ASSUME DOMAIN images \subseteq Images, WithAncestors(DOMAIN images)
  PROVE  /\ Kept(images) \subseteq DOMAIN images
         /\ DOMAIN ParentToChild = DOMAIN images \ Kept(images)
         /\ \A i \in DOMAIN ParentToChild : ParentToChild[i] = Children(i)
<1> DEFINE K == Kept(images)
           known == DOMAIN images \cup ({Parent[i] : i \in DOMAIN images} \ {NoImage})
           ch == [i \in known |-> Children(i)]
<1>1. K \subseteq DOMAIN images
  <2>1. Whitelisted(images) \subseteq DOMAIN images
    BY DEF Whitelisted
  <2> QED BY <2>1, KeptLeast
<1>2. known = DOMAIN images
  BY DEF WithAncestors
<1>3. DOMAIN ch = DOMAIN images /\ \A i \in DOMAIN images : ch[i] = Children(i)
  BY <1>2
<1>4. IsFiniteSet(DOMAIN images)
  BY DockerAssumption, FS_Subset
<1>5. Whitelisted(images) \subseteq K /\ WithAncestors(K)
  BY KeptClosed
<1>6. ParentToChild = Excluded(Whitelisted(images), ch)
  BY DEF ParentToChild
<1>7. \A p \in DOMAIN ch : ch[p] \cap K # {} => p \in K
  <2>1. SUFFICES ASSUME NEW p \in DOMAIN images, NEW c \in Children(p), c \in K PROVE p \in K
    BY <1>3
  <2>2. Parent[c] = p /\ p # NoImage
    BY <2>1, DockerAssumption DEF Children
  <2> QED BY <1>5, <2>1, <2>2 DEF WithAncestors
<1> HIDE DEF K, known, ch
<1>8. PICK r : /\ ParentToChild = r.children
               /\ Excludable(r, Whitelisted(images), ch, K) /\ Exhausted(r)
  BY <1>3, <1>4, <1>5, <1>6, <1>7, ExcludedIs
<1>9. ASSUME NEW p \in DOMAIN r.children
      PROVE  p \notin r.whitelist /\ Children(p) \cap r.whitelist = {} /\ r.children[p] = Children(p)
  <2>1. p \notin r.whitelist /\ r.children[p] \cap r.whitelist = {}
    BY <1>8, <1>9 DEF Exhausted, WhitelistedParents
  <2>2. p \in DOMAIN ch /\ r.children[p] = ch[p]
    BY <1>8, <1>9 DEF Excludable
  <2> QED BY <1>3, <2>1, <2>2
<1>10. K \subseteq r.whitelist
  <2>1. /\ Whitelisted(images) \subseteq r.whitelist /\ r.whitelist \subseteq K
        /\ DOMAIN images \ DOMAIN r.children \subseteq r.whitelist
    BY <1>3, <1>8 DEF Excludable
  <2>2. ASSUME NEW x \in r.whitelist, Parent[x] # NoImage PROVE Parent[x] \in r.whitelist
    <3>1. x \in K /\ Parent[x] \in K
      BY <1>5, <2>1, <2>2 DEF WithAncestors
    <3>2. x \in Children(Parent[x])
      BY <1>1, <3>1 DEF Children
    <3>3. Parent[x] \notin DOMAIN r.children
      BY <1>9, <2>2, <3>2
    <3> QED BY <1>1, <2>1, <3>1, <3>3
  <2>3. WithAncestors(r.whitelist)
    BY <2>2 DEF WithAncestors
  <2>4. r.whitelist \in SUBSET Images
    BY <1>1, <2>1
  <2> QED BY <2>1, <2>3, <2>4, KeptLeast DEF K
<1>11. DOMAIN r.children = DOMAIN images \ K
  <2>1. DOMAIN r.children \subseteq DOMAIN images
    BY <1>3, <1>8 DEF Excludable
  <2>2. DOMAIN images \ DOMAIN r.children \subseteq K
    BY <1>3, <1>8 DEF Excludable
  <2> QED BY <1>9, <1>10, <2>1, <2>2
<1> QED BY <1>1, <1>8, <1>9, <1>11 DEF K
-----------------------------------------------------------------------------
(* What Docker removes along with an image.                                *)

LEMMA PrunedClosed ==
  ASSUME NEW i \in DOMAIN images
  PROVE  /\ i \in Pruned(i) /\ Pruned(i) \subseteq DOMAIN images
         /\ \A x \in Pruned(i), p \in DOMAIN images : GoesAlong(p, x) => p \in Pruned(i)
BY DEF Pruned

LEMMA PrunedLeast ==
  ASSUME NEW i \in DOMAIN images, NEW S \in SUBSET DOMAIN images, i \in S,
         \A x \in S, p \in DOMAIN images : GoesAlong(p, x) => p \in S
  PROVE  Pruned(i) \subseteq S
BY DEF Pruned

LEMMA PrunedTakesChildren ==
  ASSUME NEW i \in DOMAIN images, Children(i) = {}, NEW a \in Pruned(i)
  PROVE  Children(a) \subseteq Pruned(i)
<1> DEFINE S == {x \in Pruned(i) : Children(x) \subseteq Pruned(i)}
<1>1. S \in SUBSET DOMAIN images /\ i \in S
  BY PrunedClosed
<1>2. ASSUME NEW x \in S, NEW p \in DOMAIN images, GoesAlong(p, x) PROVE p \in S
  <2>1. p \in Pruned(i)
    BY <1>2, PrunedClosed
  <2>2. Children(p) = {x}
    BY <1>2 DEF GoesAlong
  <2> QED BY <2>1, <2>2
<1> HIDE DEF S
<1>3. Pruned(i) \subseteq S
  BY <1>1, <1>2, PrunedLeast
<1> QED BY <1>3 DEF S

LEMMA PrunedSparesKept ==
  ASSUME NEW there, DOMAIN there \subseteq Images, Kept(there) \subseteq DOMAIN images,
         \A x \in DOMAIN images : x \in DOMAIN there /\ images[x] = there[x],
         NEW i \in DOMAIN images, i \notin Kept(there)
  PROVE  Pruned(i) \cap Kept(there) = {}
<1> DEFINE S == DOMAIN images \ Kept(there)
<1>1. S \in SUBSET DOMAIN images /\ i \in S
  OBVIOUS
<1>2. ASSUME NEW x \in S, NEW p \in DOMAIN images, GoesAlong(p, x), p \in Kept(there) PROVE FALSE
  <2>1. p \notin Whitelisted(there)
    BY <1>2 DEF Whitelisted, IsRepoWhitelisted, GoesAlong
  <2>2. PICK c \in Kept(there) : Parent[c] = p
    BY <1>2, <2>1, KeptForReason
  <2>3. c \in Children(p)
    BY <2>2 DEF Children
  <2> QED BY <1>2, <2>3 DEF GoesAlong
<1>3. Pruned(i) \subseteq S
  BY <1>1, <1>2, PrunedLeast
<1> QED BY <1>3
-----------------------------------------------------------------------------
(* The clean-up.                                                           *)

IsCleanup(c) == c = [step |-> c.step, todo |-> c.todo, children |-> c.children, listed |-> c.listed]

\* While images are removed: what is listed and not kept is still to be
\* removed while it is there, and what a round removes has no children.
Removing ==
  /\ DOMAIN cleanup.listed \subseteq Images /\ Kept(cleanup.listed) \subseteq DOMAIN images
  /\ \A i \in DOMAIN images : i \in DOMAIN cleanup.listed /\ images[i] = cleanup.listed[i]
  /\ DOMAIN cleanup.children \subseteq Images \ Kept(cleanup.listed)
  /\ DOMAIN images \ Kept(cleanup.listed) \subseteq DOMAIN cleanup.children
  /\ \A i \in DOMAIN cleanup.children : Children(i) \subseteq cleanup.children[i]
  /\ cleanup.todo \subseteq DOMAIN cleanup.children
  /\ \A i \in cleanup.todo : Children(i) = {}

CleanupInv ==
  /\ DOMAIN images \subseteq Images /\ WithAncestors(DOMAIN images)
  /\ IsCleanup(cleanup)
  /\ cleanup.step = "images" => Removing
  /\ cleanup.step = "volumes" => DOMAIN images = Kept(cleanup.listed)
  /\ cleanup.step = "failed" => containers # Nothing

LEMMA RefusedOfContainer ==
  ASSUME CleanupInv, Refused, \E c \in DOMAIN containers : TRUE
  PROVE  CleanupInv'
<1>1. cleanup' = [NoCleanup EXCEPT !.step = "failed"] /\ UNCHANGED <<images, containers>>
  BY DEF Refused
<1>2. cleanup'.step = "failed" /\ IsCleanup(cleanup)'
  BY <1>1 DEF NoCleanup, IsCleanup
<1>3. containers # Nothing
  BY DEF Nothing
<1> QED BY <1>1, <1>2, <1>3 DEF CleanupInv, WithAncestors

LEMMA RoundStep ==
  ASSUME CleanupInv, Round
  PROVE  CleanupInv'
<1> DEFINE parents == DOMAIN cleanup.children
           todo == {i \in parents : cleanup.children[i] \cap parents = {}}
<1>1. cleanup.step = "images" /\ cleanup' = [cleanup EXCEPT !.todo = todo]
      /\ UNCHANGED <<images, containers>>
  BY DEF Round
<1> HIDE DEF todo
<1>2. IsCleanup(cleanup)' /\ cleanup'.step = "images" /\ cleanup'.todo = todo
      /\ cleanup'.children = cleanup.children /\ cleanup'.listed = cleanup.listed
  BY <1>1 DEF CleanupInv, IsCleanup
<1>3. Removing
  BY <1>1 DEF CleanupInv
<1>4. ASSUME NEW i \in todo, NEW c \in Children(i) PROVE FALSE
  <2>1. i \in parents /\ c \notin parents
    BY <1>3, <1>4 DEF todo, Removing
  <2>2. c \in DOMAIN images /\ Parent[c] = i
    BY <1>4 DEF Children
  <2>3. c \in Kept(cleanup.listed) /\ i # NoImage /\ i \notin Kept(cleanup.listed)
    BY <1>3, <2>1, <2>2, DockerAssumption DEF Removing
  <2>4. WithAncestors(Kept(cleanup.listed))
    BY <1>3, KeptClosed DEF Removing
  <2> QED BY <2>2, <2>3, <2>4 DEF WithAncestors
<1>5. \A i \in todo : i \in parents /\ Children(i) = {}
  BY <1>4 DEF todo
<1>6. Removing'
  BY <1>1, <1>2, <1>3, <1>5 DEF Removing, Children
<1> QED BY <1>1, <1>2, <1>6 DEF CleanupInv, WithAncestors

LEMMA RemoveImageStep ==
  ASSUME CleanupInv, NEW i \in cleanup.todo, RemoveImage(i)
  PROVE  CleanupInv'
<1> DEFINE K == Kept(cleanup.listed)
<1>1. cleanup.step = "images" /\ Removing
  BY DEF RemoveImage, CleanupInv
<1>2. Children(i) = {} /\ i \in DOMAIN cleanup.children /\ i \in Images /\ i \notin K
  BY <1>1 DEF Removing
<1>3. CASE i \in DOMAIN images /\ Used(i) /\ Refused
  BY <1>3, RefusedOfContainer DEF Used
<1>4. CASE /\ images' = IF i \in DOMAIN images THEN Without(images, Pruned(i)) ELSE images
           /\ cleanup' = [cleanup EXCEPT !.todo = @ \ {i}, !.children = Without(@, {i})]
           /\ UNCHANGED <<containers, volumes>>
  <2>1. PICK gone : gone = IF i \in DOMAIN images THEN Pruned(i) ELSE {}
    OBVIOUS
  <2>2. /\ DOMAIN images' = DOMAIN images \ gone
        /\ \A x \in DOMAIN images' : images'[x] = images[x]
    BY <1>4, <2>1 DEF Without
  <2>3. gone \cap K = {}
    BY <1>1, <1>2, <2>1, PrunedSparesKept DEF Removing
  <2>4. \A a \in gone : Children(a) \subseteq gone
    BY <1>2, <2>1, PrunedTakesChildren
  <2>5. i \in DOMAIN images => i \in gone
    BY <2>1, PrunedClosed
  <2>6. /\ cleanup'.step = "images" /\ cleanup'.todo = cleanup.todo \ {i}
        /\ cleanup'.children = Without(cleanup.children, {i})
        /\ cleanup'.listed = cleanup.listed /\ IsCleanup(cleanup)'
    BY <1>1, <1>4 DEF CleanupInv, IsCleanup
  <2>7. /\ DOMAIN cleanup'.children = DOMAIN cleanup.children \ {i}
        /\ \A x \in DOMAIN cleanup'.children : cleanup'.children[x] = cleanup.children[x]
    BY <2>6 DEF Without
  <2>8. \A x : Children(x)' \subseteq Children(x)
    BY <2>2 DEF Children
  <2>9. DOMAIN images' \subseteq Images /\ WithAncestors(DOMAIN images')
    <3>1. ASSUME NEW x \in DOMAIN images', Parent[x] # NoImage PROVE Parent[x] \in DOMAIN images'
      <4>1. x \in DOMAIN images /\ x \notin gone /\ Parent[x] \in DOMAIN images
        BY <2>2, <3>1 DEF CleanupInv, WithAncestors
      <4>2. x \in Children(Parent[x])
        BY <4>1 DEF Children
      <4> QED BY <2>2, <2>4, <4>1, <4>2
    <3> QED BY <2>2, <3>1 DEF CleanupInv, WithAncestors
  <2>10. Removing'
    <3>1. Kept(cleanup'.listed) = K
      BY <2>6
    <3>2. K \subseteq DOMAIN images'
      BY <1>1, <2>2, <2>3 DEF Removing
    <3>3. \A x \in DOMAIN images' : x \in DOMAIN cleanup'.listed /\ images'[x] = cleanup'.listed[x]
      BY <1>1, <2>2, <2>6 DEF Removing
    <3>4. DOMAIN images' \ K \subseteq DOMAIN cleanup'.children
      BY <1>1, <2>2, <2>5, <2>7 DEF Removing
    <3>5. \A x \in DOMAIN cleanup'.children : Children(x)' \subseteq cleanup'.children[x]
      BY <1>1, <2>7, <2>8 DEF Removing
    <3>6. cleanup'.todo \subseteq DOMAIN cleanup'.children /\ \A x \in cleanup'.todo : Children(x)' = {}
      BY <1>1, <2>6, <2>7, <2>8 DEF Removing
    <3>7. DOMAIN cleanup'.children \subseteq Images \ K /\ DOMAIN cleanup'.listed \subseteq Images
      BY <1>1, <2>6, <2>7 DEF Removing
    <3> HIDE DEF K
    <3> QED BY <3>1, <3>2, <3>3, <3>4, <3>5, <3>6, <3>7 DEF Removing
  <2> QED BY <2>6, <2>9, <2>10 DEF CleanupInv, WithAncestors
<1> QED BY <1>2, <1>3, <1>4 DEF RemoveImage

LEMMA CleanupStep ==
  ASSUME CleanupInv, CleanupNext
  PROVE  CleanupInv'
<1>1. CASE RemoveContainer
  <2>1. PICK c \in cleanup.todo : cleanup' = [cleanup EXCEPT !.todo = @ \ {c}]
    BY <1>1 DEF RemoveContainer
  <2>2. cleanup.step = "containers" /\ images' = images
    BY <1>1 DEF RemoveContainer
  <2>3. cleanup'.step = "containers" /\ IsCleanup(cleanup)'
    BY <2>1, <2>2 DEF CleanupInv, IsCleanup
  <2> QED BY <2>2, <2>3 DEF CleanupInv, WithAncestors
<1>2. CASE ListImages
  <2>1. PICK m : m = ParentToChild
    OBVIOUS
  <2>2. /\ cleanup.todo = {} /\ images' = images
        /\ cleanup' = [cleanup EXCEPT !.step = "images", !.children = m, !.listed = images]
    BY <1>2, <2>1 DEF ListImages
  <2>3. /\ cleanup'.step = "images" /\ cleanup'.children = m /\ cleanup'.listed = images
        /\ cleanup'.todo = {} /\ IsCleanup(cleanup)'
    BY <2>2 DEF CleanupInv, IsCleanup
  <2>4. /\ DOMAIN images \subseteq Images /\ WithAncestors(DOMAIN images)
        /\ Kept(images) \subseteq DOMAIN images
        /\ DOMAIN m = DOMAIN images \ Kept(images)
        /\ \A i \in DOMAIN m : m[i] = Children(i)
    BY <2>1, MapIs DEF CleanupInv
  <2>5. Kept(cleanup'.listed) = Kept(images)
    BY <2>3
  <2>6. \A i : Children(i)' = Children(i)
    BY <2>2 DEF Children
  <2>7. Removing'
    BY <2>2, <2>3, <2>4, <2>5, <2>6 DEF Removing
  <2> QED BY <2>2, <2>3, <2>4, <2>7 DEF CleanupInv
<1>3. CASE Round
  BY <1>3, RoundStep
<1>4. CASE CorruptedStore
  <2>1. cleanup' = [NoCleanup EXCEPT !.step = "corrupted"] /\ images' = images
    BY <1>4 DEF CorruptedStore
  <2>2. cleanup'.step = "corrupted" /\ IsCleanup(cleanup)'
    BY <2>1 DEF NoCleanup, IsCleanup
  <2> QED BY <2>1, <2>2 DEF CleanupInv, WithAncestors
<1>5. CASE ListVolumes
  <2>1. /\ cleanup.step = "images" /\ DOMAIN cleanup.children = {} /\ images' = images
        /\ cleanup' = [cleanup EXCEPT !.step = "volumes", !.todo = volumes]
    BY <1>5 DEF ListVolumes, Nothing
  <2>2. cleanup'.step = "volumes" /\ cleanup'.listed = cleanup.listed /\ IsCleanup(cleanup)'
    BY <2>1 DEF CleanupInv, IsCleanup
  <2>3. DOMAIN images = Kept(cleanup.listed)
    BY <2>1 DEF CleanupInv, Removing
  <2> QED BY <2>1, <2>2, <2>3 DEF CleanupInv, WithAncestors
<1>6. CASE EndCleanup
  <2>1. cleanup' = [cleanup EXCEPT !.step = "done"] /\ images' = images
    BY <1>6 DEF EndCleanup
  <2>2. cleanup'.step = "done" /\ IsCleanup(cleanup)'
    BY <2>1 DEF CleanupInv, IsCleanup
  <2> QED BY <2>1, <2>2 DEF CleanupInv, WithAncestors
<1>7. ASSUME NEW v \in cleanup.todo, RemoveVolume(v) PROVE CleanupInv'
  <2>1. CASE \E c \in DOMAIN containers : containers[c].volume = v
    BY <1>7, <2>1, RefusedOfContainer DEF RemoveVolume
  <2>2. CASE ~\E c \in DOMAIN containers : containers[c].volume = v
    <3>1. /\ cleanup.step = "volumes" /\ images' = images
          /\ cleanup' = [cleanup EXCEPT !.todo = @ \ {v}]
      BY <1>7, <2>2 DEF RemoveVolume
    <3>2. cleanup'.step = "volumes" /\ cleanup'.listed = cleanup.listed /\ IsCleanup(cleanup)'
      BY <3>1 DEF CleanupInv, IsCleanup
    <3> QED BY <3>1, <3>2 DEF CleanupInv, WithAncestors
  <2> QED BY <2>1, <2>2
<1> QED BY <1>1, <1>2, <1>3, <1>4, <1>5, <1>6, <1>7, RemoveImageStep DEF CleanupNext

LEMMA LeftoversStep ==
  ASSUME CleanupInv, cleanup = NoCleanup, NEW l \in Leavings,
         Leftovers(l.images, l.tags, l.containers)
  PROVE  CleanupInv' /\ cleanup' = NoCleanup
<1>1. DOMAIN images' = DOMAIN images \cup l.images /\ cleanup' = cleanup
  BY DEF Leftovers
<1>2. l.images \subseteq Images /\ WithAncestors(l.images)
  BY LeavingsAssumption
<1>3. WithAncestors(DOMAIN images')
  BY <1>1, <1>2 DEF CleanupInv, WithAncestors
<1>4. cleanup.step = "idle" /\ IsCleanup(cleanup)
  BY DEF NoCleanup, IsCleanup
<1> QED BY <1>1, <1>2, <1>3, <1>4 DEF CleanupInv

-----------------------------------------------------------------------------
(* The job.                                                                *)

Getting == {"get", "get again"}
Working == Getting \cup {"setup", "clean", "mirrors", "chroot", "shell", "environ", "run"}

JobTyped ==
  /\ "step" \in DOMAIN job
  /\ job.step \in Working =>
       {"kind", "commit", "failed"} \subseteq DOMAIN job /\ job.commit \in Commits
  /\ job.step \in Getting => "todo" \in DOMAIN job

\* A record with the fields xs of the job, and step s; what the job becomes.
Carries(r, s, xs) ==
  /\ "step" \in DOMAIN r /\ r.step = s
  /\ \A x \in xs : x \in DOMAIN job => x \in DOMAIN r /\ r[x] = job[x]
Goes(s, xs) ==
  /\ "step" \in DOMAIN job' /\ job'.step = s
  /\ \A x \in xs : x \in DOMAIN job => x \in DOMAIN job' /\ job'[x] = job[x]

Kept3 == {"kind", "commit", "failed"}
Kept4 == Kept3 \cup {"secrets"}
UnchangedElse == UNCHANGED <<dockerVars, imageVars, at, cache>>

LEMMA StartGoes ==
  ASSUME NEW kind, Start(kind)
  PROVE  \E c \in Commits :
           /\ job'.step = "get" /\ job'.commit = c /\ job'.kind = kind /\ job'.failed = FALSE
           /\ job'.todo = c.sources /\ job' = [x \in DOMAIN job' |-> job'[x]]
           /\ DOMAIN job' = {"step", "kind", "commit", "todo", "failed", "changed", "old"}
           /\ at' = [NoWork EXCEPT !.tree = c.files, !.indexes = IF kind = "pod" THEN @ ELSE cache]
           /\ job.step = "idle" /\ UNCHANGED <<dockerVars, imageVars, cache>>
<1>1. PICK patch \in Patches :
        /\ job' = [step |-> "get", kind |-> kind, commit |-> patch[2], todo |-> patch[2].sources,
                   failed |-> FALSE, changed |-> ModifiedFiles(patch[2], patch[1]), old |-> patch[1]]
        /\ at' = [NoWork EXCEPT !.tree = patch[2].files, !.indexes = IF kind = "pod" THEN @ ELSE cache]
  BY DEF Start
<1>2. patch[2] \in Commits
  BY DEF Commits
<1> QED BY <1>1, <1>2 DEF Start

LEMMA GetSourceGoes ==
  ASSUME JobTyped, GetSource
  PROVE  /\ Goes(job.step, Kept3 \cup {"secrets"}) /\ job.step \in Getting
         /\ job.todo # <<>> /\ "todo" \in DOMAIN job' /\ job'.todo = Tail(job.todo)
         /\ at' = Formatted(at, Head(job.todo)) /\ UNCHANGED <<dockerVars, imageVars, cache>>
BY DEF GetSource, JobTyped, Getting, Goes, Kept3

LEMMA GetFailsGoes ==
  ASSUME JobTyped, GetFails
  PROVE  /\ UnchangedElse
         /\ \/ Goes("end", {})
            \/ /\ Goes("mirrors", {"kind", "commit", "secrets"}) /\ job.step = "get again"
               /\ "failed" \in DOMAIN job' /\ job'.failed = TRUE
<1>1. CASE job.step = "get"
  BY <1>1 DEF GetFails, Becomes, Ended, Goes, UnchangedElse
<1>2. CASE job.step # "get"
  <2>1. PICK j : j = [job EXCEPT !.step = "mirrors", !.failed = TRUE]
    OBVIOUS
  <2>2. job' = Without(j, {"todo"}) /\ job.step = "get again" /\ UnchangedElse
    BY <1>2, <2>1 DEF GetFails, Becomes, UnchangedElse
  <2>3. {"step", "kind", "commit", "failed"} \subseteq DOMAIN job
    BY <2>2 DEF JobTyped, Working, Getting
  <2>4. /\ DOMAIN j = DOMAIN job /\ j.step = "mirrors" /\ j.failed = TRUE
        /\ \A x \in DOMAIN j \ {"step", "failed"} : j[x] = job[x]
    BY <2>1, <2>3
  <2> QED BY <2>2, <2>3, <2>4 DEF Without, Goes
<1> QED BY <1>1, <1>2

LEMMA ResetGoes ==
  ASSUME JobTyped, Reset
  PROVE  /\ Goes(IF job.step = "get again" \/ job.kind = "pod" THEN "mirrors" ELSE "setup",
                 Kept3 \cup {"secrets"})
         /\ job.step \in Getting /\ job.todo = <<>>
         /\ at' = ResetHard(at, job.commit) /\ UNCHANGED <<dockerVars, imageVars, cache>>
<1>1. PICK s : s = IF job.step = "get again" \/ job.kind = "pod" THEN "mirrors" ELSE "setup"
  OBVIOUS
<1>2. PICK j : j = [job EXCEPT !.step = s]
  OBVIOUS
<1>3. job' = Without(j, {"old", "changed", "todo"})
  BY <1>1, <1>2 DEF Reset
<1>4. "step" \in DOMAIN job
  BY DEF JobTyped
<1>5. /\ DOMAIN j = DOMAIN job /\ j.step = s
      /\ \A x \in DOMAIN j \ {"step"} : j[x] = job[x]
  BY <1>2, <1>4
<1>6. Goes(s, Kept3 \cup {"secrets"})
  BY <1>3, <1>4, <1>5 DEF Without, Goes, Kept3
<1> QED BY <1>1, <1>6 DEF Reset, Getting

LEMMA SetupGoes ==
  ASSUME JobTyped, Setup
  PROVE  /\ Goes("clean", Kept3) /\ job.step = "setup" /\ StartCleanup
         /\ UNCHANGED <<imageVars, at, cache>>
BY DEF JobTyped, Setup, Goes, Kept3

LEMMA CleanedGoes ==
  ASSUME JobTyped, Cleaned
  PROVE  /\ job.step = "clean" /\ cleanup' = NoCleanup
         /\ UNCHANGED <<images, containers, volumes, imageVars, at, cache>>
         /\ "secrets" \in DOMAIN job'
         /\ job'.secrets = FilteredSecrets(SecretsFile, job.commit.project, job.commit.branch)
         /\ \/ Goes("mirrors", Kept3)
            \/ /\ Goes("mirrors", {"kind", "commit"})
               /\ "failed" \in DOMAIN job' /\ job'.failed = TRUE
            \/ /\ Goes("get again", {"kind", "failed"})
               /\ {"commit", "todo"} \subseteq DOMAIN job' /\ "commit" \in DOMAIN job
               /\ job'.commit = Update(job.commit) /\ job'.todo = job'.commit.sources
<1>1. PICK secrets : secrets = FilteredSecrets(SecretsFile, job.commit.project, job.commit.branch)
  OBVIOUS
<1>2. PICK first : first = [secrets |-> secrets]
  OBVIOUS
<1>3. DOMAIN first = {"secrets"} /\ first.secrets = secrets /\ first["secrets"] = secrets
  BY <1>2
<1>4. PICK j : j = [job EXCEPT !.step = "mirrors"]
  OBVIOUS
<1>5. job.step = "clean" /\ {"step", "kind", "commit", "failed"} \subseteq DOMAIN job
  BY DEF Cleaned, JobTyped, Working, Getting
<1>6. /\ DOMAIN j = DOMAIN job /\ j.step = "mirrors"
      /\ \A x \in DOMAIN j \ {"step"} : j[x] = job[x]
  BY <1>4, <1>5
<1>7. PICK ready : ready = Over(first, j)
  OBVIOUS
<1>8. /\ DOMAIN ready = DOMAIN job \cup {"secrets"}
      /\ \A x \in DOMAIN job \ {"secrets"} : ready[x] = j[x]
      /\ ready.secrets = secrets
  BY <1>3, <1>6, <1>7 DEF Over
<1>9. /\ ready.step = "mirrors" /\ \A x \in Kept3 : ready[x] = job[x] /\ x \in DOMAIN ready
  BY <1>5, <1>6, <1>8 DEF Kept3
<1>10. /\ cleanup' = NoCleanup /\ UNCHANGED <<images, containers, volumes, imageVars, at, cache>>
       /\ \/ job' = ready
          \/ job' = [ready EXCEPT !.failed = TRUE]
          \/ job' = Over([todo |-> Update(job.commit).sources],
                         [ready EXCEPT !.step = "get again", !.commit = Update(@)])
  BY <1>1, <1>2, <1>4, <1>7 DEF Cleaned
<1>11. CASE job' = ready
  BY <1>1, <1>5, <1>8, <1>9, <1>10, <1>11 DEF Goes, Kept3
<1>13. CASE job' = [ready EXCEPT !.failed = TRUE]
  <2>1. /\ DOMAIN job' = DOMAIN ready /\ job'["failed"] = TRUE
        /\ \A x \in DOMAIN ready \ {"failed"} : job'[x] = ready[x]
    BY <1>5, <1>8, <1>13
  <2>2. /\ job'["step"] = "mirrors" /\ job'["kind"] = job["kind"] /\ job'["commit"] = job["commit"]
        /\ job'["secrets"] = secrets /\ {"step", "kind", "commit", "failed", "secrets"} \subseteq DOMAIN job'
    BY <1>5, <1>8, <1>9, <2>1 DEF Kept3
  <2> QED BY <1>1, <1>5, <1>10, <2>1, <2>2 DEF Goes
<1>12. CASE job' = Over([todo |-> Update(job.commit).sources],
                        [ready EXCEPT !.step = "get again", !.commit = Update(@)])
  <2>1. PICK t : t = [todo |-> Update(job.commit).sources]
    OBVIOUS
  <2>5. ready["commit"] = job["commit"] /\ {"step", "commit"} \subseteq DOMAIN ready
    BY <1>5, <1>8, <1>9 DEF Kept3
  <2>2. PICK g : g = [ready EXCEPT !.step = "get again", !.commit = Update(job.commit)]
    OBVIOUS
  <2>3. job' = Over(t, g)
    BY <1>12, <2>1, <2>2, <2>5
  <2>4. DOMAIN t = {"todo"} /\ t["todo"] = Update(job.commit).sources
    BY <2>1
  <2>6. /\ DOMAIN g = DOMAIN ready /\ g["step"] = "get again" /\ g["commit"] = Update(job.commit)
        /\ \A x \in DOMAIN g \ {"step", "commit"} : g[x] = ready[x]
    BY <2>2, <2>5
  <2>7. /\ DOMAIN job' = DOMAIN job \cup {"secrets", "todo"} /\ job'["todo"] = Update(job.commit).sources
        /\ \A x \in DOMAIN g \ {"todo"} : job'[x] = g[x]
    BY <1>8, <2>3, <2>4, <2>6 DEF Over
  <2>8. /\ job'.step = "get again" /\ job'.commit = Update(job.commit)
        /\ job'.todo = job'.commit.sources /\ job'.secrets = secrets
        /\ \A x \in {"kind", "failed"} : job'[x] = job[x]
    <3>1. \A x \in {"step", "commit", "secrets", "kind", "failed"} : x \in DOMAIN g \ {"todo"}
      BY <1>5, <1>8, <2>6
    <3>2. \A x \in {"step", "commit", "secrets", "kind", "failed"} : job'[x] = g[x]
      BY <2>7, <3>1
    <3>3. g["secrets"] = secrets /\ g["kind"] = job["kind"] /\ g["failed"] = job["failed"]
      BY <1>8, <1>9, <2>6, <3>1 DEF Kept3
    <3>4. /\ job'["step"] = "get again" /\ job'["commit"] = Update(job.commit)
          /\ job'["secrets"] = secrets
          /\ job'["kind"] = job["kind"] /\ job'["failed"] = job["failed"]
      BY <2>6, <3>2, <3>3
    <3> QED BY <2>7, <3>4
  <2>9. {"commit", "todo", "secrets", "kind", "failed", "step"} \subseteq DOMAIN job'
    BY <1>5, <2>7
  <2> QED BY <1>1, <1>5, <1>10, <2>3, <2>8, <2>9 DEF Goes
<1> QED BY <1>10, <1>11, <1>12, <1>13

LEMMA OverCarries ==
  ASSUME NEW r, NEW s, Carries(r, s, Kept4), NEW f, DOMAIN f \cap (Kept4 \cup {"step"}) = {}
  PROVE  Carries(Over(f, r), s, Kept4)
<1>1. PICK o : o = Over(f, r)
  OBVIOUS
<1>2. DOMAIN o = DOMAIN r \cup DOMAIN f /\ \A x \in DOMAIN r \ DOMAIN f : o[x] = r[x]
  BY <1>1 DEF Over
<1>3. "step" \in DOMAIN r \ DOMAIN f /\ r["step"] = s
  BY DEF Carries
<1>4. o.step = s /\ "step" \in DOMAIN o
  BY <1>2, <1>3
<1>5. ASSUME NEW x \in Kept4, x \in DOMAIN job PROVE x \in DOMAIN o /\ o[x] = job[x]
  <2>1. x \in DOMAIN r \ DOMAIN f /\ r[x] = job[x]
    BY <1>5 DEF Carries
  <2> QED BY <1>2, <2>1
<1> QED BY <1>1, <1>4, <1>5 DEF Carries

LEMMA StepCarries ==
  ASSUME JobTyped, NEW s
  PROVE  Carries([job EXCEPT !.step = s], s, Kept4)
<1>1. PICK j : j = [job EXCEPT !.step = s]
  OBVIOUS
<1>2. "step" \in DOMAIN job
  BY DEF JobTyped
<1>3. DOMAIN j = DOMAIN job /\ j.step = s /\ \A x \in DOMAIN job \ {"step"} : j[x] = job[x]
  BY <1>1, <1>2
<1> QED BY <1>1, <1>2, <1>3 DEF Carries, Kept4, Kept3

LEMMA CarriesGoes ==
  ASSUME NEW r, NEW s, Carries(r, s, Kept4), Becomes(r)
  PROVE  Goes(s, Kept4) /\ UnchangedElse
BY DEF Carries, Goes, Becomes, UnchangedElse

LEMMA EndedGoes ==
  ASSUME Becomes(Ended(TRUE))
  PROVE  Goes("end", {}) /\ UnchangedElse
BY DEF Ended, Becomes, Goes, UnchangedElse

LEMMA InjectGoes ==
  ASSUME JobTyped, Inject
  PROVE  /\ job.step = "mirrors" /\ UnchangedElse
         /\ Goes("end", {}) \/ Goes(Prepared, Kept4)
<1> DEFINE uriOf(uri) == [uri |-> uri]
           found(web, config) == [web |-> web, config |-> config]
           own == [config |-> Config]
<1>1. job.step = "mirrors" /\ \E web, uri, config :
        LET known == Over(uriOf(uri), [job EXCEPT !.step = Prepared])
        IN \/ Becomes(Over(found(web, config), known))
           \/ Becomes(Ended(TRUE))
           \/ Becomes(Over(own, known))
  BY DEF Inject
<1>2. PICK web, uri, config :
        LET known == Over(uriOf(uri), [job EXCEPT !.step = Prepared])
        IN \/ Becomes(Over(found(web, config), known))
           \/ Becomes(Ended(TRUE))
           \/ Becomes(Over(own, known))
  BY <1>1
<1>3. PICK u, f, c : u = uriOf(uri) /\ f = found(web, config) /\ c = own
  OBVIOUS
<1>4. DOMAIN u = {"uri"} /\ DOMAIN f = {"web", "config"} /\ DOMAIN c = {"config"}
  BY <1>3
<1> HIDE DEF uriOf, found, own
<1>5. /\ DOMAIN u \cap (Kept4 \cup {"step"}) = {}
      /\ DOMAIN f \cap (Kept4 \cup {"step"}) = {}
      /\ DOMAIN c \cap (Kept4 \cup {"step"}) = {}
  BY <1>4 DEF Kept4, Kept3
<1>6. PICK known : known = Over(u, [job EXCEPT !.step = Prepared])
  OBVIOUS
<1>7. Carries(known, Prepared, Kept4)
  BY <1>5, <1>6, StepCarries, OverCarries
<1>8. Carries(Over(f, known), Prepared, Kept4) /\ Carries(Over(c, known), Prepared, Kept4)
  BY <1>5, <1>7, OverCarries
<1>9. Becomes(Over(f, known)) \/ Becomes(Ended(TRUE)) \/ Becomes(Over(c, known))
  BY <1>2, <1>3, <1>6
<1> QED BY <1>1, <1>8, <1>9, CarriesGoes, EndedGoes

LEMMA NoInjectionGoes ==
  ASSUME JobTyped, NoInjection
  PROVE  job.step = "mirrors" /\ UnchangedElse /\ Goes(Prepared, Kept4)
<1> DEFINE uriOf(uri) == [uri |-> uri]
<1>1. PICK j : j = [job EXCEPT !.step = Prepared]
  OBVIOUS
<1>2. Carries(j, Prepared, Kept4)
  BY <1>1, StepCarries
<1>3. job.step = "mirrors" /\ (Becomes(j) \/ \E uri : Becomes(Over(uriOf(uri), j)))
  BY <1>1 DEF NoInjection
<1>4. ASSUME NEW uri PROVE DOMAIN uriOf(uri) \cap (Kept4 \cup {"step"}) = {}
  BY DEF Kept4, Kept3
<1> HIDE DEF uriOf
<1>5. ASSUME NEW uri PROVE Carries(Over(uriOf(uri), j), Prepared, Kept4)
  BY <1>2, <1>4, OverCarries
<1> QED BY <1>2, <1>3, <1>5, CarriesGoes

LEMMA ReadByMockGoes ==
  ASSUME JobTyped, NEW next, ReadByMock(next)
  PROVE  UnchangedElse /\ (Goes("end", {}) \/ Goes(next, Kept4))
<1> DEFINE read(web, config) == [mockWeb |-> web, mock |-> config]
<1>1. PICK j : j = [job EXCEPT !.step = next]
  OBVIOUS
<1>2. Carries(j, next, Kept4)
  BY <1>1, StepCarries
<1>3. Becomes(j) \/ \E web, config : Becomes(Ended(TRUE)) \/ Becomes(Over(read(web, config), j))
  BY <1>1 DEF ReadByMock
<1>4. ASSUME NEW web, NEW config PROVE DOMAIN read(web, config) \cap (Kept4 \cup {"step"}) = {}
  BY DEF Kept4, Kept3
<1> HIDE DEF read
<1>5. ASSUME NEW web, NEW config PROVE Carries(Over(read(web, config), j), next, Kept4)
  BY <1>2, <1>4, OverCarries
<1> QED BY <1>2, <1>3, <1>5, CarriesGoes, EndedGoes

\* The steps that have to do with mirrors.
Preparing == Inject \/ NoInjection \/ InitChroot \/ Shell
LEMMA PreparingGoes ==
  ASSUME JobTyped, Preparing
  PROVE  /\ job.step \in {"mirrors", "chroot", "shell"} /\ UnchangedElse
         /\ \/ Goes("end", {})
            \/ \E s \in {"chroot", "shell", "environ", "run"} :
                 Goes(s, Kept4) /\ (s = "run" => job.step = "mirrors" /\ job.kind = "pod")
<1>1. Prepared \in {"chroot", "run"} /\ (Prepared = "run" => job.kind = "pod")
  BY DEF Prepared
<1>2. CASE Inject
  BY <1>1, <1>2, InjectGoes
<1>3. CASE NoInjection
  BY <1>1, <1>3, NoInjectionGoes
<1>4. CASE InitChroot
  <2>1. job.step = "chroot" /\ ReadByMock("shell")
    BY <1>4 DEF InitChroot
  <2>2. UnchangedElse /\ (Goes("end", {}) \/ Goes("shell", Kept4))
    BY <2>1, ReadByMockGoes
  <2> QED BY <2>1, <2>2
<1>5. CASE Shell
  <2>1. job.step = "shell" /\ ReadByMock("environ")
    BY <1>5 DEF Shell
  <2>2. UnchangedElse /\ (Goes("end", {}) \/ Goes("environ", Kept4))
    BY <2>1, ReadByMockGoes
  <2> QED BY <2>1, <2>2
<1> QED BY <1>2, <1>3, <1>4, <1>5 DEF Preparing

LEMMA EnvironGoes ==
  ASSUME JobTyped, Environ
  PROVE  /\ job.step = "environ" /\ UnchangedElse
         /\ \/ Goes("end", {})
            \/ /\ Goes("run", Kept3 \cup {"secrets"}) /\ {"runtime", "env"} \subseteq DOMAIN job'
               /\ job'.runtime \in Runtimes /\ job'.env # Invalid
               /\ job'.env = Environment(job.commit.requests, job.secrets, job'.runtime)
<1>1. PICK runtime \in Runtimes :
        Becomes(IF Environment(job.commit.requests, job.secrets, runtime) = Invalid THEN Ended(TRUE)
                ELSE Over([runtime |-> runtime, env |-> Environment(job.commit.requests, job.secrets, runtime)],
                          [job EXCEPT !.step = "run"]))
  BY DEF Environ
<1>2. PICK env : env = Environment(job.commit.requests, job.secrets, runtime)
  OBVIOUS
<1>3. job.step = "environ" /\ UnchangedElse
  BY <1>1 DEF Environ, Becomes, UnchangedElse
<1>4. CASE env = Invalid
  BY <1>1, <1>2, <1>3, <1>4 DEF Becomes, Ended, Goes
<1>5. CASE env # Invalid
  <2>1. PICK j : j = [job EXCEPT !.step = "run"]
    OBVIOUS
  <2>2. PICK f : f = [runtime |-> runtime, env |-> env]
    OBVIOUS
  <2>3. job' = Over(f, j)
    BY <1>1, <1>2, <1>5, <2>1, <2>2 DEF Becomes
  <2>4. DOMAIN f = {"runtime", "env"} /\ f["runtime"] = runtime /\ f["env"] = env
    BY <2>2
  <2>5. "step" \in DOMAIN job
    BY DEF JobTyped
  <2>6. /\ DOMAIN j = DOMAIN job /\ j["step"] = "run"
        /\ \A x \in DOMAIN j \ {"step"} : j[x] = job[x]
    BY <2>1, <2>5
  <2>7. /\ DOMAIN job' = DOMAIN job \cup {"runtime", "env"}
        /\ \A x \in DOMAIN job \ {"runtime", "env"} : job'[x] = j[x]
        /\ job'["runtime"] = runtime /\ job'["env"] = env
    BY <2>3, <2>4, <2>6 DEF Over
  <2>8. Goes("run", Kept3 \cup {"secrets"})
    BY <2>5, <2>6, <2>7 DEF Goes, Kept3
  <2>9. /\ {"runtime", "env"} \subseteq DOMAIN job'
        /\ job'.runtime = runtime /\ job'.env = env
    BY <2>7
  <2> QED BY <1>2, <1>3, <1>5, <2>8, <2>9
<1> QED BY <1>4, <1>5

\* What a step of the job leaves to the next, whatever else it does.
LEMMA JobStep ==
  ASSUME JobTyped, Next
  PROVE  JobTyped'
<1>1. JobTyped' <=> /\ "step" \in DOMAIN job'
                    /\ job'.step \in Working =>
                         {"kind", "commit", "failed"} \subseteq DOMAIN job' /\ job'.commit \in Commits
                    /\ job'.step \in Getting => "todo" \in DOMAIN job'
  BY DEF JobTyped
<1>2. ASSUME NEW s, NEW xs, Goes(s, xs), s \notin Getting,
             s \in Working => Kept3 \subseteq xs /\ job.step \in Working
      PROVE  JobTyped'
  BY <1>1, <1>2 DEF JobTyped, Goes, Kept3
<1>20. ASSUME NEW s, Goes(s, Kept3 \cup {"secrets"}), s \notin Getting, job.step \in Working
       PROVE  JobTyped'
  <2>1. Kept3 \subseteq Kept3 \cup {"secrets"}
    OBVIOUS
  <2> QED BY <1>2, <1>20, <2>1
<1>3. ASSUME NEW kind, Start(kind) PROVE JobTyped'
  <2>1. PICK c \in Commits :
          /\ job'.step = "get" /\ job'.commit = c
          /\ DOMAIN job' = {"step", "kind", "commit", "todo", "failed", "changed", "old"}
    BY <1>3, StartGoes
  <2> QED BY <1>1, <2>1
<1>4. CASE GetSource
  <2>1. /\ Goes(job.step, Kept3 \cup {"secrets"}) /\ job.step \in Getting
        /\ "todo" \in DOMAIN job'
    BY <1>4, GetSourceGoes
  <2> QED BY <1>1, <2>1 DEF JobTyped, Goes, Kept3, Working
<1>5. CASE GetFails
  <2>1. CASE Goes("end", {})
    BY <1>2, <2>1 DEF Working, Getting
  <2>2. CASE /\ Goes("mirrors", {"kind", "commit", "secrets"}) /\ job.step = "get again"
             /\ "failed" \in DOMAIN job'
    BY <1>1, <2>2 DEF JobTyped, Goes, Working, Getting
  <2> QED BY <1>5, <2>1, <2>2, GetFailsGoes
<1>6. CASE Reset
  <2>1. PICK s : s = IF job.step = "get again" \/ job.kind = "pod" THEN "mirrors" ELSE "setup"
    OBVIOUS
  <2>2. Goes(s, Kept3 \cup {"secrets"}) /\ job.step \in Getting
    BY <1>6, <2>1, ResetGoes
  <2>3. s \notin Getting /\ job.step \in Working
    BY <2>1, <2>2 DEF Working, Getting
  <2> QED BY <1>20, <2>2, <2>3
<1>7. CASE Setup
  BY <1>2, <1>7, SetupGoes DEF Working, Getting
<1>8. CASE Clean
  BY <1>1, <1>8 DEF Clean, JobTyped
<1>9. CASE Cleaned
  <2>1. CASE Goes("mirrors", Kept3)
    BY <1>2, <1>9, <2>1, CleanedGoes DEF Working, Getting
  <2>3. job.step \in Working
    BY <1>9, CleanedGoes DEF Working
  <2>2. CASE /\ Goes("get again", {"kind", "failed"})
             /\ {"commit", "todo"} \subseteq DOMAIN job' /\ job'.commit = Update(job.commit)
    <3>2. job'.commit \in Commits
      BY <2>2, <2>3 DEF JobTyped, Commits, Update
    <3> QED BY <1>1, <2>2, <2>3, <3>2 DEF JobTyped, Goes
  <2>4. CASE Goes("mirrors", {"kind", "commit"}) /\ "failed" \in DOMAIN job'
    BY <1>1, <2>3, <2>4 DEF JobTyped, Goes, Working, Getting
  <2> QED BY <1>9, <2>1, <2>2, <2>4, CleanedGoes
<1>11. CASE Preparing
  <2>1. CASE Goes("end", {})
    BY <1>2, <2>1 DEF Working, Getting
  <2>2. CASE \E s \in {"chroot", "shell", "environ", "run"} : Goes(s, Kept4)
    <3>1. PICK s \in {"chroot", "shell", "environ", "run"} : Goes(s, Kept4)
      BY <2>2
    <3>2. s \notin Getting /\ job.step \in Working
      BY <1>11, PreparingGoes DEF Working, Getting
    <3> QED BY <1>20, <3>1, <3>2 DEF Kept4
  <2> QED BY <1>11, <2>1, <2>2, PreparingGoes
<1>13. CASE Environ
  <2>1. CASE Goes("end", {})
    BY <1>2, <2>1 DEF Working, Getting
  <2>2. CASE Goes("run", Kept3 \cup {"secrets"})
    <3>1. "run" \notin Getting /\ job.step \in Working
      BY <1>13, EnvironGoes DEF Working, Getting
    <3> QED BY <1>20, <2>2, <3>1
  <2> QED BY <1>13, <2>1, <2>2, EnvironGoes
<1>14. ASSUME NEW f, job' = Ended(f) PROVE JobTyped'
  BY <1>1, <1>14 DEF Ended, Working, Getting
<1>15. CASE Run
  BY <1>14, <1>15 DEF Run
<1>16. CASE RunUpdate
  BY <1>1, <1>16 DEF RunUpdate, Working, Getting
<1>17. CASE UpdateImages
  BY <1>1, <1>17 DEF UpdateImages, JobTyped
<1>18. CASE UpdateEnds
  BY <1>14, <1>18 DEF UpdateEnds
<1>19. CASE End
  BY <1>1, <1>19 DEF End, NoJob, Working, Getting
<1> QED
  BY <1>3, <1>4, <1>5, <1>6, <1>7, <1>8, <1>9, <1>11, <1>13, <1>15, <1>16, <1>17,
     <1>18, <1>19 DEF Next, Preparing
-----------------------------------------------------------------------------
(* The clean-up of a node's jobs.                                          *)

DockerInv ==
  /\ CleanupInv
  /\ job.step # "clean" => cleanup = NoCleanup

LEMMA DockerStart == ASSUME Init PROVE DockerInv
<1>1. images = Nothing /\ cleanup = NoCleanup /\ job = NoJob
  BY DEF Init, DockerInit
<1>2. DOMAIN images = {}
  BY <1>1 DEF Nothing
<1>3. cleanup.step = "idle" /\ IsCleanup(cleanup)
  BY <1>1 DEF NoCleanup, IsCleanup
<1> QED BY <1>1, <1>2, <1>3 DEF DockerInv, CleanupInv, WithAncestors

LEMMA CleanupStays ==
  ASSUME CleanupInv, UNCHANGED <<images, containers>>, IsCleanup(cleanup)',
         cleanup'.step \notin {"images", "volumes", "failed"}
  PROVE  CleanupInv'
BY DEF CleanupInv, WithAncestors

LEMMA NoCleanupIs == IsCleanup(NoCleanup) /\ NoCleanup.step = "idle"
BY DEF NoCleanup, IsCleanup

LEMMA DockerStep ==
  ASSUME JobTyped, DockerInv, [Next]_vars
  PROVE  DockerInv'
<1>1. ASSUME UNCHANGED dockerVars, job'.step # "clean", job.step # "clean" PROVE DockerInv'
  BY <1>1 DEF dockerVars, DockerInv, CleanupInv, IsCleanup, WithAncestors, Removing, Children
<1>2. ASSUME UNCHANGED dockerVars, job' = job PROVE DockerInv'
  BY <1>2 DEF dockerVars, DockerInv, CleanupInv, IsCleanup, WithAncestors, Removing, Children
<1>3. ASSUME job.step # "clean", job'.step # "clean", LeaveAll PROVE DockerInv'
  <2>1. CASE UNCHANGED dockerVars
    BY <1>1, <1>3, <2>1
  <2>2. CASE \E l \in Leavings : Leftovers(l.images, l.tags, l.containers)
    BY <1>3, <2>2, LeftoversStep DEF DockerInv
  <2> QED BY <1>3, <2>1, <2>2 DEF LeaveAll
<1>4. ASSUME NEW kind, Start(kind) PROVE DockerInv'
  BY <1>1, <1>4, StartGoes DEF Start
<1>5. CASE GetSource
  BY <1>1, <1>5, GetSourceGoes DEF Goes, Getting
<1>6. CASE GetFails
  BY <1>1, <1>6, GetFailsGoes DEF Goes, UnchangedElse, GetFails
<1>7. CASE Reset
  BY <1>1, <1>7, ResetGoes DEF Goes, Getting
<1>8. CASE Setup
  <2>1. job'.step = "clean" /\ StartCleanup
    BY <1>8, SetupGoes DEF Goes
  <2>2. cleanup' = [NoCleanup EXCEPT !.step = "containers", !.todo = DOMAIN containers]
    BY <2>1 DEF StartCleanup
  <2>3. cleanup'.step = "containers" /\ IsCleanup(cleanup)'
    BY <2>2 DEF NoCleanup, IsCleanup
  <2>4. CleanupInv'
    BY <2>1, <2>3, CleanupStays DEF StartCleanup, DockerInv
  <2> QED BY <2>1, <2>4 DEF DockerInv
<1>9. CASE Clean
  BY <1>9, CleanupStep DEF Clean, DockerInv
<1>10. CASE Cleaned
  <2>1. cleanup' = NoCleanup /\ UNCHANGED <<images, containers>>
    BY <1>10, CleanedGoes
  <2>2. CleanupInv'
    BY <2>1, NoCleanupIs, CleanupStays DEF DockerInv, IsCleanup
  <2> QED BY <2>1, <2>2 DEF DockerInv
<1>11. CASE Preparing
  BY <1>1, <1>11, PreparingGoes DEF Goes, UnchangedElse
<1>13. CASE Environ
  BY <1>1, <1>13, EnvironGoes DEF Goes, UnchangedElse
<1>14. \A f : Ended(f).step # "clean"
  BY DEF Ended
<1>15. CASE Run
  BY <1>3, <1>14, <1>15 DEF Run
<1>16. CASE RunUpdate
  BY <1>1, <1>16 DEF RunUpdate
<1>17. CASE UpdateImages
  BY <1>2, <1>17 DEF UpdateImages
<1>18. CASE UpdateEnds
  BY <1>3, <1>14, <1>18 DEF UpdateEnds
<1>19. CASE End
  BY <1>1, <1>19 DEF End, NoJob
<1>20. CASE UNCHANGED vars
  BY <1>2, <1>20 DEF vars
<1> QED
  BY <1>4, <1>5, <1>6, <1>7, <1>8, <1>9, <1>10, <1>11, <1>13, <1>15, <1>16, <1>17,
     <1>18, <1>19, <1>20 DEF Next, Preparing

\* The invariants of the job and of its clean-up.
THEOREM JobsAreTyped == Spec => []JobTyped
<1>1. Init => JobTyped
  BY DEF Init, NoJob, JobTyped, Working, Getting
<1>2. JobTyped /\ [Next]_vars => JobTyped'
  <2>1. JobTyped /\ UNCHANGED vars => JobTyped'
    BY DEF JobTyped, vars
  <2> QED BY <2>1, JobStep
<1> QED BY <1>1, <1>2, PTL DEF Spec

THEOREM DockerInvHolds == Spec => []DockerInv
<1>1. JobTyped /\ JobTyped' /\ DockerInv /\ [Next]_vars => DockerInv'
  BY DockerStep
<1>2. Init => DockerInv
  BY DockerStart
<1> QED BY <1>1, <1>2, JobsAreTyped, PTL DEF Spec

\* What the clean-up of a node leaves, of whatever jobs: once the images are
\* done exactly those of whitelisted repositories and their ancestors are
\* left, no step takes one of these, and it fails only of a container.
THEOREM CleanupIsExactAlways == Spec => []CleanupIsExact
<1>1. DockerInv => CleanupIsExact
  BY DEF DockerInv, CleanupInv, Removing, CleanupIsExact
<1> QED BY <1>1, DockerInvHolds, PTL

-----------------------------------------------------------------------------
(* The update of parent images.                                            *)

Follows(p, f, i) == i \in DOMAIN p[f] /\ p[f][i] # {}
TheRef(p, f, i) == CHOOSE r \in p[f][i] : TRUE

\* A plan is made of the Dockerfiles that are given; what has a place in it
\* has an image.
Planned(p, given) ==
  /\ DOMAIN p \subseteq DOMAIN given
  /\ \A f \in DOMAIN p :
       /\ Len(given[f]) \in Nat /\ DOMAIN given[f] = 1..Len(given[f])
       /\ \A i \in DOMAIN p[f] :
            /\ i \in DOMAIN given[f] /\ "image" \in DOMAIN given[f][i]
            /\ p[f][i] = {} \/ \E ref : p[f][i] = {ref}

\* What becomes of an instruction, and the beginning of what becomes of a file.
NewOf(p, latest, g, f, i) ==
  IF Follows(p, f, i) THEN [g EXCEPT !.image = latest[TheRef(p, f, i)]] ELSE g
Cut(p, latest, given, f, n) == [i \in 1..n |-> NewOf(p, latest, given[f][i], f, i)]
Whole(p, latest, given, f) == Cut(p, latest, given, f, Len(given[f]))

TodoIs(todo, p) ==
  todo \in Seq(DOMAIN p) /\ \A i, k \in 1..Len(todo) : todo[i] = todo[k] => i = k

\* A reference that is looked up has the image some registry said.
Known(ref, latest, seen, sha) ==
  /\ ref \in DOMAIN latest
  /\ \E r \in seen : CanTell(r[ref], sha) /\ latest[ref] = LatestImage(ref, r[ref], sha)
Learnt(p, refs, latest, seen, sha) == \A ref \in RefsOf(p) \ refs : Known(ref, latest, seen, sha)

FilesAre(d, p, latest, given) ==
  /\ DOMAIN d = DOMAIN given
  /\ \A f \in DOMAIN given :
       \/ d[f] = given[f]
       \/ f \in DOMAIN p /\ \E n \in 0..Len(given[f]) : d[f] = Cut(p, latest, given, f, n)

Pieces(p, latest, given) ==
  {<<f, Cut(p, latest, given, f, n)>> : f \in DOMAIN p, n \in Nat}
Fits(piece, given) == Len(piece[2]) <= Len(given[piece[1]])
BufferIs(unsaved, p, latest, given) ==
  unsaved \in Seq({c \in Pieces(p, latest, given) : Fits(c, given)})

\* The report names what is new in the Dockerfiles done so far.
ReportIs(report, todo, p, latest, given) ==
  \A n : n \in report <=>
    \E f \in DOMAIN p \ ToSet(todo) : \E i \in DOMAIN given[f] :
      /\ NewOf(p, latest, given[f][i], f, i) # given[f][i]
      /\ n = <<f, i, NewOf(p, latest, given[f][i], f, i).image>>

\* While nothing fails each Dockerfile is still to do, in a buffer, or done.
Complete(d, todo, unsaved, p, latest, given) ==
  /\ \A f \in DOMAIN p : f \in ToSet(todo) \/ (\E c \in ToSet(unsaved) : c[1] = f)
                         \/ d[f] = Whole(p, latest, given, f)
  /\ \A c \in ToSet(unsaved) : c[2] = Whole(p, latest, given, c[1])

Untouched(d, todo, given) == \A f \in ToSet(todo) : d[f] = given[f]

UpdateFields == {"step", "given", "todo", "plan", "refs", "latest", "sha", "dry", "seen", "report",
                 "unsaved", "failed"}
HasFields(u) == UpdateFields \subseteq DOMAIN u

UpdateData ==
  /\ HasFields(update)
  /\ Planned(update.plan, update.given) /\ TodoIs(update.todo, update.plan)
  /\ Learnt(update.plan, update.refs, update.latest, update.seen, update.sha)
  /\ registry \in update.seen
  /\ FilesAre(dockerfiles, update.plan, update.latest, update.given)
  /\ BufferIs(update.unsaved, update.plan, update.latest, update.given)
  /\ ReportIs(update.report, update.todo, update.plan, update.latest, update.given)

Begun ==
  /\ ToSet(update.todo) = DOMAIN update.plan
  /\ update.unsaved = <<>> /\ dockerfiles = update.given

UpdateSteps == {"inspect", "write", "close", "done", "failed"}
UpdateControl ==
  /\ update.step \in UpdateSteps
  /\ update.step = "inspect" \/ update.refs # {} => Begun
  /\ update.step \in {"write", "close", "done"} => update.refs = {}
  /\ update.dry => update.unsaved = <<>> /\ dockerfiles = update.given
  /\ update.step = "write" => Untouched(dockerfiles, update.todo, update.given)
  /\ update.step \in {"inspect", "write", "done"} => ~update.failed
  /\ update.step \in {"close", "done"} /\ ~update.failed => update.todo = <<>>
  /\ update.step = "done" => update.unsaved = <<>>
  /\ update.step \in {"write", "close", "done"} /\ ~update.failed /\ ~update.dry =>
       Complete(dockerfiles, update.todo, update.unsaved, update.plan, update.latest, update.given)

UpdateInv == update.step # "idle" => UpdateData /\ UpdateControl

\* Beginnings of a file.
LEMMA CutOfCut ==
  ASSUME NEW p, NEW latest, NEW given, NEW f, NEW m \in Nat, NEW n \in 0..m
  PROVE  /\ SubSeq(Cut(p, latest, given, f, m), 1, n) = Cut(p, latest, given, f, n)
         /\ Len(Cut(p, latest, given, f, m)) = m
         /\ Cut(p, latest, given, f, 0) = <<>>
<1> DEFINE e(i) == NewOf(p, latest, given[f][i], f, i)
           S == {e(i) : i \in 1..m}
<1>1. PICK s : s = [i \in 1..m |-> e(i)]
  OBVIOUS
<1>2. s = Cut(p, latest, given, f, m)
  BY <1>1 DEF Cut
<1>3. s \in Seq(S) /\ Len(s) = m /\ \A i \in 1..m : s[i] = e(i)
  <2>1. s \in [1..m -> S] /\ \A i \in 1..m : s[i] = e(i)
    BY <1>1
  <2> HIDE DEF S, e
  <2>2. s \in Seq(S)
    BY <2>1
  <2>3. Len(s) = m
    <3>1. Len(s) \in Nat /\ 1..Len(s) = 1..m
      BY <2>1, <2>2
    <3>2. PICK k \in Nat : k = Len(s) /\ 1..k = 1..m
      BY <3>1
    <3>3. k <= m
      <4>1. k = 0 \/ k \in 1..k
        BY <3>2
      <4> QED BY <3>2, <4>1
    <3>4. m <= k
      <4>1. m = 0 \/ m \in 1..m
        OBVIOUS
      <4> QED BY <3>2, <4>1
    <3> QED BY <3>2, <3>3, <3>4
  <2> QED BY <2>1, <2>2, <2>3
<1>4. PICK t : t = SubSeq(s, 1, n)
  OBVIOUS
<1>5. t \in Seq(S) /\ Len(t) = n /\ \A i \in 1..n : t[i] = e(i)
  <2>1. 1 \in Int /\ n \in Int /\ \A i \in 1..n : i \in 1..m
    OBVIOUS
  <2>2. \A i \in 1..n : s[i] \in S
    BY <1>3, <2>1
  <2> HIDE DEF S, e
  <2>3. /\ SubSeq(s, 1, n) \in Seq(S)
        /\ Len(SubSeq(s, 1, n)) = IF 1 <= n THEN n - 1 + 1 ELSE 0
        /\ \A i \in 1..(n - 1 + 1) : SubSeq(s, 1, n)[i] = s[1 + i - 1]
    BY <2>1, <2>2, SubSeqProperties
  <2>4. Len(t) = n
    BY <1>4, <2>3
  <2>5. ASSUME NEW i \in 1..n PROVE t[i] = e(i)
    <3>1. i \in 1..(n - 1 + 1) /\ 1 + i - 1 = i /\ i \in 1..m
      OBVIOUS
    <3> QED BY <1>3, <1>4, <2>3, <3>1
  <2> QED BY <1>4, <2>3, <2>4, <2>5
<1>6. t = [i \in 1..n |-> e(i)]
  <2> HIDE DEF S, e
  <2>1. DOMAIN t = 1..n /\ t = [i \in DOMAIN t |-> t[i]]
    BY <1>5
  <2> QED BY <1>5, <2>1
<1>7. t = Cut(p, latest, given, f, n)
  BY <1>6 DEF Cut
<1>8. Cut(p, latest, given, f, 0) = <<>>
  <2>1. 1..0 = {}
    OBVIOUS
  <2> QED BY <2>1 DEF Cut
<1> QED BY <1>2, <1>3, <1>4, <1>7, <1>8

\* Steps that change neither the files nor the plan, and only learn more.
SameData(x) == update'[x] = update[x]
LEMMA UpdateDataStays ==
  ASSUME UpdateData, UNCHANGED dockerfiles, HasFields(update'),
         \A x \in {"given", "todo", "plan", "refs", "latest", "sha", "report", "unsaved"} : SameData(x),
         update.seen \subseteq update'.seen, registry' \in update'.seen
  PROVE  UpdateData'
<1>1. /\ update'.given = update.given /\ update'.todo = update.todo /\ update'.plan = update.plan
      /\ update'.refs = update.refs /\ update'.latest = update.latest /\ update'.sha = update.sha
      /\ update'.report = update.report /\ update'.unsaved = update.unsaved
  BY DEF SameData
<1>2. Learnt(update.plan, update.refs, update.latest, update'.seen, update.sha)
  BY DEF UpdateData, Learnt, Known
<1> QED BY <1>1, <1>2 DEF UpdateData

\* What a step assigns to fields, and what it leaves.
Sets(X, u, v) ==
  /\ HasFields(v)
  /\ \A x \in UpdateFields \ X : v[x] = u[x]

LEMMA StartUpdateStep ==
  ASSUME NEW c \in Commits, StartUpdate(c.dockerfiles, c.order)
  PROVE  UpdateInv'
<1> DEFINE given == c.dockerfiles
           order == c.order
           readable == ToSet(order) \subseteq DOMAIN given /\ ~Unreadable(given, order)
           read == IF readable THEN order ELSE <<>>
           plan == [f \in ToSet(read) |-> FollowedRefs(given[f])]
<1>1. given = c.dockerfiles /\ order = c.order
  OBVIOUS
<1>2. readable \in BOOLEAN /\ (readable => ToSet(order) \subseteq DOMAIN given)
  OBVIOUS
<1>3. /\ readable => read = order
      /\ ~readable => read = <<>>
  OBVIOUS
<1>4. plan = [f \in ToSet(read) |-> FollowedRefs(given[f])]
  OBVIOUS
<1>5. dockerfiles' = given
  BY DEF StartUpdate
<1>6. PICK sha, dry \in BOOLEAN :
        update' = [step |-> IF readable THEN "inspect" ELSE "failed", given |-> given,
                   todo |-> read, plan |-> plan,
                   refs |-> UNION {UNION Range(plan[f]) : f \in ToSet(read)},
                   latest |-> Unknown, sha |-> sha, dry |-> dry, seen |-> {registry'},
                   report |-> {}, unsaved |-> <<>>, failed |-> ~readable]
  BY Zenon DEF StartUpdate
<1> HIDE DEF given, order, readable, read, plan
<1>7. /\ update'.given = given /\ update'.todo = read /\ update'.plan = plan
      /\ update'.refs = UNION {UNION Range(plan[f]) : f \in ToSet(read)}
      /\ update'.latest = Unknown /\ update'.sha = sha /\ update'.dry = dry
      /\ update'.seen = {registry'} /\ update'.report = {} /\ update'.unsaved = <<>>
      /\ update'.step = IF readable THEN "inspect" ELSE "failed"
  BY <1>6
<1>8. HasFields(update') /\ update'.failed = ~readable
  <2>1. HasFields(update')
    BY <1>6 DEF HasFields, UpdateFields
  <2> QED BY <1>6, <2>1
<1>9. DOMAIN plan = ToSet(read) /\ ToSet(read) \subseteq DOMAIN given /\ ToSet(<<>>) = {}
  <2>1. ToSet(<<>>) = {}
    BY DEF ToSet
  <2>2. ToSet(read) \subseteq DOMAIN given
    BY <1>2, <1>3, <2>1
  <2>3. DOMAIN plan = ToSet(read)
    BY <1>4
  <2> QED BY <2>1, <2>2, <2>3
<1>10. TodoIs(read, plan)
  <2>1. CASE readable
    <3>1. /\ order \in Seq(ToSet(order))
          /\ \A i, k \in DOMAIN order : order[i] = order[k] => i = k
      BY <1>1, DockerfilesAssumption
    <3>2. DOMAIN order = 1..Len(order)
      BY <3>1
    <3> QED BY <1>3, <1>9, <2>1, <3>1, <3>2 DEF TodoIs
  <2>2. CASE ~readable
    <3>1. read = <<>>
      BY <1>3, <2>2
    <3> QED BY <3>1 DEF TodoIs
  <2> QED BY <2>1, <2>2
<1>11. Planned(plan, given)
  <2>1. SUFFICES ASSUME NEW f \in DOMAIN plan
                 PROVE  /\ Len(given[f]) \in Nat /\ DOMAIN given[f] = 1..Len(given[f])
                        /\ \A i \in DOMAIN plan[f] :
                             /\ i \in DOMAIN given[f] /\ "image" \in DOMAIN given[f][i]
                             /\ plan[f][i] = {} \/ \E ref : plan[f][i] = {ref}
    BY <1>9 DEF Planned
  <2>2. plan[f] = FollowedRefs(given[f]) /\ f \in DOMAIN given
    BY <1>4, <1>9
  <2>3. given[f] \in Seq(ToSet(given[f]))
    BY <1>1, <2>2, DockerfilesAssumption
  <2>4. Len(given[f]) \in Nat /\ DOMAIN given[f] = 1..Len(given[f])
    BY <2>3
  <2>5. SUFFICES ASSUME NEW i \in DOMAIN plan[f]
                 PROVE  /\ i \in DOMAIN given[f] /\ "image" \in DOMAIN given[f][i]
                        /\ plan[f][i] = {} \/ \E ref : plan[f][i] = {ref}
    BY <2>4
  <2>6. i \in DOMAIN given[f] /\ given[f][i].kind = "FROM" /\ plan[f][i] = FollowedBy(given[f], i)
    BY <2>2 DEF FollowedRefs
  <2>7. "image" \in DOMAIN given[f][i]
    BY <1>1, <2>2, <2>6, DockerfilesAssumption
  <2>8. plan[f][i] = {} \/ \E ref : plan[f][i] = {ref}
    BY <2>6 DEF FollowedBy
  <2> QED BY <2>6, <2>7, <2>8
<1>12. RefsOf(plan) = UNION {UNION Range(plan[f]) : f \in ToSet(read)}
  BY <1>9 DEF RefsOf
<1>13. Learnt(plan, RefsOf(plan), Unknown, {registry'}, sha)
  BY DEF Learnt
<1>14. FilesAre(given, plan, Unknown, given) /\ BufferIs(<<>>, plan, Unknown, given)
  BY DEF FilesAre, BufferIs
<1>15. ReportIs({}, read, plan, Unknown, given)
  BY <1>9 DEF ReportIs
<1>16. UpdateData'
  BY <1>5, <1>7, <1>8, <1>10, <1>11, <1>12, <1>13, <1>14, <1>15 DEF UpdateData
<1>17. Begun'
  BY <1>5, <1>7, <1>9 DEF Begun
<1>18. UpdateControl'
  <2>1. update'.step \in {"inspect", "failed"} /\ (update'.step = "inspect" => readable)
    BY <1>7
  <2> QED BY <1>5, <1>7, <1>8, <1>17, <2>1, Zenon DEF UpdateControl, UpdateSteps
<1> QED BY <1>16, <1>18 DEF UpdateInv

LEMMA InspectStep ==
  ASSUME UpdateData, UpdateControl, NEW ref \in update.refs, CanTell(registry[ref], update.sha),
         update.step = "inspect", UNCHANGED <<dockerfiles, registry>>,
         update' = [update EXCEPT !.refs = @ \ {ref},
                                  !.latest = Over(Entry(ref, LatestImage(ref, registry[ref], update.sha)), @)]
  PROVE  UpdateInv'
<1>1. PICK image : image = LatestImage(ref, registry[ref], update.sha)
  OBVIOUS
<1>2. PICK latest : latest = Over(Entry(ref, image), update.latest)
  OBVIOUS
<1>3. update' = [update EXCEPT !.refs = @ \ {ref}, !.latest = latest]
  BY <1>1, <1>2, Zenon
<1>4. HasFields(update)
  BY DEF UpdateData
<1>5. Sets({"refs", "latest"}, update, update') /\ update'.refs = update.refs \ {ref}
      /\ update'.latest = latest
  BY <1>3, <1>4 DEF HasFields, Sets, UpdateFields
<1>6. /\ update'.given = update.given /\ update'.todo = update.todo /\ update'.plan = update.plan
      /\ update'.sha = update.sha /\ update'.dry = update.dry /\ update'.seen = update.seen
      /\ update'.report = update.report /\ update'.unsaved = update.unsaved
      /\ update'.step = update.step /\ update'.failed = update.failed
  BY <1>5, Zenon DEF Sets, UpdateFields
<1>7. latest[ref] = image /\ ref \in DOMAIN latest
      /\ \A x \in DOMAIN update.latest \ {ref} : x \in DOMAIN latest /\ latest[x] = update.latest[x]
  BY <1>2 DEF Over, Entry
<1>8. Learnt(update.plan, update.refs \ {ref}, latest, update.seen, update.sha)
  <2>1. SUFFICES ASSUME NEW x \in RefsOf(update.plan) \ (update.refs \ {ref})
                 PROVE  Known(x, latest, update.seen, update.sha)
    BY DEF Learnt
  <2>2. CASE x = ref
    <3>1. registry \in update.seen
      BY DEF UpdateData
    <3> QED BY <1>1, <1>7, <2>2, <3>1 DEF Known
  <2>3. CASE x # ref
    <3>1. Known(x, update.latest, update.seen, update.sha)
      BY <2>1, <2>3 DEF UpdateData, Learnt
    <3> QED BY <1>7, <2>3, <3>1 DEF Known
  <2> QED BY <2>2, <2>3
<1>9. Begun
  BY DEF UpdateControl
<1>10. /\ FilesAre(dockerfiles, update.plan, latest, update.given)
       /\ BufferIs(update.unsaved, update.plan, latest, update.given)
       /\ ReportIs(update.report, update.todo, update.plan, latest, update.given)
  <2>1. FilesAre(dockerfiles, update.plan, latest, update.given)
    BY <1>9 DEF Begun, FilesAre
  <2>2. BufferIs(update.unsaved, update.plan, latest, update.given)
    BY <1>9 DEF Begun, BufferIs
  <2>3. ReportIs(update.report, update.todo, update.plan, update.latest, update.given)
    BY DEF UpdateData
  <2>4. ReportIs(update.report, update.todo, update.plan, latest, update.given)
    BY <1>9, <2>3 DEF Begun, ReportIs
  <2> QED BY <2>1, <2>2, <2>4
<1>11. UpdateData'
  BY <1>5, <1>6, <1>8, <1>10 DEF UpdateData, Sets
<1>12. Begun'
  BY <1>6, <1>9 DEF Begun
<1>13. UpdateControl'
  BY <1>6, <1>12 DEF UpdateControl
<1> QED BY <1>11, <1>13 DEF UpdateInv

\* Steps of the step alone.
LEMMA UpdateMoves ==
  ASSUME UpdateData, UpdateControl, NEW step \in UpdateSteps, NEW failed \in {TRUE, update.failed},
         UNCHANGED <<dockerfiles, registry>>,
         update' = [update EXCEPT !.step = step, !.failed = failed],
         UpdateControl'
  PROVE  UpdateInv'
<1>1. HasFields(update)
  BY DEF UpdateData
<1>2. Sets({"step", "failed"}, update, update')
  BY <1>1 DEF HasFields, Sets, UpdateFields
<1>3. /\ update'.seen = update.seen
      /\ \A x \in {"given", "todo", "plan", "refs", "latest", "sha", "report", "unsaved"} : SameData(x)
  BY <1>2 DEF Sets, UpdateFields, SameData
<1>4. update.seen \subseteq update'.seen /\ registry' \in update'.seen /\ UNCHANGED dockerfiles
  BY <1>3 DEF UpdateData
<1>5. UpdateData'
  BY <1>2, <1>3, <1>4, UpdateDataStays DEF Sets
<1> QED BY <1>5 DEF UpdateInv

\* The fields that such steps keep.
LEMMA MovesKeep ==
  ASSUME HasFields(update), NEW step, NEW failed,
         update' = [update EXCEPT !.step = step, !.failed = failed]
  PROVE  /\ update'.given = update.given /\ update'.todo = update.todo /\ update'.plan = update.plan
         /\ update'.refs = update.refs /\ update'.latest = update.latest /\ update'.dry = update.dry
         /\ update'.unsaved = update.unsaved
         /\ update'.step = step /\ update'.failed = failed
BY DEF HasFields, UpdateFields

\* The next Dockerfile.
LEMMA TodoGoesOn ==
  ASSUME UpdateData, update.todo # <<>>, NEW f, NEW rest, f = Head(update.todo), rest = Tail(update.todo)
  PROVE  /\ f \in DOMAIN update.plan /\ TodoIs(rest, update.plan)
         /\ ToSet(update.todo) = ToSet(rest) \cup {f} /\ f \notin ToSet(rest)
<1>1. PICK t, P : t = update.todo /\ P = DOMAIN update.plan
  OBVIOUS
<1>2. t \in Seq(P) /\ t # <<>> /\ \A i, k \in 1..Len(t) : t[i] = t[k] => i = k
  BY <1>1 DEF UpdateData, TodoIs
<1>3. /\ Head(t) \in P /\ Tail(t) \in Seq(P) /\ Len(Tail(t)) = Len(t) - 1
      /\ \A i \in 1..Len(Tail(t)) : Tail(t)[i] = t[i + 1]
  BY <1>2, HeadTailProperties
<1>4. Len(t) \in Nat /\ Len(t) > 0 /\ f = t[1] /\ rest = Tail(t) /\ DOMAIN t = 1..Len(t)
      /\ DOMAIN rest = 1..Len(rest) /\ rest \in Seq(P)
  <2>1. Len(t) \in Nat /\ DOMAIN t = 1..Len(t) /\ Head(t) = t[1]
    BY <1>2
  <2>2. Len(t) > 0
    BY <1>2, EmptySeq
  <2> QED BY <1>1, <1>3, <2>1, <2>2
<1>5. ASSUME NEW i \in 1..Len(rest), NEW k \in 1..Len(rest), rest[i] = rest[k] PROVE i = k
  <2>1. ASSUME NEW x \in 1..Len(rest) PROVE x + 1 \in 1..Len(t) /\ rest[x] = t[x + 1]
    <3>1. /\ Len(t) \in Nat /\ Len(rest) = Len(t) - 1
          /\ \A y \in 1..Len(rest) : rest[y] = t[y + 1]
      BY <1>3, <1>4, Zenon
    <3>2. x + 1 \in 1..Len(t)
      BY <3>1
    <3>3. rest[x] = t[x + 1]
      BY <3>1, Zenon
    <3> QED BY <3>2, <3>3
  <2>2. i + 1 = k + 1
    BY <1>2, <1>5, <2>1
  <2> QED BY <2>2
<1>6. ASSUME NEW i \in 1..Len(t) PROVE t[i] \in ToSet(rest) \cup {f}
  <2>1. CASE i = 1
    BY <1>4, <2>1
  <2>2. CASE i # 1
    <3>1. i - 1 \in 1..Len(rest) /\ (i - 1) + 1 = i
      BY <1>3, <1>4, <2>2
    <3>2. rest[i - 1] = t[i]
      BY <1>3, <1>4, <3>1
    <3> QED BY <1>4, <3>1, <3>2 DEF ToSet
  <2> QED BY <2>1, <2>2
<1>7. ASSUME NEW i \in 1..Len(rest) PROVE rest[i] \in ToSet(t) /\ rest[i] # f
  <2>1. i + 1 \in 1..Len(t) /\ 1 \in 1..Len(t) /\ i + 1 # 1 /\ rest[i] = t[i + 1]
    BY <1>3, <1>4
  <2> QED BY <1>2, <1>4, <2>1 DEF ToSet
<1>8. f \in ToSet(t)
  BY <1>4 DEF ToSet
<1>9. ToSet(t) = ToSet(rest) \cup {f} /\ f \notin ToSet(rest)
  BY <1>4, <1>6, <1>7, <1>8 DEF ToSet
<1> QED BY <1>1, <1>3, <1>4, <1>5, <1>9 DEF TodoIs

LEMMA AppendHas ==
  ASSUME NEW U, NEW s \in Seq(U), NEW e \in U
  PROVE  Append(s, e) \in Seq(U) /\ ToSet(Append(s, e)) = ToSet(s) \cup {e}
<1>1. PICK t : t = Append(s, e)
  OBVIOUS
<1>2. /\ t \in Seq(U) /\ Len(t) = Len(s) + 1 /\ t[Len(s) + 1] = e
      /\ \A i \in 1..Len(s) : t[i] = s[i]
  BY <1>1, AppendProperties
<1>3. DOMAIN t = 1..(Len(s) + 1) /\ DOMAIN s = 1..Len(s) /\ Len(s) \in Nat
  BY <1>2
<1>4. ASSUME NEW i \in 1..(Len(s) + 1) PROVE t[i] \in ToSet(s) \cup {e}
  <2>1. i \in 1..Len(s) \/ i = Len(s) + 1
    BY <1>3
  <2> QED BY <1>2, <1>3, <2>1 DEF ToSet
<1>5. ASSUME NEW i \in 1..Len(s) PROVE s[i] \in ToSet(t)
  BY <1>2, <1>3 DEF ToSet
<1>6. e \in ToSet(t)
  <2>1. Len(s) + 1 \in DOMAIN t
    BY <1>3
  <2> QED BY <1>2, <2>1 DEF ToSet
<1>7. ToSet(t) = ToSet(s) \cup {e}
  BY <1>3, <1>4, <1>5, <1>6 DEF ToSet
<1> QED BY <1>1, <1>2, <1>7

LEMMA HeadHas ==
  ASSUME NEW U, NEW s \in Seq(U), s # <<>>
  PROVE  Head(s) \in U /\ Tail(s) \in Seq(U) /\ ToSet(s) = ToSet(Tail(s)) \cup {Head(s)}
<1>1. PICK t : t = Tail(s)
  OBVIOUS
<1>2. /\ Head(s) \in U /\ t \in Seq(U) /\ Len(t) = Len(s) - 1
      /\ \A i \in 1..Len(t) : t[i] = s[i + 1]
  BY <1>1, HeadTailProperties
<1>3. DOMAIN t = 1..(Len(s) - 1) /\ DOMAIN s = 1..Len(s) /\ Len(s) \in Nat /\ Head(s) = s[1]
  BY <1>2
<1>4. Len(s) > 0
  BY <1>3, EmptySeq
<1>5. ASSUME NEW i \in 1..Len(s) PROVE s[i] \in ToSet(t) \cup {Head(s)}
  <2>1. CASE i = 1
    BY <1>3, <2>1
  <2>2. CASE i # 1
    <3>1. i - 1 \in 1..(Len(s) - 1) /\ (i - 1) + 1 = i
      BY <1>3, <2>2
    <3>2. t[i - 1] = s[i]
      BY <1>2, <1>3, <3>1
    <3> QED BY <1>3, <3>1, <3>2 DEF ToSet
  <2> QED BY <2>1, <2>2
<1>6. ASSUME NEW i \in 1..(Len(s) - 1) PROVE t[i] \in ToSet(s)
  <2>1. i + 1 \in 1..Len(s) /\ t[i] = s[i + 1]
    BY <1>2, <1>3
  <2> QED BY <1>3, <2>1 DEF ToSet
<1>7. Head(s) \in ToSet(s)
  BY <1>3, <1>4 DEF ToSet
<1>8. ToSet(s) = ToSet(t) \cup {Head(s)}
  BY <1>3, <1>5, <1>6, <1>7 DEF ToSet
<1> QED BY <1>1, <1>2, <1>8

\* get_update makes of a Dockerfile that is as it was given all it is to be.
LEMMA NewImagesIs ==
  ASSUME UpdateData, NEW f \in DOMAIN update.plan, dockerfiles[f] = update.given[f]
  PROVE  NewImages(f) = Whole(update.plan, update.latest, update.given, f)
<1>1. PICK g, p, l : g = update.given /\ p = update.plan /\ l = update.latest
  OBVIOUS
<1>2. DOMAIN g[f] = 1..Len(g[f])
  BY <1>1 DEF UpdateData, Planned
<1> DEFINE e(i) == NewOf(p, l, g[f][i], f, i)
<1>3. NewImages(f) = [i \in DOMAIN g[f] |-> e(i)]
  BY <1>1 DEF NewImages, NewOf, Follows, TheRef
<1>4. Whole(p, l, g, f) = [i \in 1..Len(g[f]) |-> e(i)]
  BY DEF Whole, Cut
<1> QED BY <1>1, <1>2, <1>3, <1>4

\* The images that are reported of it.
LEMMA ReportGoesOn ==
  ASSUME UpdateData, update.todo # <<>>, NEW f, f = Head(update.todo), dockerfiles[f] = update.given[f],
         NEW new, new = Whole(update.plan, update.latest, update.given, f)
  PROVE  ReportIs(update.report \cup
                    {<<f, i, new[i].image>> : i \in {i \in DOMAIN new : new[i] # dockerfiles[f][i]}},
                  Tail(update.todo), update.plan, update.latest, update.given)
<1>1. PICK g, p, l, todo, rest, report :
        /\ g = update.given /\ p = update.plan /\ l = update.latest
        /\ todo = update.todo /\ rest = Tail(todo) /\ report = update.report
  OBVIOUS
<1>2. f \in DOMAIN p /\ ToSet(todo) = ToSet(rest) \cup {f} /\ f \notin ToSet(rest)
  BY <1>1, TodoGoesOn
<1>3. DOMAIN p \ ToSet(rest) = (DOMAIN p \ ToSet(todo)) \cup {f}
  BY <1>2
<1>4. DOMAIN g[f] = 1..Len(g[f])
  BY <1>1, <1>2 DEF UpdateData, Planned
<1>5. DOMAIN new = DOMAIN g[f] /\ \A i \in DOMAIN g[f] : new[i] = NewOf(p, l, g[f][i], f, i)
  BY <1>1, <1>4 DEF Whole, Cut
<1>6. ReportIs(report, todo, p, l, g)
  BY <1>1 DEF UpdateData
<1> DEFINE new2 == {<<f, i, new[i].image>> : i \in {i \in DOMAIN new : new[i] # dockerfiles[f][i]}}
<1>7. \A n : n \in new2 <=> \E i \in DOMAIN g[f] : /\ NewOf(p, l, g[f][i], f, i) # g[f][i]
                                                  /\ n = <<f, i, NewOf(p, l, g[f][i], f, i).image>>
  BY <1>1, <1>5
<1> HIDE DEF new2
<1>8. ReportIs(report \cup new2, rest, p, l, g)
  BY <1>3, <1>6, <1>7 DEF ReportIs
<1> QED BY <1>1, <1>8 DEF new2

\* A file that becomes part of what it is to be.
LEMMA FilesMove ==
  ASSUME NEW d, NEW p, NEW l, NEW g, FilesAre(d, p, l, g), NEW f \in DOMAIN p, f \in DOMAIN g,
         NEW n \in 0..Len(g[f]), NEW c, c = Cut(p, l, g, f, n)
  PROVE  FilesAre([d EXCEPT ![f] = c], p, l, g)
<1>1. DOMAIN [d EXCEPT ![f] = c] = DOMAIN g /\ [d EXCEPT ![f] = c][f] = c
  BY DEF FilesAre
<1>2. ASSUME NEW h \in DOMAIN g, h # f PROVE [d EXCEPT ![f] = c][h] = d[h]
  BY <1>2 DEF FilesAre
<1> QED BY <1>1, <1>2 DEF FilesAre

LEMMA PieceIs ==
  ASSUME NEW p, NEW l, NEW g, NEW f \in DOMAIN p, Len(g[f]) \in Nat, NEW n \in 0..Len(g[f])
  PROVE  <<f, Cut(p, l, g, f, n)>> \in {c \in Pieces(p, l, g) : Fits(c, g)}
<1>1. n \in Nat /\ n <= Len(g[f]) /\ n \in 0..n
  OBVIOUS
<1>2. Len(Cut(p, l, g, f, n)) = n
  BY <1>1, CutOfCut
<1>3. PICK c : c = Cut(p, l, g, f, n)
  OBVIOUS
<1>4. <<f, c>> \in Pieces(p, l, g)
  BY <1>1, <1>3 DEF Pieces
<1>5. Fits(<<f, c>>, g)
  BY <1>1, <1>2, <1>3 DEF Fits
<1> QED BY <1>3, <1>4, <1>5

LEMMA PieceHas ==
  ASSUME NEW p, NEW l, NEW g, Planned(p, g), NEW c \in {c \in Pieces(p, l, g) : Fits(c, g)}
  PROVE  /\ c[1] \in DOMAIN p /\ c[1] \in DOMAIN g /\ Len(g[c[1]]) \in Nat
         /\ \E n \in 0..Len(g[c[1]]) : c[2] = Cut(p, l, g, c[1], n) /\ Len(c[2]) = n
<1>1. PICK f \in DOMAIN p, n \in Nat : c = <<f, Cut(p, l, g, f, n)>>
  BY DEF Pieces
<1>2. c[1] = f /\ c[2] = Cut(p, l, g, f, n)
  BY <1>1
<1>3. Len(c[2]) = n
  <2>1. n \in 0..n
    OBVIOUS
  <2> QED BY <1>2, <2>1, CutOfCut
<1>4. f \in DOMAIN g /\ Len(g[f]) \in Nat
  BY DEF Planned
<1>5. n <= Len(g[f])
  BY <1>2, <1>3 DEF Fits
<1>6. n \in 0..Len(g[f])
  BY <1>4, <1>5
<1> QED BY <1>2, <1>3, <1>4, <1>6

\* What waits for a buffer to be closed is still accounted for.
LEMMA CompleteWrites ==
  ASSUME NEW d, NEW todo, NEW rest, NEW b, NEW b2, NEW p, NEW l, NEW g, NEW f, NEW c,
         DOMAIN p \subseteq DOMAIN d,
         Complete(d, todo, b, p, l, g), ToSet(todo) = ToSet(rest) \cup {f},
         c[1] = f, c[2] = Whole(p, l, g, f), ToSet(b2) = ToSet(b) \cup {c}
  PROVE  Complete([d EXCEPT ![f] = <<>>], rest, b2, p, l, g)
<1>1. ASSUME NEW h \in DOMAIN p, h # f PROVE [d EXCEPT ![f] = <<>>][h] = d[h]
  BY <1>1
<1> QED BY <1>1 DEF Complete

LEMMA CompleteCloses ==
  ASSUME NEW d, NEW todo, NEW rest, NEW b, NEW p, NEW l, NEW g, NEW c,
         DOMAIN p \subseteq DOMAIN d, c[1] \in DOMAIN d,
         Complete(d, todo, b, p, l, g), ToSet(b) = ToSet(rest) \cup {c}
  PROVE  Complete([d EXCEPT ![c[1]] = c[2]], todo, rest, p, l, g)
<1>1. c[2] = Whole(p, l, g, c[1]) /\ [d EXCEPT ![c[1]] = c[2]][c[1]] = c[2]
  BY DEF Complete
<1>2. ASSUME NEW h \in DOMAIN p, h # c[1] PROVE [d EXCEPT ![c[1]] = c[2]][h] = d[h]
  BY <1>2
<1> QED BY <1>1, <1>2 DEF Complete


LEMMA WriteStep ==
  ASSUME UpdateData, UpdateControl, WriteDockerfile
  PROVE  UpdateInv'
<1>1. PICK f, rest : f = Head(update.todo) /\ rest = Tail(update.todo)
  OBVIOUS
<1>2. PICK new : new = NewImages(f)
  OBVIOUS
<1>3. PICK report :
        report = update.report \cup {<<f, i, new[i].image>> : i \in {i \in DOMAIN new : new[i] # dockerfiles[f][i]}}
  OBVIOUS
<1>4. update.step = "write" /\ update.todo # <<>> /\ registry' = registry
  BY DEF WriteDockerfile
<1>5. /\ IF update.dry
         THEN update' = [update EXCEPT !.todo = rest, !.report = report] /\ dockerfiles' = dockerfiles
         ELSE /\ update' = [update EXCEPT !.todo = rest, !.report = report,
                                          !.unsaved = Append(update.unsaved, <<f, new>>)]
              /\ dockerfiles' = [dockerfiles EXCEPT ![f] = <<>>]
  BY <1>1, <1>2, <1>3 DEF WriteDockerfile
<1>6. /\ update.refs = {} /\ ~update.failed /\ Untouched(dockerfiles, update.todo, update.given)
      /\ update.dry => update.unsaved = <<>> /\ dockerfiles = update.given
      /\ ~update.dry =>
           Complete(dockerfiles, update.todo, update.unsaved, update.plan, update.latest, update.given)
  BY <1>4 DEF UpdateControl
<1>7. /\ f \in DOMAIN update.plan /\ TodoIs(rest, update.plan)
      /\ ToSet(update.todo) = ToSet(rest) \cup {f} /\ f \notin ToSet(rest)
  BY <1>1, <1>4, TodoGoesOn
<1>8. /\ HasFields(update) /\ Planned(update.plan, update.given)
      /\ Learnt(update.plan, update.refs, update.latest, update.seen, update.sha) /\ registry \in update.seen
      /\ FilesAre(dockerfiles, update.plan, update.latest, update.given)
      /\ BufferIs(update.unsaved, update.plan, update.latest, update.given)
      /\ TodoIs(update.todo, update.plan)
  BY DEF UpdateData
<1>9. /\ f \in DOMAIN update.given /\ f \in DOMAIN dockerfiles /\ dockerfiles[f] = update.given[f]
      /\ Len(update.given[f]) \in Nat
  BY <1>6, <1>7, <1>8 DEF Planned, FilesAre, Untouched
<1>10. new = Whole(update.plan, update.latest, update.given, f)
  BY <1>2, <1>7, <1>9, NewImagesIs
<1>11. ReportIs(report, rest, update.plan, update.latest, update.given)
  BY <1>1, <1>3, <1>4, <1>9, <1>10, ReportGoesOn
<1>12. CASE update.dry
  <2>1. update' = [update EXCEPT !.todo = rest, !.report = report] /\ dockerfiles' = dockerfiles
    BY <1>5, <1>12
  <2>2. Sets({"todo", "report"}, update, update') /\ update'.todo = rest /\ update'.report = report
    BY <1>8, <2>1 DEF HasFields, Sets, UpdateFields
  <2>3. /\ update'.given = update.given /\ update'.plan = update.plan /\ update'.refs = update.refs
        /\ update'.latest = update.latest /\ update'.sha = update.sha /\ update'.dry = update.dry
        /\ update'.seen = update.seen /\ update'.unsaved = update.unsaved
        /\ update'.step = update.step /\ update'.failed = update.failed
    BY <2>2, Zenon DEF Sets, UpdateFields
  <2>4. UpdateData'
    BY <1>4, <1>7, <1>8, <1>11, <2>1, <2>2, <2>3 DEF UpdateData, Sets
  <2>5. Untouched(dockerfiles, rest, update.given)
    BY <1>6, <1>7 DEF Untouched
  <2>6. UpdateControl'
    BY <1>4, <1>6, <1>12, <2>1, <2>2, <2>3, <2>5 DEF UpdateControl, UpdateSteps
  <2> QED BY <2>4, <2>6 DEF UpdateInv
<1>13. CASE ~update.dry
  <2>1. PICK unsaved : unsaved = Append(update.unsaved, <<f, new>>)
    OBVIOUS
  <2>2. PICK d : d = [dockerfiles EXCEPT ![f] = <<>>]
    OBVIOUS
  <2>3. update' = [update EXCEPT !.todo = rest, !.report = report, !.unsaved = unsaved] /\ dockerfiles' = d
    BY <1>5, <1>13, <2>1, <2>2
  <2>4. /\ Sets({"todo", "report", "unsaved"}, update, update')
        /\ update'.todo = rest /\ update'.report = report /\ update'.unsaved = unsaved
    BY <1>8, <2>3 DEF HasFields, Sets, UpdateFields
  <2>5. /\ update'.given = update.given /\ update'.plan = update.plan /\ update'.refs = update.refs
        /\ update'.latest = update.latest /\ update'.sha = update.sha /\ update'.dry = update.dry
        /\ update'.seen = update.seen
        /\ update'.step = update.step /\ update'.failed = update.failed
    BY <2>4, Zenon DEF Sets, UpdateFields
  <2>6. FilesAre(d, update.plan, update.latest, update.given)
    <3>1. 0 \in 0..Len(update.given[f]) /\ 0 \in Nat /\ 0 \in 0..0
      BY <1>9
    <3>2. Cut(update.plan, update.latest, update.given, f, 0) = <<>>
      BY <3>1, CutOfCut
    <3> QED BY <1>7, <1>8, <1>9, <2>2, <3>1, <3>2, FilesMove
  <2>7. PICK c : c = <<f, new>>
    OBVIOUS
  <2>8. /\ BufferIs(unsaved, update.plan, update.latest, update.given)
        /\ ToSet(unsaved) = ToSet(update.unsaved) \cup {c}
    <3>1. PICK U : U = {x \in Pieces(update.plan, update.latest, update.given) : Fits(x, update.given)}
      OBVIOUS
    <3>2. Len(update.given[f]) \in 0..Len(update.given[f])
      BY <1>9
    <3>3. c \in U
      <4>1. PICK k \in 0..Len(update.given[f]) : k = Len(update.given[f])
        BY <3>2
      <4>2. PICK piece : piece = Cut(update.plan, update.latest, update.given, f, k)
        OBVIOUS
      <4>3. new = piece
        BY <1>10, <4>1, <4>2 DEF Whole
      <4>4. c = <<f, piece>>
        BY <2>7, <4>3
      <4> QED BY <1>7, <1>9, <3>1, <4>1, <4>2, <4>4, PieceIs
    <3>4. update.unsaved \in Seq(U)
      BY <1>8, <3>1 DEF BufferIs
    <3>5. unsaved \in Seq(U) /\ ToSet(unsaved) = ToSet(update.unsaved) \cup {c}
      <4>1. unsaved = Append(update.unsaved, c)
        BY <2>1, <2>7
      <4> QED BY <3>3, <3>4, <4>1, AppendHas
    <3> QED BY <3>1, <3>5 DEF BufferIs
  <2>9. Complete(d, rest, unsaved, update.plan, update.latest, update.given)
    <3>1. DOMAIN update.plan \subseteq DOMAIN dockerfiles
      BY <1>8 DEF Planned, FilesAre
    <3>2. c[1] = f /\ c[2] = Whole(update.plan, update.latest, update.given, f)
      BY <1>10, <2>7
    <3> QED BY <1>6, <1>7, <1>13, <2>2, <2>8, <3>1, <3>2, CompleteWrites
  <2>10. Untouched(d, rest, update.given)
    <3>1. SUFFICES ASSUME NEW h \in ToSet(rest) PROVE d[h] = update.given[h]
      BY DEF Untouched
    <3>2. h # f /\ dockerfiles[h] = update.given[h]
      BY <1>6, <1>7, <3>1 DEF Untouched
    <3>3. h \in DOMAIN update.plan
      <4>1. PICK i \in DOMAIN rest : h = rest[i]
        BY <3>1 DEF ToSet
      <4> QED BY <1>7, <4>1 DEF TodoIs
    <3>4. h \in DOMAIN dockerfiles
      BY <1>8, <3>3 DEF Planned, FilesAre
    <3> QED BY <2>2, <3>2, <3>4
  <2>11. UpdateData'
    BY <1>4, <1>7, <1>8, <1>11, <2>3, <2>4, <2>5, <2>6, <2>8 DEF UpdateData, Sets
  <2>12. UpdateControl'
    BY <1>4, <1>6, <1>13, <2>3, <2>4, <2>5, <2>9, <2>10 DEF UpdateControl, UpdateSteps
  <2> QED BY <2>11, <2>12 DEF UpdateInv
<1> QED BY <1>12, <1>13

LEMMA WriteFailsStep ==
  ASSUME UpdateData, UpdateControl, WriteFails
  PROVE  UpdateInv'
<1>1. PICK f : f = Head(update.todo)
  OBVIOUS
<1>2. PICK new : new = NewImages(f)
  OBVIOUS
<1>3. /\ update.step = "write" /\ update.todo # <<>> /\ ~update.dry /\ registry' = registry
      /\ dockerfiles' = [dockerfiles EXCEPT ![f] = <<>>]
      /\ \E n \in Cuts : /\ n < Len(dockerfiles[f])
                         /\ update' = [update EXCEPT !.step = "close", !.failed = TRUE,
                                                     !.unsaved = Append(update.unsaved, <<f, SubSeq(new, 1, n)>>)]
  <2>1. update.step = "write" /\ update.todo # <<>> /\ ~update.dry /\ registry' = registry
    BY DEF WriteFails
  <2>2. \E n \in {n \in Cuts : n < Len(dockerfiles[Head(update.todo)])} :
          /\ update' = [update EXCEPT !.step = "close", !.failed = TRUE,
                                      !.unsaved = Append(update.unsaved,
                                                         <<Head(update.todo), SubSeq(NewImages(Head(update.todo)), 1, n)>>)]
          /\ dockerfiles' = [dockerfiles EXCEPT ![Head(update.todo)] = <<>>]
    BY Zenon DEF WriteFails
  <2>3. PICK n \in {n \in Cuts : n < Len(dockerfiles[f])} :
          /\ update' = [update EXCEPT !.step = "close", !.failed = TRUE,
                                      !.unsaved = Append(update.unsaved, <<f, SubSeq(new, 1, n)>>)]
          /\ dockerfiles' = [dockerfiles EXCEPT ![f] = <<>>]
    BY <1>1, <1>2, <2>2, Zenon
  <2>4. n \in Cuts /\ n < Len(dockerfiles[f])
    OBVIOUS
  <2>5. \E m \in Cuts : /\ m < Len(dockerfiles[f])
                        /\ update' = [update EXCEPT !.step = "close", !.failed = TRUE,
                                                    !.unsaved = Append(update.unsaved, <<f, SubSeq(new, 1, m)>>)]
    BY <2>3, <2>4, Zenon
  <2> QED BY <2>1, <2>3, <2>5, Zenon
<1>4. PICK n \in Cuts : /\ n < Len(dockerfiles[f])
                        /\ update' = [update EXCEPT !.step = "close", !.failed = TRUE,
                                                    !.unsaved = Append(update.unsaved, <<f, SubSeq(new, 1, n)>>)]
  BY <1>3, Zenon
<1>5. update.refs = {} /\ Untouched(dockerfiles, update.todo, update.given)
  BY <1>3 DEF UpdateControl
<1>6. f \in DOMAIN update.plan /\ f \in ToSet(update.todo)
  <2>1. PICK rest : rest = Tail(update.todo)
    OBVIOUS
  <2>2. update.todo # <<>>
    BY <1>3
  <2>3. f \in DOMAIN update.plan /\ ToSet(update.todo) = ToSet(rest) \cup {f}
    BY <1>1, <2>1, <2>2, TodoGoesOn
  <2> QED BY <2>3
<1>7. /\ HasFields(update) /\ Planned(update.plan, update.given)
      /\ Learnt(update.plan, update.refs, update.latest, update.seen, update.sha) /\ registry \in update.seen
      /\ FilesAre(dockerfiles, update.plan, update.latest, update.given)
      /\ BufferIs(update.unsaved, update.plan, update.latest, update.given)
      /\ TodoIs(update.todo, update.plan)
      /\ ReportIs(update.report, update.todo, update.plan, update.latest, update.given)
  BY DEF UpdateData
<1>8. /\ f \in DOMAIN update.given /\ dockerfiles[f] = update.given[f] /\ Len(update.given[f]) \in Nat
  BY <1>5, <1>6, <1>7 DEF Planned, Untouched
<1>9. new = Whole(update.plan, update.latest, update.given, f)
  BY <1>2, <1>6, <1>8, NewImagesIs
<1>10. n \in 0..Len(update.given[f]) /\ 0 \in 0..Len(update.given[f])
  BY <1>4, <1>8, CutsAssumption
<1>11. PICK piece : piece = Cut(update.plan, update.latest, update.given, f, n)
  OBVIOUS
<1>12. SubSeq(new, 1, n) = piece
  <2>1. PICK m \in Nat : m = Len(update.given[f])
    BY <1>8
  <2>2. new = Cut(update.plan, update.latest, update.given, f, m)
    BY <1>9, <2>1 DEF Whole
  <2>3. n \in 0..m
    BY <1>10, <2>1
  <2>4. SubSeq(Cut(update.plan, update.latest, update.given, f, m), 1, n)
          = Cut(update.plan, update.latest, update.given, f, n)
    BY <2>3, CutOfCut
  <2> QED BY <1>11, <2>2, <2>4
<1>13. PICK unsaved : unsaved = Append(update.unsaved, <<f, piece>>)
  OBVIOUS
<1>14. update' = [update EXCEPT !.step = "close", !.failed = TRUE, !.unsaved = unsaved]
  BY <1>4, <1>12, <1>13
<1>15. /\ Sets({"step", "failed", "unsaved"}, update, update')
       /\ update'.step = "close" /\ update'.failed = TRUE /\ update'.unsaved = unsaved
  BY <1>7, <1>14 DEF HasFields, Sets, UpdateFields
<1>16. /\ update'.given = update.given /\ update'.plan = update.plan /\ update'.refs = update.refs
       /\ update'.latest = update.latest /\ update'.sha = update.sha /\ update'.dry = update.dry
       /\ update'.seen = update.seen /\ update'.todo = update.todo /\ update'.report = update.report
  BY <1>15, Zenon DEF Sets, UpdateFields
<1>17. PICK d : d = [dockerfiles EXCEPT ![f] = <<>>]
  OBVIOUS
<1>18. FilesAre(d, update.plan, update.latest, update.given)
  <2>1. 0 \in Nat /\ 0 \in 0..0
    OBVIOUS
  <2>2. Cut(update.plan, update.latest, update.given, f, 0) = <<>>
    BY <2>1, CutOfCut
  <2> QED BY <1>6, <1>7, <1>8, <1>10, <1>17, <2>2, FilesMove
<1>19. BufferIs(unsaved, update.plan, update.latest, update.given)
  <2>1. PICK U : U = {x \in Pieces(update.plan, update.latest, update.given) : Fits(x, update.given)}
    OBVIOUS
  <2>2. PICK c : c = <<f, piece>>
    OBVIOUS
  <2>3. c \in U
    BY <1>6, <1>8, <1>10, <1>11, <2>1, <2>2, PieceIs
  <2>4. update.unsaved \in Seq(U)
    BY <1>7, <2>1 DEF BufferIs
  <2>5. unsaved \in Seq(U)
    BY <1>13, <2>2, <2>3, <2>4, AppendHas
  <2> QED BY <2>1, <2>5 DEF BufferIs
<1>20. UpdateData'
  BY <1>3, <1>7, <1>15, <1>16, <1>17, <1>18, <1>19 DEF UpdateData, Sets
<1>21. UpdateControl'
  BY <1>3, <1>5, <1>15, <1>16 DEF UpdateControl, UpdateSteps
<1> QED BY <1>20, <1>21 DEF UpdateInv

LEMMA CloseStep ==
  ASSUME UpdateData, UpdateControl, Close
  PROVE  UpdateInv'
<1>1. PICK c, rest : c = Head(update.unsaved) /\ rest = Tail(update.unsaved)
  OBVIOUS
<1>2. update.step = "close" /\ update.unsaved # <<>> /\ registry' = registry
  BY DEF Close
<1>3. /\ update.refs = {} /\ ~update.dry
      /\ ~update.failed =>
           /\ update.todo = <<>>
           /\ Complete(dockerfiles, update.todo, update.unsaved, update.plan, update.latest, update.given)
  BY <1>2 DEF UpdateControl
<1>4. /\ HasFields(update) /\ Planned(update.plan, update.given)
      /\ Learnt(update.plan, update.refs, update.latest, update.seen, update.sha) /\ registry \in update.seen
      /\ FilesAre(dockerfiles, update.plan, update.latest, update.given)
      /\ BufferIs(update.unsaved, update.plan, update.latest, update.given)
      /\ TodoIs(update.todo, update.plan)
      /\ ReportIs(update.report, update.todo, update.plan, update.latest, update.given)
  BY DEF UpdateData
<1>5. PICK U : U = {x \in Pieces(update.plan, update.latest, update.given) : Fits(x, update.given)}
  OBVIOUS
<1>6. c \in U /\ rest \in Seq(U) /\ ToSet(update.unsaved) = ToSet(rest) \cup {c}
  BY <1>1, <1>2, <1>4, <1>5, HeadHas DEF BufferIs
<1>7. BufferIs(rest, update.plan, update.latest, update.given)
  BY <1>5, <1>6 DEF BufferIs
<1>8. /\ c[1] \in DOMAIN update.plan /\ c[1] \in DOMAIN update.given /\ Len(update.given[c[1]]) \in Nat
      /\ \E n \in 0..Len(update.given[c[1]]) :
           c[2] = Cut(update.plan, update.latest, update.given, c[1], n) /\ Len(c[2]) = n
  BY <1>4, <1>5, <1>6, PieceHas
<1>9. PICK m \in 0..Len(update.given[c[1]]) :
        c[2] = Cut(update.plan, update.latest, update.given, c[1], m) /\ Len(c[2]) = m
  BY <1>8
<1>10. ASSUME NEW piece, NEW failed \in {TRUE, update.failed}, NEW n \in 0..Len(update.given[c[1]]),
              piece = Cut(update.plan, update.latest, update.given, c[1], n),
              failed \/ piece = c[2],
              dockerfiles' = [dockerfiles EXCEPT ![c[1]] = piece],
              update' = [update EXCEPT !.unsaved = rest, !.failed = failed]
       PROVE  UpdateInv'
  <2>1. /\ Sets({"failed", "unsaved"}, update, update')
        /\ update'.failed = failed /\ update'.unsaved = rest
    BY <1>4, <1>10 DEF HasFields, Sets, UpdateFields
  <2>2. /\ update'.given = update.given /\ update'.plan = update.plan /\ update'.refs = update.refs
        /\ update'.latest = update.latest /\ update'.sha = update.sha /\ update'.dry = update.dry
        /\ update'.seen = update.seen /\ update'.todo = update.todo /\ update'.report = update.report
        /\ update'.step = update.step
    BY <2>1, Zenon DEF Sets, UpdateFields
  <2>3. PICK d : d = [dockerfiles EXCEPT ![c[1]] = piece]
    OBVIOUS
  <2>4. FilesAre(d, update.plan, update.latest, update.given)
    BY <1>4, <1>8, <1>10, <2>3, FilesMove
  <2>5. UpdateData'
    BY <1>2, <1>4, <1>7, <1>10, <2>1, <2>2, <2>3, <2>4 DEF UpdateData, Sets
  <2>6. ~failed => update.todo = <<>>
                   /\ Complete(d, update.todo, rest, update.plan, update.latest, update.given)
    <3>1. SUFFICES ASSUME ~failed
                   PROVE  update.todo = <<>>
                          /\ Complete(d, update.todo, rest, update.plan, update.latest, update.given)
      OBVIOUS
    <3>2. ~update.failed /\ piece = c[2]
      BY <1>10, <3>1
    <3>3. DOMAIN update.plan \subseteq DOMAIN dockerfiles /\ c[1] \in DOMAIN dockerfiles
      BY <1>4, <1>8 DEF Planned, FilesAre
    <3>4. d = [dockerfiles EXCEPT ![c[1]] = c[2]]
      BY <2>3, <3>2
    <3>5. update.todo = <<>>
          /\ Complete(dockerfiles, update.todo, update.unsaved, update.plan, update.latest, update.given)
      BY <1>3, <3>2
    <3> QED BY <1>6, <3>3, <3>4, <3>5, CompleteCloses
  <2>7. UpdateControl'
    BY <1>2, <1>3, <1>10, <2>1, <2>2, <2>3, <2>6 DEF UpdateControl, UpdateSteps
  <2> QED BY <2>5, <2>7 DEF UpdateInv
<1>11. \/ /\ dockerfiles' = [dockerfiles EXCEPT ![c[1]] = c[2]]
          /\ update' = [update EXCEPT !.unsaved = rest]
       \/ \E n \in Cuts : /\ n < Len(c[2])
                          /\ dockerfiles' = [dockerfiles EXCEPT ![c[1]] = SubSeq(c[2], 1, n)]
                          /\ update' = [update EXCEPT !.unsaved = rest, !.failed = TRUE]
  BY <1>1 DEF Close
<1>12. CASE /\ dockerfiles' = [dockerfiles EXCEPT ![c[1]] = c[2]]
            /\ update' = [update EXCEPT !.unsaved = rest]
  <2>1. update' = [update EXCEPT !.unsaved = rest, !.failed = update.failed]
    BY <1>4, <1>12 DEF HasFields, UpdateFields
  <2> QED BY <1>9, <1>10, <1>12, <2>1
<1>13. CASE \E n \in Cuts : /\ n < Len(c[2])
                            /\ dockerfiles' = [dockerfiles EXCEPT ![c[1]] = SubSeq(c[2], 1, n)]
                            /\ update' = [update EXCEPT !.unsaved = rest, !.failed = TRUE]
  <2>1. PICK n \in Cuts : /\ n < Len(c[2])
                          /\ dockerfiles' = [dockerfiles EXCEPT ![c[1]] = SubSeq(c[2], 1, n)]
                          /\ update' = [update EXCEPT !.unsaved = rest, !.failed = TRUE]
    BY <1>13
  <2>2. m \in Nat /\ n \in 0..m /\ n \in 0..Len(update.given[c[1]])
    BY <1>8, <1>9, <2>1, CutsAssumption
  <2>3. SubSeq(c[2], 1, n) = Cut(update.plan, update.latest, update.given, c[1], n)
    <3>1. SubSeq(Cut(update.plan, update.latest, update.given, c[1], m), 1, n)
            = Cut(update.plan, update.latest, update.given, c[1], n)
      BY <2>2, CutOfCut
    <3> QED BY <1>9, <3>1
  <2> QED BY <1>10, <2>1, <2>2, <2>3
<1> QED BY <1>11, <1>12, <1>13

LEMMA UpdateStep ==
  ASSUME UpdateInv, UpdateNext
  PROVE  UpdateInv'
<1>1. UpdateData /\ UpdateControl /\ HasFields(update)
  <2>1. update.step \in {"inspect", "write", "close"}
    BY DEF UpdateNext, Inspect, Inspected, WriteDockerfile, WriteFails, Report, Close, Closed, Killed,
           RegistryMoves
  <2> QED BY <2>1 DEF UpdateInv, UpdateData
<1>2. ASSUME NEW s PROVE [update EXCEPT !.step = s] = [update EXCEPT !.step = s, !.failed = update.failed]
  BY <1>1 DEF HasFields, UpdateFields
<1>3. ASSUME update' = [update EXCEPT !.step = "failed", !.failed = TRUE], UNCHANGED <<dockerfiles, registry>>
      PROVE  UpdateInv'
  <2>1. UpdateControl'
    <3>1. /\ update'.given = update.given /\ update'.todo = update.todo /\ update'.plan = update.plan
          /\ update'.refs = update.refs /\ update'.latest = update.latest /\ update'.dry = update.dry
          /\ update'.unsaved = update.unsaved
          /\ update'.step = "failed" /\ update'.failed = TRUE
      BY <1>1, <1>3, MovesKeep
    <3>2. Begun => Begun'
      BY <1>3, <3>1 DEF Begun
    <3> QED BY <1>1, <1>3, <3>1, <3>2 DEF UpdateControl, UpdateSteps
  <2>2. "failed" \in UpdateSteps
    BY DEF UpdateSteps
  <2> QED BY <1>1, <1>3, <2>1, <2>2, UpdateMoves
<1>4. CASE Inspect
  <2>1. /\ update.step = "inspect" /\ UNCHANGED <<dockerfiles, registry>>
        /\ \E ref \in update.refs :
             update' = IF CanTell(registry[ref], update.sha)
                       THEN [update EXCEPT !.refs = @ \ {ref},
                                           !.latest = Over(Entry(ref, LatestImage(ref, registry[ref], update.sha)), @)]
                       ELSE [update EXCEPT !.step = "failed", !.failed = TRUE]
    BY <1>4, Zenon DEF Inspect
  <2>2. PICK ref \in update.refs :
          update' = IF CanTell(registry[ref], update.sha)
                    THEN [update EXCEPT !.refs = @ \ {ref},
                                        !.latest = Over(Entry(ref, LatestImage(ref, registry[ref], update.sha)), @)]
                    ELSE [update EXCEPT !.step = "failed", !.failed = TRUE]
    BY <2>1, Zenon
  <2>3. CASE CanTell(registry[ref], update.sha)
    <3>1. update' = [update EXCEPT !.refs = @ \ {ref},
                                   !.latest = Over(Entry(ref, LatestImage(ref, registry[ref], update.sha)), @)]
      BY <2>2, <2>3, Zenon
    <3> QED BY <1>1, <2>1, <2>3, <3>1, InspectStep, Zenon
  <2>4. CASE ~CanTell(registry[ref], update.sha)
    <3>1. update' = [update EXCEPT !.step = "failed", !.failed = TRUE]
      BY <2>2, <2>4, Zenon
    <3> QED BY <1>3, <2>1, <3>1
  <2> QED BY <2>3, <2>4
<1>5. CASE Inspected
  <2>1. /\ update.step = "inspect" /\ update.refs = {} /\ UNCHANGED <<dockerfiles, registry>>
        /\ update' = [update EXCEPT !.step = "write", !.failed = update.failed]
    BY <1>2, <1>5 DEF Inspected
  <2>2. Begun /\ ~update.failed /\ (update.dry => update.unsaved = <<>> /\ dockerfiles = update.given)
    BY <1>1, <2>1 DEF UpdateControl
  <2>3. /\ update'.given = update.given /\ update'.todo = update.todo /\ update'.plan = update.plan
        /\ update'.refs = update.refs /\ update'.latest = update.latest /\ update'.dry = update.dry
        /\ update'.unsaved = update.unsaved
        /\ update'.step = "write" /\ update'.failed = update.failed
    BY <1>1, <2>1, MovesKeep
  <2>4. Untouched(dockerfiles, update.todo, update.given)
    BY <2>2 DEF Begun, Untouched
  <2>5. Complete(dockerfiles, update.todo, update.unsaved, update.plan, update.latest, update.given)
    <3>1. ToSet(<<>>) = {}
      BY DEF ToSet
    <3> QED BY <2>2, <3>1 DEF Begun, Complete
  <2>6. UpdateControl'
    BY <2>1, <2>2, <2>3, <2>4, <2>5 DEF UpdateControl, UpdateSteps
  <2>7. "write" \in UpdateSteps
    BY DEF UpdateSteps
  <2> QED BY <1>1, <2>1, <2>6, <2>7, UpdateMoves
<1>6. CASE WriteDockerfile
  BY <1>1, <1>6, WriteStep
<1>7. CASE WriteFails
  BY <1>1, <1>7, WriteFailsStep
<1>8. CASE Report
  <2>1. /\ update.step = "write" /\ update.todo = <<>> /\ UNCHANGED <<dockerfiles, registry>>
        /\ update' = [update EXCEPT !.step = "close", !.failed = update.failed]
    BY <1>2, <1>8 DEF Report
  <2>2. /\ update'.given = update.given /\ update'.todo = update.todo /\ update'.plan = update.plan
        /\ update'.refs = update.refs /\ update'.latest = update.latest /\ update'.dry = update.dry
        /\ update'.unsaved = update.unsaved
        /\ update'.step = "close" /\ update'.failed = update.failed
    BY <1>1, <2>1, MovesKeep
  <2>3. UpdateControl'
    BY <1>1, <2>1, <2>2 DEF UpdateControl, UpdateSteps
  <2>4. "close" \in UpdateSteps
    BY DEF UpdateSteps
  <2> QED BY <1>1, <2>1, <2>3, <2>4, UpdateMoves
<1>9. CASE Close
  BY <1>1, <1>9, CloseStep
<1>10. CASE Closed
  <2>1. PICK s : s = IF update.failed THEN "failed" ELSE "done"
    OBVIOUS
  <2>2. /\ update.step = "close" /\ update.unsaved = <<>> /\ UNCHANGED <<dockerfiles, registry>>
        /\ update' = [update EXCEPT !.step = s, !.failed = update.failed]
    BY <1>2, <1>10, <2>1 DEF Closed
  <2>3. /\ update'.given = update.given /\ update'.todo = update.todo /\ update'.plan = update.plan
        /\ update'.refs = update.refs /\ update'.latest = update.latest /\ update'.dry = update.dry
        /\ update'.unsaved = update.unsaved
        /\ update'.step = s /\ update'.failed = update.failed
    BY <1>1, <2>2, MovesKeep
  <2>4. s \in {"failed", "done"} /\ (s = "done" => ~update.failed)
    BY <2>1
  <2>5. UpdateControl'
    BY <1>1, <2>2, <2>3, <2>4 DEF UpdateControl, UpdateSteps
  <2>6. s \in UpdateSteps
    BY <2>4 DEF UpdateSteps
  <2> QED BY <1>1, <2>2, <2>5, <2>6, UpdateMoves
<1>11. CASE Killed
  BY <1>3, <1>11 DEF Killed
<1>12. CASE RegistryMoves
  <2>1. PICK v : v = update.seen \cup {registry'}
    OBVIOUS
  <2>2. update' = [update EXCEPT !.seen = v] /\ UNCHANGED dockerfiles
    BY <1>12, <2>1 DEF RegistryMoves
  <2>3. Sets({"seen"}, update, update') /\ update'.seen = v
    BY <1>1, <2>2 DEF HasFields, Sets, UpdateFields
  <2>4. /\ update'.given = update.given /\ update'.todo = update.todo /\ update'.plan = update.plan
        /\ update'.refs = update.refs /\ update'.latest = update.latest /\ update'.dry = update.dry
        /\ update'.unsaved = update.unsaved
        /\ update'.step = update.step /\ update'.failed = update.failed
    BY <2>3, Zenon DEF Sets, UpdateFields
  <2>5. \A x \in {"given", "todo", "plan", "refs", "latest", "sha", "report", "unsaved"} : SameData(x)
    BY <2>3 DEF Sets, UpdateFields, SameData
  <2>6. UpdateData'
    BY <1>1, <2>1, <2>2, <2>3, <2>5, UpdateDataStays DEF Sets
  <2>7. Begun => Begun'
    BY <2>2, <2>4 DEF Begun
  <2>8. UpdateControl'
    BY <1>1, <2>2, <2>4, <2>7 DEF UpdateControl
  <2> QED BY <2>6, <2>8 DEF UpdateInv
<1> QED BY <1>4, <1>5, <1>6, <1>7, <1>8, <1>9, <1>10, <1>11, <1>12 DEF UpdateNext

LEMMA ImagesAgree == ASSUME UpdateInv PROVE ParentImagesAgree
<1>1. CASE update.step = "idle"
  BY <1>1 DEF ParentImagesAgree
<1>2. CASE update.step # "idle"
  <2>1. UpdateData /\ UpdateControl
    BY <1>2 DEF UpdateInv
  <2>2. PICK g, p, l : g = update.given /\ p = update.plan /\ l = update.latest
    OBVIOUS
  <2>3. update.dry \/ update.refs # {} => dockerfiles = g
    BY <2>1, <2>2 DEF UpdateControl, Begun
  <2>4. ASSUME update.refs = {}
        PROVE  \E answers \in [RefsOf(p) -> update.seen] :
                 /\ \A ref \in RefsOf(p) : CanTell(answers[ref][ref], update.sha)
                 /\ \A f \in DOMAIN g :
                      \/ dockerfiles[f] = g[f]
                      \/ f \in DOMAIN p /\ \E n \in 0..Len(g[f]) :
                                             dockerfiles[f] = SubSeq(NewDockerfile(f, answers), 1, n)
                 /\ update.step = "done" =>
                      /\ \A f \in DOMAIN p : update.dry \/ dockerfiles[f] = NewDockerfile(f, answers)
                      /\ update.report =
                           UNION {{<<f, i, NewDockerfile(f, answers)[i].image>> :
                                     i \in {i \in DOMAIN g[f] : NewDockerfile(f, answers)[i] # g[f][i]}} :
                                  f \in DOMAIN p}
    <3> DEFINE Says(ref, r) == CanTell(r[ref], update.sha) /\ l[ref] = LatestImage(ref, r[ref], update.sha)
               answerOf(ref) == CHOOSE r \in update.seen : Says(ref, r)
    <3>1. \A ref \in RefsOf(p) : \E r \in update.seen : Says(ref, r)
      BY <2>1, <2>2, <2>4 DEF UpdateData, Learnt, Known
    <3>2. \A ref \in RefsOf(p) : answerOf(ref) \in update.seen /\ Says(ref, answerOf(ref))
      BY <3>1
    <3>3. PICK answers : answers = [ref \in RefsOf(p) |-> answerOf(ref)]
      OBVIOUS
    <3>4. \A ref \in RefsOf(p) : answers[ref] \in update.seen /\ Says(ref, answers[ref])
      BY <3>2, <3>3
    <3>5. answers \in [RefsOf(p) -> update.seen]
      BY <3>2, <3>3
    <3>6. \A ref \in RefsOf(p) : /\ CanTell(answers[ref][ref], update.sha)
                                 /\ l[ref] = LatestImage(ref, answers[ref][ref], update.sha)
      BY <3>4
    <3> HIDE DEF Says, answerOf
    <3>7. ASSUME NEW f \in DOMAIN p
          PROVE  /\ NewDockerfile(f, answers) = Whole(p, l, g, f)
                 /\ f \in DOMAIN g /\ Len(g[f]) \in Nat /\ DOMAIN g[f] = 1..Len(g[f])
                 /\ \A i \in DOMAIN g[f] : NewDockerfile(f, answers)[i] = NewOf(p, l, g[f][i], f, i)
      <4>1. f \in DOMAIN g /\ Len(g[f]) \in Nat /\ DOMAIN g[f] = 1..Len(g[f])
        BY <2>1, <2>2 DEF UpdateData, Planned
      <4>2. ASSUME NEW i, Follows(p, f, i)
            PROVE  l[TheRef(p, f, i)] = LatestImage(TheRef(p, f, i), answers[TheRef(p, f, i)][TheRef(p, f, i)], update.sha)
        <5>1. i \in DOMAIN p[f] /\ TheRef(p, f, i) \in p[f][i]
          BY <4>2 DEF Follows, TheRef
        <5>2. TheRef(p, f, i) \in RefsOf(p)
          BY <5>1 DEF RefsOf, Range
        <5> QED BY <3>6, <5>2
      <4> DEFINE e(i) == NewOf(p, l, g[f][i], f, i)
      <4>3. NewDockerfile(f, answers) = [i \in DOMAIN g[f] |-> e(i)]
        <5>1. \A i \in DOMAIN g[f] :
                (IF i \in DOMAIN p[f] /\ p[f][i] # {}
                 THEN [g[f][i] EXCEPT !.image = LatestImage(TheRef(p, f, i), answers[TheRef(p, f, i)][TheRef(p, f, i)], update.sha)]
                 ELSE g[f][i]) = e(i)
          BY <4>2 DEF NewOf, Follows
        <5> QED BY <2>2, <5>1 DEF NewDockerfile, TheRef
      <4>4. Whole(p, l, g, f) = [i \in 1..Len(g[f]) |-> e(i)]
        BY DEF Whole, Cut
      <4> QED BY <4>1, <4>3, <4>4
    <3>8. ASSUME NEW f \in DOMAIN g
          PROVE  \/ dockerfiles[f] = g[f]
                 \/ f \in DOMAIN p /\ \E n \in 0..Len(g[f]) :
                                        dockerfiles[f] = SubSeq(NewDockerfile(f, answers), 1, n)
      <4>1. \/ dockerfiles[f] = g[f]
            \/ f \in DOMAIN p /\ \E n \in 0..Len(g[f]) : dockerfiles[f] = Cut(p, l, g, f, n)
        BY <2>1, <2>2 DEF UpdateData, FilesAre
      <4>2. ASSUME f \in DOMAIN p, NEW n \in 0..Len(g[f])
            PROVE  SubSeq(NewDockerfile(f, answers), 1, n) = Cut(p, l, g, f, n)
        BY <3>7, <4>2, CutOfCut DEF Whole
      <4> QED BY <4>1, <4>2
    <3>9. ASSUME update.step = "done"
          PROVE  /\ \A f \in DOMAIN p : update.dry \/ dockerfiles[f] = NewDockerfile(f, answers)
                 /\ update.report =
                      UNION {{<<f, i, NewDockerfile(f, answers)[i].image>> :
                                i \in {i \in DOMAIN g[f] : NewDockerfile(f, answers)[i] # g[f][i]}} :
                             f \in DOMAIN p}
      <4>1. /\ ~update.failed /\ update.todo = <<>> /\ update.unsaved = <<>>
            /\ ~update.dry => Complete(dockerfiles, update.todo, update.unsaved, p, l, g)
        BY <2>1, <2>2, <3>9 DEF UpdateControl
      <4>2. ToSet(<<>>) = {}
        BY DEF ToSet
      <4>3. \A f \in DOMAIN p : update.dry \/ dockerfiles[f] = NewDockerfile(f, answers)
        BY <3>7, <4>1, <4>2 DEF Complete
      <4>4. ReportIs(update.report, update.todo, p, l, g)
        BY <2>1, <2>2 DEF UpdateData
      <4> DEFINE of(f) == {<<f, i, NewDockerfile(f, answers)[i].image>> :
                             i \in {i \in DOMAIN g[f] : NewDockerfile(f, answers)[i] # g[f][i]}}
      <4>5. \A n : n \in update.report <=> \E f \in DOMAIN p : n \in of(f)
        <5>1. ASSUME NEW f \in DOMAIN p, NEW n
              PROVE  n \in of(f) <=> \E i \in DOMAIN g[f] : /\ NewOf(p, l, g[f][i], f, i) # g[f][i]
                                                            /\ n = <<f, i, NewOf(p, l, g[f][i], f, i).image>>
          BY <3>7
        <5> HIDE DEF of
        <5> QED BY <4>1, <4>2, <4>4, <5>1 DEF ReportIs
      <4>6. update.report = UNION {of(f) : f \in DOMAIN p}
        <5> HIDE DEF of
        <5> QED BY <4>5
      <4> QED BY <4>3, <4>6
    <3> QED BY <3>5, <3>6, <3>8, <3>9
  <2> QED BY <2>2, <2>3, <2>4 DEF ParentImagesAgree
<1> QED BY <1>1, <1>2

\* The invariant of the update of parent images.
THEOREM UpdateInvHolds == Spec => []UpdateInv
<1>1. Init => UpdateInv
  BY DEF Init, ImagesInit, NoUpdate, UpdateInv
<1>2. ASSUME JobTyped, UpdateInv, [Next]_vars PROVE UpdateInv'
  <2>1. CASE UNCHANGED imageVars
    BY <1>2, <2>1 DEF imageVars, UpdateInv, UpdateData, UpdateControl, Begun
  <2>2. CASE RunUpdate
    <3>1. job.commit \in Commits
      BY <1>2, <2>2 DEF RunUpdate, JobTyped, Working
    <3> QED BY <2>2, <3>1, StartUpdateStep DEF RunUpdate
  <2>3. CASE UpdateImages
    BY <1>2, <2>3, UpdateStep DEF UpdateImages
  <2>4. CASE UpdateEnds
    BY <2>4 DEF UpdateEnds, EndUpdate, NoUpdate, UpdateInv
  <2>5. Next => UNCHANGED imageVars \/ RunUpdate \/ UpdateImages \/ UpdateEnds
    BY DEF Next, Start, GetSource, GetFails, Becomes, Reset, Setup, Clean, Cleaned, Inject,
           NoInjection, InitChroot, Shell, ReadByMock, Environ, Run, End
  <2> QED BY <1>2, <2>1, <2>2, <2>3, <2>4, <2>5 DEF vars
<1> QED BY <1>1, <1>2, JobsAreTyped, PTL DEF Spec

\* However the registry moves: an update of parent images that ends well has
\* written all Dockerfiles, as a whole and with one answer of the registry for
\* each tag, and reported what is new.  One that a registry, a full disk or the
\* end of its time stops leaves each as it was, new with these answers, or the
\* beginning of that, and all as they were before all images are known.
THEOREM ParentImagesAgreeAlways == Spec => []ParentImagesAgree
BY ImagesAgree, UpdateInvHolds, PTL

-----------------------------------------------------------------------------
(* The files of a project and of its sources.                              *)

In(s, f, q) == <<DestDir(s, f) \o q[1], q[2]>>

\* A path with the file that one of the sources S has there.
FromFiles(p, tree, S) ==
  \E s \in S : \E f \in ToSet(s.formats) :
    f.name = "files" /\ \E q \in DOMAIN UpstreamFiles[s.commit] :
      p = In(s, f, q) /\ tree[p] = UpstreamFiles[s.commit][q]
BringsFiles(s) == \E f \in ToSet(s.formats) : f.name = "files"

Usual(s) ==
  /\ s.url \in Urls /\ s.formats \in Seq(ToSet(s.formats))
  /\ \A f \in ToSet(s.formats) : f.name \in {"files", "branch", "source_repos"}
  /\ \A i, k \in DOMAIN s.formats : s.formats[i].name = s.formats[k].name => i = k
Unfiltered(s) == \A f \in ToSet(s.formats) : f.filter = {}
SameUse(s, t) == s.url = t.url => s.formats = t.formats /\ s.dir = t.dir

WorkShape(a) == {"tree", "indexes"} \subseteq DOMAIN a /\ DOMAIN a.indexes = Urls

\* All there is are files of the project, whose paths are P, lists of sources
\* and files of the sources T, which the indexes know.
Traced(a, P, T) ==
  /\ \A p \in DOMAIN a.tree : p \in P \/ p[2] = "source-repos" \/ FromFiles(p, a.tree, T)
  /\ \A t \in T : BringsFiles(t) => a.indexes[t.url] = UpstreamFiles[t.commit]

Others(T, s) == {t \in T : t.url # s.url}
Same(T, s) == {t \in T : t.url = s.url}
Brought(s, n) == \E i \in 1..n : s.formats[i].name = "files"

\* The same after the first n formats of a source, which takes the place of
\* those with its URL.
Amid(a, P, T, s, n) ==
  /\ \A p \in DOMAIN a.tree : \/ p \in P \/ p[2] = "source-repos"
                              \/ FromFiles(p, a.tree, Others(T, s) \cup {s})
                              \/ ~Brought(s, n) /\ FromFiles(p, a.tree, Same(T, s))
  /\ \A t \in Others(T, s) : BringsFiles(t) => a.indexes[t.url] = UpstreamFiles[t.commit]
  /\ Brought(s, n) => a.indexes[s.url] = UpstreamFiles[s.commit]
  /\ ~Brought(s, n) => \A t \in Same(T, s) : BringsFiles(t) => a.indexes[t.url] = UpstreamFiles[t.commit]

\* Without a filter all files of the source are written, those that its index
\* alone has are gone.
TakesAll(a, s, f, written, gone, index) ==
  /\ index = UpstreamFiles[s.commit]
  /\ DOMAIN written = {In(s, f, q) : q \in DOMAIN index}
  /\ \A p \in DOMAIN written : \E q \in DOMAIN index : p = In(s, f, q) /\ written[p] = index[q]
  /\ gone = {In(s, f, q) : q \in DOMAIN a.indexes[s.url] \ DOMAIN index}
Checked(a, b, s, written, gone, index) ==
  /\ b.tree = Over(written, Without(a.tree, gone))
  /\ b.indexes = [a.indexes EXCEPT ![s.url] = index]

LEMMA FilesHandlerIs ==
  ASSUME NEW a, WorkShape(a), NEW s, s.url \in Urls, NEW f
  PROVE  \E written, gone, index :
           /\ WorkShape(FilesHandler(a, s, f))
           /\ Checked(a, FilesHandler(a, s, f), s, written, gone, index)
           /\ f.filter = {} => TakesAll(a, s, f, written, gone, index)
<1> DEFINE files == UpstreamFiles[s.commit]
           wanted == DOMAIN files \cap f.filter
           taken == IF wanted = {} THEN DOMAIN files ELSE wanted
<1>1. PICK written : written = [p \in {In(s, f, q) : q \in taken} |-> files[CHOOSE q \in taken : In(s, f, q) = p]]
  OBVIOUS
<1>2. PICK gone : gone = IF wanted = {} THEN {In(s, f, q) : q \in DOMAIN a.indexes[s.url] \ DOMAIN files} ELSE {}
  OBVIOUS
<1>3. PICK index : index = IF wanted = {} THEN files ELSE Over([p \in wanted |-> files[p]], a.indexes[s.url])
  OBVIOUS
<1>4. PICK tree : tree = Over(written, Without(a.tree, gone))
  OBVIOUS
<1>5. PICK b : b = [a EXCEPT !.tree = tree, !.indexes[s.url] = index]
  OBVIOUS
<1>6. FilesHandler(a, s, f) = b
  BY <1>1, <1>2, <1>3, <1>4, <1>5 DEF FilesHandler, In
<1>7. /\ DOMAIN b = DOMAIN a /\ b.tree = tree
      /\ b.indexes = [a.indexes EXCEPT ![s.url] = index]
  BY <1>5 DEF WorkShape
<1>8. WorkShape(b)
  BY <1>7 DEF WorkShape
<1>9. ASSUME f.filter = {} PROVE TakesAll(a, s, f, written, gone, index)
  <2>1. wanted = {} /\ taken = DOMAIN files
    BY <1>9
  <2> HIDE DEF taken, wanted
  <2>2. index = files /\ gone = {In(s, f, q) : q \in DOMAIN a.indexes[s.url] \ DOMAIN files}
    BY <1>2, <1>3, <2>1
  <2>3. DOMAIN written = {In(s, f, q) : q \in DOMAIN files}
    BY <1>1, <2>1
  <2>4. ASSUME NEW p \in DOMAIN written PROVE \E q \in DOMAIN files : p = In(s, f, q) /\ written[p] = files[q]
    <3>1. written[p] = files[CHOOSE q \in taken : In(s, f, q) = p] /\ \E q \in taken : In(s, f, q) = p
      BY <1>1, <2>3, <2>1
    <3> QED BY <2>1, <3>1
  <2> QED BY <2>2, <2>3, <2>4 DEF TakesAll
<1>10. Checked(a, FilesHandler(a, s, f), s, written, gone, index) /\ WorkShape(FilesHandler(a, s, f))
  BY <1>4, <1>6, <1>7, <1>8 DEF Checked
<1> HIDE DEF files, wanted, taken
<1> QED BY <1>9, <1>10

LEMMA HandledShape ==
  ASSUME NEW a, WorkShape(a), NEW s, s.url \in Urls, NEW f,
         f.name \in {"files", "branch", "source_repos"}
  PROVE  /\ WorkShape(Handled(a, s, f))
         /\ f.name = "files" => Handled(a, s, f) = FilesHandler(a, s, f)
         /\ f.name # "files" =>
              /\ Handled(a, s, f).indexes = a.indexes
              /\ \A p \in DOMAIN Handled(a, s, f).tree :
                   p[2] = "source-repos" \/ (p \in DOMAIN a.tree /\ Handled(a, s, f).tree[p] = a.tree[p])
<1>1. CASE f.name = "files"
  BY <1>1, FilesHandlerIs DEF Handled
<1>2. CASE f.name = "branch"
  <2>1. PICK b : b = [a EXCEPT !.pushed = @ \cup {s.commit}]
    OBVIOUS
  <2>2. Handled(a, s, f) = b
    BY <1>2, <2>1 DEF Handled, BranchHandler
  <2>3. DOMAIN b = DOMAIN a /\ b.tree = a.tree /\ b.indexes = a.indexes
    BY <2>1 DEF WorkShape
  <2> QED BY <1>2, <2>2, <2>3 DEF WorkShape
<1>3. CASE f.name = "source_repos"
  <2>1. PICK path, x : path[2] = "source-repos" /\ Handled(a, s, f) = [a EXCEPT !.tree = Over(Entry(path, x), @)]
    <3>1. <<DestDir(s, f), "source-repos">>[2] = "source-repos"
      OBVIOUS
    <3> QED BY <1>3, <3>1 DEF Handled, SourceReposHandler
  <2>2. PICK b : b = [a EXCEPT !.tree = Over(Entry(path, x), @)]
    OBVIOUS
  <2>3. DOMAIN b = DOMAIN a /\ b.tree = Over(Entry(path, x), a.tree) /\ b.indexes = a.indexes
    BY <2>2 DEF WorkShape
  <2>4. \A p \in DOMAIN b.tree : p = path \/ (p \in DOMAIN a.tree /\ b.tree[p] = a.tree[p])
    BY <2>3 DEF Over, Entry
  <2> QED BY <1>3, <2>1, <2>2, <2>3, <2>4 DEF WorkShape
<1> QED BY <1>1, <1>2, <1>3

LEMMA AmidStart ==
  ASSUME NEW a, NEW P, NEW T, NEW s, Traced(a, P, T)
  PROVE  Amid(a, P, T, s, 0)
<1>1. ~Brought(s, 0)
  BY DEF Brought
<1>2. ASSUME NEW p \in DOMAIN a.tree, FromFiles(p, a.tree, T)
      PROVE  FromFiles(p, a.tree, Others(T, s) \cup {s}) \/ FromFiles(p, a.tree, Same(T, s))
  BY <1>2 DEF FromFiles, Others, Same
<1>3. Others(T, s) \subseteq T /\ Same(T, s) \subseteq T
  BY DEF Others, Same
<1> QED BY <1>1, <1>2, <1>3 DEF Amid, Traced

LEMMA AmidEnd ==
  ASSUME NEW a, NEW P, NEW T, NEW s, Usual(s), \A t \in T : SameUse(t, s),
         Amid(a, P, T, s, Len(s.formats))
  PROVE  Traced(a, P, Others(T, s) \cup {s})
<1>1. BringsFiles(s) <=> Brought(s, Len(s.formats))
  <2>1. PICK fs, F : fs = s.formats /\ F = ToSet(fs) /\ fs \in Seq(F)
    BY DEF Usual
  <2>2. F = {fs[i] : i \in 1..Len(fs)}
    BY <2>1 DEF ToSet
  <2> QED BY <2>1, <2>2 DEF BringsFiles, Brought
<1>2. \A t \in Same(T, s) : BringsFiles(t) => BringsFiles(s)
  BY DEF Same, SameUse, BringsFiles
<1>3. \A p : FromFiles(p, a.tree, Same(T, s)) => \E t \in Same(T, s) : BringsFiles(t)
  BY DEF FromFiles, BringsFiles
<1> QED BY <1>1, <1>2, <1>3 DEF Amid, Traced

LEMMA AmidStep ==
  ASSUME NEW a, NEW P, NEW T, NEW s, NEW n \in Nat, n < Len(s.formats),
         WorkShape(a), Usual(s), Unfiltered(s), \A t \in T : t.url \in Urls /\ SameUse(t, s), Amid(a, P, T, s, n)
  PROVE  Amid(Handled(a, s, s.formats[n + 1]), P, T, s, n + 1)
<1>1. PICK f : f = s.formats[n + 1]
  OBVIOUS
<1>2. PICK b : b = Handled(a, s, f)
  OBVIOUS
<1>3. n + 1 \in DOMAIN s.formats /\ f \in ToSet(s.formats) /\ s.url \in Urls
      /\ DOMAIN s.formats = 1..Len(s.formats) /\ Len(s.formats) \in Nat
  <2>1. PICK fs, F : fs = s.formats /\ F = ToSet(fs) /\ fs \in Seq(F)
    BY DEF Usual
  <2>2. DOMAIN fs = 1..Len(fs) /\ Len(fs) \in Nat
    BY <2>1
  <2>3. n + 1 \in DOMAIN fs
    BY <2>1, <2>2
  <2> QED BY <1>1, <2>1, <2>2, <2>3 DEF ToSet, Usual
<1>4. f.name \in {"files", "branch", "source_repos"} /\ f.filter = {}
  BY <1>3 DEF Usual, Unfiltered
<1>5. Brought(s, n + 1) <=> Brought(s, n) \/ f.name = "files"
  <2>1. 1..(n + 1) = (1..n) \cup {n + 1}
    OBVIOUS
  <2> QED BY <1>1, <2>1 DEF Brought
<1>6. CASE f.name # "files"
  <2>1. /\ b.indexes = a.indexes
        /\ \A p \in DOMAIN b.tree :
             p[2] = "source-repos" \/ (p \in DOMAIN a.tree /\ b.tree[p] = a.tree[p])
    BY <1>2, <1>3, <1>4, <1>6, HandledShape
  <2>2. ASSUME NEW p \in DOMAIN a.tree, b.tree[p] = a.tree[p], NEW S, FromFiles(p, a.tree, S)
        PROVE  FromFiles(p, b.tree, S)
    BY <2>2 DEF FromFiles
  <2>3. Brought(s, n + 1) <=> Brought(s, n)
    BY <1>5, <1>6
  <2>4. \A p \in DOMAIN b.tree : \/ p \in P \/ p[2] = "source-repos"
                                 \/ FromFiles(p, b.tree, Others(T, s) \cup {s})
                                 \/ ~Brought(s, n) /\ FromFiles(p, b.tree, Same(T, s))
    BY <2>1, <2>2 DEF Amid
  <2> QED BY <1>1, <1>2, <2>1, <2>3, <2>4 DEF Amid
<1>7. CASE f.name = "files"
  <2>1. b = FilesHandler(a, s, f)
    BY <1>2, <1>3, <1>4, <1>7, HandledShape
  <2>2. PICK written, gone, index : Checked(a, b, s, written, gone, index) /\ TakesAll(a, s, f, written, gone, index)
    BY <1>3, <1>4, <2>1, FilesHandlerIs
  <2>3. ~Brought(s, n) /\ Brought(s, n + 1)
    <3>1. \A i \in 1..n : i \in DOMAIN s.formats /\ i # n + 1
      BY <1>3
    <3> QED BY <1>1, <1>3, <1>5, <1>7, <3>1 DEF Brought, Usual
  <2>4. ASSUME NEW p \in DOMAIN b.tree
        PROVE  \/ p \in DOMAIN written /\ b.tree[p] = written[p]
               \/ p \in DOMAIN a.tree \ gone /\ p \notin DOMAIN written /\ b.tree[p] = a.tree[p]
    BY <2>2 DEF Checked, Over, Without
  <2>5. ASSUME NEW p \in DOMAIN written, b.tree[p] = written[p]
        PROVE  FromFiles(p, b.tree, Others(T, s) \cup {s})
    BY <1>3, <1>7, <2>2, <2>5 DEF TakesAll, FromFiles
  <2>6. ASSUME NEW p, FromFiles(p, a.tree, Same(T, s))
        PROVE  p \in DOMAIN written \cup gone
    <3>1. PICK t \in Same(T, s) : \E g \in ToSet(t.formats) :
            g.name = "files" /\ \E q \in DOMAIN UpstreamFiles[t.commit] : p = In(t, g, q)
      BY <2>6 DEF FromFiles
    <3> PICK g \in ToSet(t.formats) : g.name = "files" /\ \E q \in DOMAIN UpstreamFiles[t.commit] : p = In(t, g, q)
      BY <3>1
    <3> PICK q \in DOMAIN UpstreamFiles[t.commit] : p = In(t, g, q)
      OBVIOUS
    <3>2. t.url = s.url /\ t.formats = s.formats /\ t.dir = s.dir
      BY <3>1 DEF Same, SameUse
    <3>3. g = f
      <4>1. PICK fs, F : fs = s.formats /\ F = ToSet(fs) /\ fs \in Seq(F)
        BY DEF Usual
      <4>2. g \in F /\ F = {fs[i] : i \in DOMAIN fs}
        BY <3>1, <3>2, <4>1 DEF ToSet
      <4> QED BY <1>1, <1>3, <1>7, <3>1, <4>1, <4>2 DEF Usual
    <3>4. p = In(s, f, q)
      BY <3>1, <3>2, <3>3 DEF In, DestDir
    <3>5. a.indexes[s.url] = UpstreamFiles[t.commit]
      BY <2>3, <3>1, <3>2 DEF Amid, BringsFiles
    <3> QED BY <2>2, <3>4, <3>5 DEF TakesAll
  <2>7. ASSUME NEW p \in DOMAIN a.tree, b.tree[p] = a.tree[p], NEW S, FromFiles(p, a.tree, S)
        PROVE  FromFiles(p, b.tree, S)
    BY <2>7 DEF FromFiles
  <2>8. \A p \in DOMAIN b.tree : \/ p \in P \/ p[2] = "source-repos"
                                 \/ FromFiles(p, b.tree, Others(T, s) \cup {s})
    BY <2>4, <2>5, <2>6, <2>7 DEF Amid
  <2>9. b.indexes[s.url] = UpstreamFiles[s.commit] /\ \A u \in Urls \ {s.url} : b.indexes[u] = a.indexes[u]
    BY <1>3, <2>2 DEF Checked, TakesAll, WorkShape
  <2>10. \A t \in Others(T, s) : BringsFiles(t) => b.indexes[t.url] = UpstreamFiles[t.commit]
    <3>1. \A t \in Others(T, s) : b.indexes[t.url] = a.indexes[t.url]
      BY <2>9 DEF Others
    <3> QED BY <3>1 DEF Amid
  <2> QED BY <1>1, <1>2, <2>3, <2>8, <2>9, <2>10 DEF Amid
<1> QED BY <1>6, <1>7

\* f is the function of formats that Formatted defines on 0..n.
Formats(f, a, s, n) ==
  f = [k \in 0..n |-> IF k = 0 THEN a ELSE Handled(f[k - 1], s, s.formats[k])]

LEMMA FormatsExist ==
  ASSUME NEW a, NEW s
  PROVE  \A n \in Nat : \E f : Formats(f, a, s, n)
<1> DEFINE T == {n \in Nat : \E f : Formats(f, a, s, n)}
<1>1. 0 \in T
  <2> DEFINE e == [k \in 0..0 |-> a]
  <2>1. Formats(e, a, s, 0)
    BY DEF Formats
  <2> QED BY <2>1
<1>2. ASSUME NEW n \in T \cap Nat PROVE n + 1 \in T
  <2>1. n \in Nat /\ \E f : Formats(f, a, s, n)
    OBVIOUS
  <2> PICK f : Formats(f, a, s, n)
    BY <2>1
  <2> HIDE DEF T
  <2> DEFINE next(k) == IF k = 0 THEN a ELSE Handled(f[k - 1], s, s.formats[k])
             g == [k \in 0..(n + 1) |-> next(k)]
  <2>2. \A k \in 0..n : g[k] = f[k]
    <3>1. \A k \in 0..n : f[k] = next(k)
      BY DEF Formats
    <3>2. \A k \in 0..n : k \in 0..(n + 1)
      BY <2>1
    <3> QED BY <3>1, <3>2
  <2>3. \A k \in 0..(n + 1) : k # 0 => k - 1 \in 0..n /\ g[k - 1] = f[k - 1]
    <3>1. \A k \in 0..(n + 1) : k # 0 => k - 1 \in 0..n
      BY <2>1
    <3> HIDE DEF g
    <3> QED BY <2>2, <3>1
  <2>4. \A k \in 0..(n + 1) : g[k] = IF k = 0 THEN a ELSE Handled(g[k - 1], s, s.formats[k])
    BY <2>3
  <2>5. Formats(g, a, s, n + 1)
    <3>1. g = [k \in 0..(n + 1) |-> g[k]]
      OBVIOUS
    <3> HIDE DEF g
    <3> QED BY <2>4, <3>1 DEF Formats
  <2> HIDE DEF g
  <2> QED BY <2>1, <2>5 DEF T
<1>3. Nat \subseteq T
  <2> HIDE DEF T
  <2> QED BY <1>1, <1>2, SetInduction
<1> QED BY <1>3

LEMMA FormattedIs ==
  ASSUME NEW a, WorkShape(a), NEW s, Usual(s), NEW P, NEW T
  PROVE  /\ WorkShape(Formatted(a, s))
         /\ (/\ Unfiltered(s) /\ Traced(a, P, T)
             /\ \A t \in T : t.url \in Urls /\ SameUse(t, s)) =>
               Traced(Formatted(a, s), P, Others(T, s) \cup {s})
<1> DEFINE N == Len(s.formats)
           plain == Unfiltered(s) /\ Traced(a, P, T) /\ \A t \in T : t.url \in Urls /\ SameUse(t, s)
<1>1. N \in Nat /\ DOMAIN s.formats = 1..N
  <2>1. PICK fs, F : fs = s.formats /\ fs \in Seq(F)
    BY DEF Usual
  <2> QED BY <2>1
<1> HIDE DEF N
<1> DEFINE after == CHOOSE f : Formats(f, a, s, N)
<1>2. Formats(after, a, s, N)
  BY <1>1, FormatsExist
<1>3. Formatted(a, s) = after[N]
  BY DEF Formatted, Formats, N
<1> HIDE DEF after
<1> DEFINE Z == {n \in Nat : n <= N => WorkShape(after[n]) /\ (plain => Amid(after[n], P, T, s, n))}
<1>4. 0 \in Z
  <2>1. after[0] = a
    BY <1>1, <1>2 DEF Formats
  <2> QED BY <2>1, AmidStart
<1>5. ASSUME NEW n \in Z \cap Nat PROVE n + 1 \in Z
  <2>1. SUFFICES ASSUME n \in Nat, n + 1 <= N
                 PROVE  WorkShape(after[n + 1]) /\ (plain => Amid(after[n + 1], P, T, s, n + 1))
    OBVIOUS
  <2>2. PICK b : b = after[n]
    OBVIOUS
  <2>3. WorkShape(b) /\ (plain => Amid(b, P, T, s, n)) /\ n < N
    BY <1>1, <2>1, <2>2
  <2>4. after[n + 1] = Handled(b, s, s.formats[n + 1])
    <3>1. n + 1 \in 0..N /\ n + 1 # 0 /\ (n + 1) - 1 = n
      BY <1>1, <2>1
    <3> QED BY <1>2, <2>2, <3>1 DEF Formats
  <2>5. s.formats[n + 1].name \in {"files", "branch", "source_repos"} /\ s.url \in Urls
    <3>1. n + 1 \in DOMAIN s.formats
      BY <1>1, <2>1
    <3> QED BY <3>1 DEF Usual, ToSet
  <2>6. WorkShape(after[n + 1])
    BY <2>3, <2>4, <2>5, HandledShape
  <2>7. plain => Amid(after[n + 1], P, T, s, n + 1)
    BY <2>1, <2>3, <2>4, AmidStep DEF N
  <2> HIDE DEF plain
  <2> QED BY <2>6, <2>7
<1>6. N \in Z
  <2> HIDE DEF Z
  <2>1. Nat \subseteq Z
    BY <1>4, <1>5, SetInduction
  <2> QED BY <1>1, <2>1
<1>7. WorkShape(after[N]) /\ (plain => Amid(after[N], P, T, s, Len(s.formats)))
  <2> HIDE DEF plain
  <2>1. N <= N
    BY <1>1
  <2> QED BY <1>6, <2>1 DEF N
<1>8. plain => Traced(after[N], P, Others(T, s) \cup {s})
  BY <1>7, AmidEnd
<1> QED BY <1>3, <1>7, <1>8
-----------------------------------------------------------------------------
\* Where the sources todo of a commit c are still to be got: what there is is
\* known of sources with those URLs, and of sources that are at their commit.
Traces(a, c, todo) ==
  \E T : /\ \A t \in T : /\ t.url \in Urls
                         /\ t \in ToSet(c.sources) \/ \E s \in ToSet(todo) : t.url = s.url
         /\ \A t \in T, s \in ToSet(c.sources) : SameUse(t, s)
         /\ Traced(a, DOMAIN c.files, T)

ProjectFiles(a, c) == \A p \in DOMAIN c.files : a.tree[p] = c.files[p]

TreeInv ==
  /\ WorkShape(at) /\ DOMAIN cache = Urls
  /\ job.step \in Getting =>
       /\ job.todo \in Seq(ToSet(job.commit.sources))
       /\ ~job.failed /\ Plain(job.commit.sources) => Traces(at, job.commit, job.todo)
  /\ job.step \in Working \ Getting /\ ~job.failed =>
       ProjectFiles(at, job.commit) /\ (Plain(job.commit.sources) => Traces(at, job.commit, <<>>))

\* What Plain says of the members of a sequence.
LEMMA PlainIs ==
  ASSUME NEW c \in Commits, Plain(c.sources)
  PROVE  \A s, t \in ToSet(c.sources) : SameUse(t, s) /\ Unfiltered(s)
BY DEF Plain, ToSet, SameUse, Unfiltered

LEMMA CommitIs ==
  ASSUME NEW c \in Commits
  PROVE  /\ c.sources \in Seq(ToSet(c.sources))
         /\ \A s \in ToSet(c.sources) : Usual(s)
BY SourcesAssumption DEF Usual

\* The sources of an updated commit are those it had, at other commits.
LEMMA UpdatedIs ==
  ASSUME NEW c \in Commits, NEW u, u = Update(c)
  PROVE  /\ u \in Commits /\ DOMAIN u.files = DOMAIN c.files
         /\ u.project = c.project /\ u.branch = c.branch
         /\ Plain(u.sources) => Plain(c.sources)
         /\ \A t \in ToSet(c.sources) : \E s \in ToSet(u.sources) :
              t.url = s.url /\ t.formats = s.formats /\ t.dir = s.dir
<1>1. u \in Commits
  BY DEF Commits, Update
<1>2. CASE c \notin DOMAIN Updated
  <2>1. u = c
    BY <1>2 DEF Update
  <2> QED BY <1>1, <2>1
<1>3. CASE c \in DOMAIN Updated
  <2>1. u = Updated[c]
    BY <1>3 DEF Update
  <2>2. /\ DOMAIN u.sources = DOMAIN c.sources /\ DOMAIN u.files = DOMAIN c.files
        /\ u.project = c.project /\ u.branch = c.branch
    BY <1>3, <2>1, UpdatedAssumption
  <2>3. ASSUME NEW i \in DOMAIN c.sources
        PROVE  /\ c.sources[i].url = u.sources[i].url
               /\ c.sources[i].formats = u.sources[i].formats
               /\ c.sources[i].dir = u.sources[i].dir
    BY <1>3, <2>1, UpdatedAssumption
  <2>4. ASSUME Plain(u.sources) PROVE Plain(c.sources)
    <3>1. \A s \in ToSet(c.sources) : \A f \in ToSet(s.formats) : f.filter = {}
      <4>1. SUFFICES ASSUME NEW i \in DOMAIN c.sources, NEW f \in ToSet(c.sources[i].formats) PROVE f.filter = {}
        BY DEF ToSet
      <4>2. f \in ToSet(u.sources[i].formats) /\ u.sources[i] \in ToSet(u.sources)
        BY <2>2, <2>3, <4>1 DEF ToSet
      <4> QED BY <2>4, <4>2 DEF Plain
    <3> QED BY <2>2, <2>3, <2>4, <3>1 DEF Plain
  <2>5. \A t \in ToSet(c.sources) : \E s \in ToSet(u.sources) :
          t.url = s.url /\ t.formats = s.formats /\ t.dir = s.dir
    BY <2>2, <2>3 DEF ToSet
  <2> QED BY <1>1, <2>2, <2>4, <2>5
<1> QED BY <1>2, <1>3

LEMMA TracesGetSource ==
  ASSUME JobTyped, TreeInv, GetSource
  PROVE  /\ WorkShape(at') /\ job'.todo \in Seq(ToSet(job.commit.sources))
         /\ ~job.failed /\ Plain(job.commit.sources) => Traces(at', job.commit, job'.todo)
<1>1. PICK c : c = job.commit
  OBVIOUS
<1>2. /\ job.step \in Getting /\ job.todo # <<>> /\ job'.todo = Tail(job.todo)
      /\ at' = Formatted(at, Head(job.todo)) /\ WorkShape(at) /\ c \in Commits
  BY <1>1, GetSourceGoes DEF TreeInv, JobTyped, Working
<1>3. PICK s : s = Head(job.todo)
  OBVIOUS
<1>4. PICK t, S : t = job.todo /\ S = ToSet(c.sources) /\ t \in Seq(S) /\ t # <<>>
  BY <1>1, <1>2 DEF TreeInv
<1>5. s \in S /\ Tail(t) \in Seq(S)
  BY <1>3, <1>4, HeadTailProperties
<1>6. ToSet(t) \subseteq ToSet(Tail(t)) \cup {s}
  <2>1. SUFFICES ASSUME NEW i \in DOMAIN t, i # 1 PROVE t[i] \in ToSet(Tail(t))
    BY <1>3, <1>4 DEF ToSet
  <2>2. i \in 2..Len(t) /\ DOMAIN Tail(t) = 1..(Len(t) - 1) /\ Len(t) \in Nat
    BY <1>4, <2>1, HeadTailProperties
  <2>3. i - 1 \in DOMAIN Tail(t) /\ Tail(t)[i - 1] = t[i]
    BY <1>4, <2>2
  <2> QED BY <2>3 DEF ToSet
<1>7. Usual(s) /\ WorkShape(at')
  BY <1>2, <1>3, <1>4, <1>5, CommitIs, FormattedIs
<1>8. ASSUME ~job.failed, Plain(c.sources) PROVE Traces(at', c, job'.todo)
  <2>1. PICK T : /\ \A x \in T : /\ x.url \in Urls
                                 /\ x \in S \/ \E y \in ToSet(t) : x.url = y.url
                 /\ \A x \in T, y \in S : SameUse(x, y)
                 /\ Traced(at, DOMAIN c.files, T)
    BY <1>1, <1>2, <1>4, <1>8 DEF TreeInv, Traces
  <2>2. PICK U : U = Others(T, s) \cup {s}
    OBVIOUS
  <2>3. \A y \in S : SameUse(s, y) /\ Unfiltered(s)
    BY <1>2, <1>4, <1>5, <1>8, PlainIs
  <2>4. Traced(at', DOMAIN c.files, U)
    BY <1>2, <1>3, <1>5, <1>7, <2>1, <2>2, <2>3, FormattedIs
  <2>5. \A x \in U : /\ x.url \in Urls
                     /\ x \in S \/ \E y \in ToSet(Tail(t)) : x.url = y.url
    <3>1. s.url \in Urls
      BY <1>7 DEF Usual
    <3> QED BY <1>5, <1>6, <2>1, <2>2, <3>1 DEF Others
  <2>6. \A x \in U, y \in S : SameUse(x, y)
    BY <2>1, <2>2, <2>3 DEF Others
  <2> QED BY <1>2, <1>4, <2>4, <2>5, <2>6 DEF Traces
<1> QED BY <1>1, <1>2, <1>4, <1>5, <1>7, <1>8

LEMMA TracesReset ==
  ASSUME JobTyped, TreeInv, Reset
  PROVE  /\ WorkShape(at')
         /\ ~job.failed => /\ ProjectFiles(at', job.commit)
                           /\ Plain(job.commit.sources) => Traces(at', job.commit, <<>>)
<1>1. PICK c : c = job.commit
  OBVIOUS
<1>2. job.step \in Getting /\ job.todo = <<>> /\ at' = ResetHard(at, c) /\ WorkShape(at)
  BY <1>1, ResetGoes DEF TreeInv
<1>3. PICK tree : tree = Over(c.files, at.tree)
  OBVIOUS
<1>4. at' = [at EXCEPT !.tree = tree]
  BY <1>2, <1>3 DEF ResetHard
<1>5. DOMAIN at' = DOMAIN at /\ at'.tree = tree /\ at'.indexes = at.indexes
  BY <1>2, <1>4 DEF WorkShape
<1>6. WorkShape(at')
  BY <1>2, <1>5 DEF WorkShape
<1>7. \A p \in DOMAIN tree : p \in DOMAIN c.files \/ (p \in DOMAIN at.tree /\ tree[p] = at.tree[p])
  BY <1>3 DEF Over
<1>8. \A p \in DOMAIN c.files : tree[p] = c.files[p]
  BY <1>3 DEF Over
<1>9. ASSUME NEW T, Traced(at, DOMAIN c.files, T) PROVE Traced(at', DOMAIN c.files, T)
  <2>1. ASSUME NEW p \in DOMAIN at.tree, tree[p] = at.tree[p], FromFiles(p, at.tree, T)
        PROVE  FromFiles(p, tree, T)
    BY <2>1 DEF FromFiles
  <2> QED BY <1>5, <1>7, <1>9, <2>1 DEF Traced
<1>10. Traces(at, c, <<>>) => Traces(at', c, <<>>)
  BY <1>9 DEF Traces
<1> QED BY <1>1, <1>2, <1>5, <1>6, <1>8, <1>10 DEF TreeInv, ProjectFiles

LEMMA TracesUpdated ==
  ASSUME JobTyped, TreeInv, job.step = "clean", ~job.failed,
         UNCHANGED at, NEW u, u = Update(job.commit), Plain(u.sources)
  PROVE  Traces(at', u, u.sources)
<1>1. PICK c : c = job.commit
  OBVIOUS
<1>2. c \in Commits /\ job.step \in Working \ Getting
  BY <1>1 DEF JobTyped, Working, Getting
<1>3. /\ u \in Commits /\ DOMAIN u.files = DOMAIN c.files /\ Plain(c.sources)
      /\ \A t \in ToSet(c.sources) : \E s \in ToSet(u.sources) :
           t.url = s.url /\ t.formats = s.formats /\ t.dir = s.dir
  BY <1>1, <1>2, UpdatedIs
<1>4. ToSet(<<>>) = {}
  BY DEF ToSet
<1>5. PICK T : /\ \A t \in T : t.url \in Urls /\ t \in ToSet(c.sources)
               /\ Traced(at, DOMAIN c.files, T)
  BY <1>1, <1>2, <1>3, <1>4 DEF TreeInv, Traces
<1>6. \A t \in T : \E s \in ToSet(u.sources) : t.url = s.url
  BY <1>3, <1>5
<1>7. ASSUME NEW t \in T, NEW y \in ToSet(u.sources) PROVE SameUse(t, y)
  <2>1. PICK s \in ToSet(u.sources) : t.url = s.url /\ t.formats = s.formats /\ t.dir = s.dir
    BY <1>3, <1>5
  <2>2. SameUse(s, y)
    BY <1>3, PlainIs
  <2> QED BY <2>1, <2>2 DEF SameUse
<1>8. Traced(at', DOMAIN u.files, T)
  BY <1>3, <1>5
<1> QED BY <1>5, <1>6, <1>7, <1>8 DEF Traces

\* The steps after sources are got, which leave the work tree as it is.
LEMMA TreeStays ==
  ASSUME JobTyped, TreeInv, UNCHANGED <<at, cache>>, job'.step \notin Getting,
         job'.step \in Working /\ ~job'.failed =>
           job.step \in Working \ Getting /\ job'.commit = job.commit /\ job'.failed = job.failed
  PROVE  TreeInv'
BY DEF TreeInv, ProjectFiles, Traces

LEMMA NoWorkIs ==
  /\ {"tree", "indexes"} \subseteq DOMAIN NoWork /\ WorkShape(NoWork) /\ DOMAIN NoIndexes = Urls
BY DEF NoWork, WorkShape, NoIndexes

LEMMA TreeStart ==
  ASSUME TreeInv, NEW kind, Start(kind)
  PROVE  TreeInv'
<1>1. PICK c \in Commits :
        /\ job'.step = "get" /\ job'.commit = c /\ job'.failed = FALSE /\ job'.todo = c.sources
        /\ at' = [NoWork EXCEPT !.tree = c.files, !.indexes = IF kind = "pod" THEN @ ELSE cache]
        /\ cache' = cache
  BY StartGoes
<1>2. /\ {"tree", "indexes"} \subseteq DOMAIN at' /\ at'.tree = c.files
      /\ at'.indexes = IF kind = "pod" THEN NoIndexes ELSE cache
  BY <1>1 DEF NoWork
<1>3. WorkShape(at')
  BY <1>2, NoWorkIs DEF WorkShape, TreeInv
<1>4. Traced(at', DOMAIN c.files, {})
  BY <1>2 DEF Traced
<1>5. Traces(at', c, c.sources)
  BY <1>4 DEF Traces
<1>6. c.sources \in Seq(ToSet(c.sources))
  BY CommitIs
<1> QED BY <1>1, <1>3, <1>5, <1>6 DEF TreeInv, Working, Getting

LEMMA TreeStep ==
  ASSUME JobTyped, TreeInv, [Next]_vars
  PROVE  TreeInv'
<1>1. ASSUME NEW kind, Start(kind) PROVE TreeInv'
  BY <1>1, TreeStart
<1>2. CASE GetSource
  <2>1. /\ job'.step = job.step /\ job'.commit = job.commit /\ job'.failed = job.failed
        /\ job.step \in Getting /\ cache' = cache
    BY <1>2, GetSourceGoes DEF Goes, Kept3, JobTyped, Working
  <2>2. /\ WorkShape(at') /\ job'.todo \in Seq(ToSet(job.commit.sources))
        /\ ~job.failed /\ Plain(job.commit.sources) => Traces(at', job.commit, job'.todo)
    BY <1>2, TracesGetSource
  <2> QED BY <2>1, <2>2 DEF TreeInv
<1>3. CASE GetFails
  <2>1. UNCHANGED <<at, cache>> /\ (job'.step = "end" \/ (job'.step = "mirrors" /\ job'.failed = TRUE))
    BY <1>3, GetFailsGoes DEF Goes, UnchangedElse
  <2> QED BY <2>1, TreeStays DEF Working, Getting
<1>4. CASE Reset
  <2>1. /\ job'.step \in Working \ Getting
        /\ job'.commit = job.commit /\ job'.failed = job.failed
        /\ job.step \in Getting /\ cache' = cache
    BY <1>4, ResetGoes DEF Goes, Kept3, JobTyped, Working, Getting
  <2>2. /\ WorkShape(at')
        /\ ~job.failed => /\ ProjectFiles(at', job.commit)
                          /\ Plain(job.commit.sources) => Traces(at', job.commit, <<>>)
    BY <1>4, TracesReset
  <2> QED BY <2>1, <2>2 DEF TreeInv
<1>5. CASE Setup
  <2>1. /\ job'.step = "clean" /\ job.step = "setup" /\ UNCHANGED <<at, cache>>
        /\ job'.commit = job.commit /\ job'.failed = job.failed
    BY <1>5, SetupGoes DEF Goes, Kept3, JobTyped, Working
  <2> QED BY <2>1, TreeStays DEF Working, Getting
<1>6. ASSUME UNCHANGED <<job, at, cache>> PROVE TreeInv'
  BY <1>6 DEF TreeInv
<1>7. CASE Cleaned
  <2>1. /\ job.step = "clean" /\ UNCHANGED <<at, cache>>
        /\ {"commit", "failed"} \subseteq DOMAIN job
    BY <1>7, CleanedGoes DEF JobTyped, Working
  <2>2. CASE Goes("mirrors", Kept3)
    <3>1. job'.step = "mirrors" /\ job'.commit = job.commit /\ job'.failed = job.failed
      BY <2>1, <2>2 DEF Goes, Kept3
    <3> QED BY <2>1, <3>1, TreeStays DEF Working, Getting
  <2>4. CASE Goes("mirrors", {"kind", "commit"}) /\ job'.failed = TRUE
    BY <2>1, <2>4, TreeStays DEF Goes, Working, Getting
  <2>3. CASE /\ Goes("get again", {"kind", "failed"})
             /\ job'.commit = Update(job.commit) /\ job'.todo = job'.commit.sources
    <3>1. job'.step = "get again" /\ job'.failed = job.failed
      BY <2>1, <2>3 DEF Goes
    <3>2. job'.commit \in Commits
      <4>1. job.commit \in Commits
        BY <2>1 DEF JobTyped, Working
      <4> QED BY <2>3, <4>1, UpdatedIs
    <3>3. job'.commit.sources \in Seq(ToSet(job'.commit.sources))
      BY <3>2, CommitIs
    <3>4. ~job.failed /\ Plain(job'.commit.sources) => Traces(at', job'.commit, job'.commit.sources)
      BY <2>1, <2>3, TracesUpdated
    <3> QED BY <2>1, <2>3, <3>1, <3>3, <3>4 DEF TreeInv, Working
  <2> QED BY <1>7, <2>2, <2>3, <2>4, CleanedGoes
<1>8. ASSUME job.step \in {"mirrors", "chroot", "shell", "environ"}, UnchangedElse,
             NEW s \in {"chroot", "shell", "environ", "run"}, Goes(s, Kept4)
      PROVE  TreeInv'
  <2>1. UNCHANGED <<at, cache>> /\ job.step \in Working \ Getting
    BY <1>8 DEF UnchangedElse, Working, Getting
  <2>2. job'.step = s /\ job'.commit = job.commit /\ job'.failed = job.failed
    BY <1>8, <2>1 DEF Goes, Kept3, Kept4, JobTyped
  <2> QED BY <2>1, <2>2, TreeStays DEF Getting
<1>9. ASSUME Goes("end", {}), UnchangedElse PROVE TreeInv'
  BY <1>9, TreeStays DEF Goes, UnchangedElse, Working, Getting
<1>11. CASE Preparing
  BY <1>8, <1>9, <1>11, PreparingGoes
<1>13. CASE Environ
  BY <1>8, <1>9, <1>13, EnvironGoes DEF Kept4
<1>14. ASSUME job'.step \in {"end", "script"}, UNCHANGED <<at, cache>> PROVE TreeInv'
  BY <1>14, TreeStays DEF Working, Getting
<1>15. \A f : Ended(f).step = "end"
  BY DEF Ended
<1>16. CASE Run
  BY <1>14, <1>15, <1>16 DEF Run
<1>17. CASE RunUpdate
  BY <1>14, <1>17 DEF RunUpdate
<1>18. CASE UpdateEnds
  BY <1>14, <1>15, <1>18 DEF UpdateEnds
<1>19. CASE End
  <2>1. /\ job'.step = "idle" /\ at' = NoWork
        /\ cache' = IF job.kind = "pod" THEN cache ELSE at.indexes
    BY <1>19 DEF End, NoJob
  <2> QED BY <2>1, NoWorkIs DEF TreeInv, WorkShape, Working, Getting
<1>20. Clean \/ UpdateImages \/ UNCHANGED vars => UNCHANGED <<job, at, cache>>
  BY DEF Clean, UpdateImages, vars
<1> QED
  BY <1>1, <1>2, <1>3, <1>4, <1>5, <1>6, <1>7, <1>11, <1>13, <1>16, <1>17, <1>18,
     <1>19, <1>20 DEF Next, Preparing

\* The invariant of a job's work tree.
THEOREM TreeInvHolds == Spec => []TreeInv
<1>1. Init => TreeInv
  BY NoWorkIs DEF Init, NoJob, TreeInv, Working, Getting
<1>2. JobTyped /\ TreeInv /\ [Next]_vars => TreeInv'
  BY TreeStep
<1> QED BY <1>1, <1>2, JobsAreTyped, PTL DEF Spec

\* Whatever the jobs before left in the caches and although a poll job gets
\* its sources twice: a script finds the files of its project as in its
\* commit, and else only what a source has at the commit it is at now.
THEOREM ScriptSeesItsCommitAlways == Spec => []ScriptSeesItsCommit
<1>1. ASSUME TreeInv PROVE ScriptSeesItsCommit
  <2>1. SUFFICES ASSUME job.step = "run", ~job.failed, NEW p \in DOMAIN at.tree
                 PROVE  IF p \in DOMAIN job.commit.files THEN at.tree[p] = job.commit.files[p]
                        ELSE Plain(job.commit.sources) =>
                               \/ p[2] = "source-repos"
                               \/ \E s \in ToSet(job.commit.sources) : \E f \in ToSet(s.formats) :
                                    \E q \in DOMAIN UpstreamFiles[s.commit] :
                                      /\ p = <<DestDir(s, f) \o q[1], q[2]>>
                                      /\ at.tree[p] = UpstreamFiles[s.commit][q]
    BY DEF ScriptSeesItsCommit
  <2>2. /\ ProjectFiles(at, job.commit)
        /\ Plain(job.commit.sources) => Traces(at, job.commit, <<>>)
    BY <1>1, <2>1 DEF TreeInv, Working, Getting
  <2>3. ASSUME Plain(job.commit.sources), p \notin DOMAIN job.commit.files, p[2] # "source-repos"
        PROVE  FromFiles(p, at.tree, ToSet(job.commit.sources))
    <3>1. ToSet(<<>>) = {}
      BY DEF ToSet
    <3>2. PICK T : (\A t \in T : t \in ToSet(job.commit.sources)) /\ Traced(at, DOMAIN job.commit.files, T)
      BY <2>2, <2>3, <3>1 DEF Traces
    <3> QED BY <2>1, <2>3, <3>2 DEF Traced, FromFiles
  <2> QED BY <2>2, <2>3 DEF ProjectFiles, FromFiles, In
<1> QED BY <1>1, TreeInvHolds, PTL

-----------------------------------------------------------------------------
(* The variables of a script.                                              *)

\* The functions of ScriptHasItsVariables.
Meant(project, branch, name, s) == project \in s.projects /\ branch \in s.branches /\ name \in s.names
FirstMeant(project, branch, name) ==
  {i \in DOMAIN SecretsFile : /\ Meant(project, branch, name, SecretsFile[i])
                              /\ \A k \in 1..(i - 1) : ~Meant(project, branch, name, SecretsFile[k])}
DataOf(project, branch, name) == {SecretsFile[i].data : i \in FirstMeant(project, branch, name)}

LEMMA MinIs ==
  ASSUME NEW S, S \subseteq Nat, S # {}
  PROVE  Min(S) \in S /\ \A y \in S : Min(S) <= y
<1>1. \E x \in S : \A y \in S : x <= y
  BY LeastNat
<1> QED BY <1>1 DEF Min

\* Filtered by project and branch first and by name then, or by all at once.
LEMMA ResolvedIs ==
  ASSUME NEW project, NEW branch, NEW name
  PROVE  LET d == ResolvedSecret(FilteredSecrets(SecretsFile, project, branch), name)
             all == DataOf(project, branch, name)
         IN (d = Missing /\ all = {}) \/ (d # Missing /\ all = {d})
<1>1. PICK s, S : s = SecretsFile /\ S = ToSet(s) /\ s \in Seq(S) /\ \A x \in S : x.data # Missing
  BY SecretsAssumption
<1>2. PICK I : I = {i \in DOMAIN s : project \in s[i].projects /\ branch \in s[i].branches}
  OBVIOUS
<1>3. PICK t : t = Picked(s, I)
  OBVIOUS
<1>4. FilteredSecrets(SecretsFile, project, branch) = t
  BY <1>1, <1>2, <1>3 DEF FilteredSecrets
<1>5. t \in Seq(S) /\ \E p : PickedFrom(p, t, s, I, Len(s))
  BY <1>1, <1>3, PickedPlaces
<1> PICK p : PickedFrom(p, t, s, I, Len(s))
  BY <1>5
<1>6. DOMAIN s = 1..Len(s) /\ Len(s) \in Nat /\ DOMAIN t = 1..Len(t) /\ Len(t) \in Nat
      /\ \A i \in DOMAIN s : s[i] \in S
  BY <1>1, <1>5
<1>7. /\ \A k \in 1..Len(t) : p[k] \in I /\ p[k] \in 1..Len(s) /\ t[k] = s[p[k]]
      /\ \A j, k \in 1..Len(t) : j < k => p[j] < p[k]
      /\ \A i \in I : \E k \in 1..Len(t) : p[k] = i
  <2>1. I \cap (1..Len(s)) = I
    BY <1>2, <1>6
  <2> QED BY <2>1 DEF PickedFrom
<1> DEFINE matching == {k \in DOMAIN t : name \in t[k].names}
<1>8. PICK d : d = IF matching = {} THEN Missing ELSE t[Min(matching)].data
  OBVIOUS
<1>9. ResolvedSecret(FilteredSecrets(SecretsFile, project, branch), name) = d
  BY <1>4, <1>8 DEF ResolvedSecret
<1>10. \A i \in DOMAIN s : Meant(project, branch, name, s[i]) <=> i \in I /\ name \in s[i].names
  BY <1>2 DEF Meant
<1>11. CASE matching = {}
  <2>1. \A i \in DOMAIN s : ~Meant(project, branch, name, s[i])
    BY <1>6, <1>7, <1>10, <1>11
  <2>2. DataOf(project, branch, name) = {}
    BY <1>1, <2>1 DEF DataOf, FirstMeant
  <2> QED BY <1>8, <1>9, <1>11, <2>2
<1>12. CASE matching # {}
  <2>1. PICK m \in matching : m = Min(matching) /\ \A k \in matching : m <= k
    <3>1. matching \subseteq Nat
      BY <1>6
    <3> HIDE DEF matching
    <3> QED BY <1>12, <3>1, MinIs
  <2>2. m \in 1..Len(t) /\ p[m] \in I /\ p[m] \in 1..Len(s) /\ t[m] = s[p[m]] /\ name \in s[p[m]].names
    BY <1>6, <1>7, <2>1
  <2>3. Meant(project, branch, name, s[p[m]])
    BY <1>6, <1>10, <2>2
  <2>4. ASSUME NEW i \in 1..(p[m] - 1) PROVE ~Meant(project, branch, name, s[i])
    <3>1. i \in DOMAIN s /\ i < p[m]
      BY <1>6, <2>2, <2>4
    <3>2. SUFFICES ASSUME i \in I, name \in s[i].names PROVE FALSE
      BY <1>10, <3>1
    <3>3. PICK k \in 1..Len(t) : p[k] = i
      BY <1>7, <3>2
    <3>4. k \in matching
      BY <1>6, <1>7, <3>2, <3>3
    <3>5. m <= k /\ m # k
      BY <2>1, <2>2, <3>1, <3>3, <3>4
    <3>6. p[m] < p[k]
      BY <1>6, <1>7, <2>2, <3>5
    <3> QED BY <1>7, <2>2, <3>1, <3>3, <3>6
  <2>5. ASSUME NEW i \in DOMAIN s, Meant(project, branch, name, s[i]), i # p[m]
        PROVE  p[m] \in 1..(i - 1)
    <3>1. ~(i \in 1..(p[m] - 1))
      BY <2>4, <2>5
    <3> QED BY <1>6, <2>2, <2>5, <3>1
  <2>6. FirstMeant(project, branch, name) = {p[m]}
    <3>1. p[m] \in FirstMeant(project, branch, name)
      BY <1>1, <1>6, <2>2, <2>3, <2>4 DEF FirstMeant
    <3>2. \A i \in FirstMeant(project, branch, name) : i = p[m]
      BY <1>1, <2>3, <2>5 DEF FirstMeant
    <3> QED BY <3>1, <3>2
  <2>7. d = s[p[m]].data /\ d # Missing
    BY <1>1, <1>6, <1>8, <1>12, <2>1, <2>2
  <2>8. DataOf(project, branch, name) = {d}
    BY <1>1, <2>6, <2>7 DEF DataOf
  <2> QED BY <1>9, <2>7, <2>8
<1> QED BY <1>11, <1>12

KnownTo(runtime, v) == v \in DOMAIN runtime /\ runtime[v].safe
FoundFor(project, branch, runtime, r) ==
  IF r.provider = "runtimeEnv"
  THEN {runtime[v].value : v \in {v \in {r.variable} : KnownTo(runtime, v)}}
  ELSE {d[r.key] : d \in DataOf(project, branch, r.secret)}
ValueOf(project, branch, runtime, r) ==
  IF "value" \in DOMAIN r THEN {r.value}
  ELSE IF FoundFor(project, branch, runtime, r) # {} THEN FoundFor(project, branch, runtime, r)
  ELSE {r[x] : x \in DOMAIN r \cap {"default"}}

\* What is served is the one value there is, or there is none.
Agrees(v, all) == (\E x : v = Value(x) /\ all = {x}) \/ (v = Missing /\ all = {})

LEMMA Marks ==
  /\ Missing # Invalid
  /\ \A x : /\ Value(x) # Invalid /\ Value(x) # Missing
            /\ Value(x).value = x /\ "value" \in DOMAIN Value(x)
  /\ "value" \notin DOMAIN Missing
<1>1. DOMAIN Missing = {"missing"} /\ DOMAIN Invalid = {"error"}
  BY DEF Missing, Invalid
<1>2. \A x : DOMAIN Value(x) = {"value"} /\ Value(x).value = x
  BY DEF Value
<1> QED BY <1>1, <1>2

LEMMA RuntimeIs ==
  ASSUME NEW runtime, NEW v
  PROVE  LET db == Database(runtime)
         IN /\ v \in DOMAIN db <=> KnownTo(runtime, v)
            /\ v \in DOMAIN db => db[v] = runtime[v].value
BY DEF Database, KnownTo

LEMMA ProvidedIs ==
  ASSUME NEW project, NEW branch, NEW runtime, NEW r,
         NEW given, given = Provided(r, FilteredSecrets(SecretsFile, project, branch), Database(runtime)),
         given # Invalid
  PROVE  Agrees(given, FoundFor(project, branch, runtime, r))
<1>1. PICK secrets, database : secrets = FilteredSecrets(SecretsFile, project, branch)
                               /\ database = Database(runtime)
  OBVIOUS
<1>2. given = Provided(r, secrets, database)
  BY <1>1
<1>3. r.provider \in {"secretKeyRef", "runtimeEnv"}
  BY <1>2 DEF Provided
<1>4. CASE r.provider = "runtimeEnv"
  <2>1. given = IF r.variable \in DOMAIN database THEN Value(database[r.variable]) ELSE Missing
    BY <1>2, <1>4 DEF Provided, RuntimeEnv
  <2>2. FoundFor(project, branch, runtime, r)
          = {runtime[v].value : v \in {v \in {r.variable} : KnownTo(runtime, v)}}
    BY <1>4 DEF FoundFor
  <2>3. /\ r.variable \in DOMAIN database <=> KnownTo(runtime, r.variable)
        /\ r.variable \in DOMAIN database => database[r.variable] = runtime[r.variable].value
    BY <1>1, RuntimeIs
  <2>4. CASE KnownTo(runtime, r.variable)
    BY <2>1, <2>2, <2>3, <2>4 DEF Agrees
  <2>5. CASE ~KnownTo(runtime, r.variable)
    BY <2>1, <2>2, <2>3, <2>5 DEF Agrees
  <2> QED BY <2>4, <2>5
<1>5. CASE r.provider = "secretKeyRef"
  <2>1. PICK d : d = ResolvedSecret(secrets, r.secret)
    OBVIOUS
  <2>2. given = IF d = Missing THEN Missing ELSE IF r.key \in DOMAIN d THEN Value(d[r.key]) ELSE Invalid
    BY <1>2, <1>5, <2>1 DEF Provided, SecretKeyRef
  <2>3. PICK all : all = DataOf(project, branch, r.secret)
    OBVIOUS
  <2>4. FoundFor(project, branch, runtime, r) = {e[r.key] : e \in all}
    BY <1>5, <2>3 DEF FoundFor
  <2>5. (d = Missing /\ all = {}) \/ (d # Missing /\ all = {d})
    BY <1>1, <2>1, <2>3, ResolvedIs
  <2>6. CASE d = Missing
    BY <2>2, <2>4, <2>5, <2>6 DEF Agrees
  <2>7. CASE d # Missing
    <3>1. given = Value(d[r.key])
      BY <2>2, <2>7
    <3>2. FoundFor(project, branch, runtime, r) = {d[r.key]}
      BY <2>4, <2>5, <2>7
    <3> QED BY <3>1, <3>2 DEF Agrees
  <2> QED BY <2>6, <2>7
<1> QED BY <1>3, <1>4, <1>5

LEMMA ServedIs ==
  ASSUME NEW project, NEW branch, NEW runtime, NEW r, NEW v,
         v = Served(r, FilteredSecrets(SecretsFile, project, branch), Database(runtime)), v # Invalid
  PROVE  "name" \in DOMAIN r /\ Agrees(v, ValueOf(project, branch, runtime, r))
<1>1. PICK given : given = Provided(r, FilteredSecrets(SecretsFile, project, branch), Database(runtime))
  OBVIOUS
<1>2. "name" \in DOMAIN r
  BY DEF Served
<1>3. CASE "value" \in DOMAIN r
  <2>1. v = Value(r.value)
    BY <1>2, <1>3 DEF Served
  <2>2. ValueOf(project, branch, runtime, r) = {r.value}
    BY <1>3 DEF ValueOf
  <2> QED BY <1>2, <2>1, <2>2 DEF Agrees
<1>4. CASE "value" \notin DOMAIN r
  <2>1. "provider" \in DOMAIN r
    BY <1>2, <1>4 DEF Served
  <2>2. DOMAIN r \cap {"value", "provider"} # {}
    BY <2>1
  <2>3. v = IF given # Missing THEN given
            ELSE IF ~Get(r, "optional", "default" \in DOMAIN r) THEN Invalid
            ELSE IF "default" \in DOMAIN r THEN Value(r.default) ELSE Missing
    BY <1>1, <1>2, <1>4, <2>2 DEF Served
  <2>4. given # Invalid
    BY <2>3, Marks
  <2>5. Agrees(given, FoundFor(project, branch, runtime, r))
    BY <1>1, <2>4, ProvidedIs
  <2>6. CASE given # Missing
    <3>1. PICK x : given = Value(x) /\ FoundFor(project, branch, runtime, r) = {x}
      BY <2>5, <2>6 DEF Agrees
    <3>2. ValueOf(project, branch, runtime, r) = {x}
      BY <1>4, <3>1 DEF ValueOf
    <3> QED BY <1>2, <2>3, <2>6, <3>1, <3>2 DEF Agrees
  <2>7. CASE given = Missing
    <3>1. FoundFor(project, branch, runtime, r) = {}
      BY <2>5, <2>7, Marks DEF Agrees
    <3>2. ValueOf(project, branch, runtime, r) = {r[x] : x \in DOMAIN r \cap {"default"}}
      BY <1>4, <3>1 DEF ValueOf
    <3>3. CASE "default" \in DOMAIN r
      <4>1. v = Value(r.default)
        BY <2>3, <2>7, <3>3
      <4>2. ValueOf(project, branch, runtime, r) = {r.default}
        BY <3>2, <3>3
      <4> QED BY <1>2, <4>1, <4>2 DEF Agrees
    <3>4. CASE "default" \notin DOMAIN r
      <4>1. v = Missing
        BY <2>3, <2>7, <3>4
      <4>2. ValueOf(project, branch, runtime, r) = {}
        BY <3>2, <3>4
      <4> QED BY <1>2, <4>1, <4>2 DEF Agrees
    <3> QED BY <3>3, <3>4
  <2> QED BY <2>6, <2>7
<1> QED BY <1>3, <1>4

LEMMA LastOf ==
  ASSUME NEW n \in Nat, NEW G, G \subseteq 1..n, G # {}
  PROVE  Max(G) \in G /\ \A k \in G : k <= Max(G)
<1>1. PICK x \in {n - k : k \in G} : \A y \in {n - k : k \in G} : x <= y
  <2>1. \A k \in G : n - k \in Nat
    OBVIOUS
  <2>2. {n - k : k \in G} \subseteq Nat /\ {n - k : k \in G} # {}
    BY <2>1
  <2> QED BY <2>2, LeastNat
<1>2. PICK m \in G : x = n - m
  OBVIOUS
<1>3. \A k \in G : m >= k /\ k <= m
  <2>1. \A k \in G : n - m <= n - k /\ k \in Nat /\ m \in Nat
    BY <1>1, <1>2
  <2> QED BY <2>1
<1>4. \E i \in G : \A k \in G : i >= k
  BY <1>3
<1>5. Max(G) \in G /\ \A k \in G : Max(G) >= k
  BY <1>4 DEF Max
<1> QED BY <1>5

ServedAt(requests, secrets, database, i) == Served(requests[i], secrets, database)
GivenFor(requests, secrets, database, v) ==
  {i \in DOMAIN requests :
     requests[i].name = v /\ "value" \in DOMAIN ServedAt(requests, secrets, database, i)}

\* What the variables are, of requests that can all be served.
VarsAre(vars1, requests, secrets, database) ==
  /\ \A i \in DOMAIN requests : ServedAt(requests, secrets, database, i) # Invalid
  /\ DOMAIN vars1 = {v \in {requests[i].name : i \in DOMAIN requests} :
                       GivenFor(requests, secrets, database, v) # {}}
  /\ \A v \in DOMAIN vars1 :
       \E m \in GivenFor(requests, secrets, database, v) :
         /\ m = Max(GivenFor(requests, secrets, database, v))
         /\ vars1[v] = ServedAt(requests, secrets, database, m).value
Servable(vars1, requests, secrets, database) ==
  vars1 # Invalid \/ \A i \in DOMAIN requests : ServedAt(requests, secrets, database, i) # Invalid

LEMMA EnvVarsAre ==
  ASSUME NEW R, NEW requests, requests \in Seq(R), NEW secrets, NEW database,
         NEW vars1, vars1 = EnvVars(requests, secrets, database),
         Servable(vars1, requests, secrets, database)
  PROVE  VarsAre(vars1, requests, secrets, database)
<1>1. PICK served : served = [i \in DOMAIN requests |-> ServedAt(requests, secrets, database, i)]
  OBVIOUS
<1>2. PICK given : given = {i \in DOMAIN requests : "value" \in DOMAIN served[i]}
  OBVIOUS
<1> DEFINE last(v) == CHOOSE i \in given : requests[i].name = v
                        /\ \A k \in given : requests[k].name = v => k <= i
<1>3. vars1 = IF Invalid \in Range(served) THEN Invalid
              ELSE [v \in {requests[i].name : i \in given} |-> served[last(v)].value]
  BY <1>1, <1>2 DEF EnvVars, ServedAt
<1>4. Invalid \notin Range(served)
  BY <1>1, <1>3 DEF Range, Servable
<1>5. \A i \in DOMAIN requests : ServedAt(requests, secrets, database, i) # Invalid
  BY <1>1, <1>4 DEF Range
<1>6. \A v : GivenFor(requests, secrets, database, v) = {i \in given : requests[i].name = v}
  BY <1>1, <1>2 DEF GivenFor
<1>7. DOMAIN vars1 = {requests[i].name : i \in given} /\ \A v \in DOMAIN vars1 : vars1[v] = served[last(v)].value
  BY <1>3, <1>4
<1>8. given \subseteq DOMAIN requests
  BY <1>2
<1>9. DOMAIN vars1 = {v \in {requests[i].name : i \in DOMAIN requests} :
                        GivenFor(requests, secrets, database, v) # {}}
  <2>1. PICK N : N = {requests[i].name : i \in given}
    OBVIOUS
  <2>2. PICK M : M = {v \in {requests[i].name : i \in DOMAIN requests} :
                       GivenFor(requests, secrets, database, v) # {}}
    OBVIOUS
  <2>3. \A v \in N : v \in M
    <3>1. SUFFICES ASSUME NEW i \in given PROVE requests[i].name \in M
      BY <2>1
    <3>2. i \in GivenFor(requests, secrets, database, requests[i].name)
      BY <1>6
    <3> QED BY <1>8, <2>2, <3>2
  <2>4. \A v \in M : v \in N
    BY <1>6, <2>1, <2>2
  <2>5. DOMAIN vars1 = N
    BY <1>7, <2>1
  <2> QED BY <2>2, <2>3, <2>4, <2>5
<1>10. ASSUME NEW v \in DOMAIN vars1
       PROVE  \E m \in GivenFor(requests, secrets, database, v) :
                /\ m = Max(GivenFor(requests, secrets, database, v))
                /\ vars1[v] = ServedAt(requests, secrets, database, m).value
  <2>1. PICK G : G = GivenFor(requests, secrets, database, v)
    OBVIOUS
  <2>2. G = {i \in given : requests[i].name = v} /\ G # {}
    BY <1>6, <1>9, <1>10, <2>1
  <2>3. PICK n \in Nat : DOMAIN requests = 1..n
    OBVIOUS
  <2>4. G \subseteq 1..n
    BY <1>8, <2>2, <2>3
  <2>5. PICK m : m = Max(G) /\ m \in G /\ \A k \in G : k <= m
    BY <2>2, <2>4, LastOf
  <2>6. last(v) = m
    <3>1. m \in given /\ requests[m].name = v /\ \A k \in given : requests[k].name = v => k <= m
      BY <2>2, <2>5
    <3>2. ASSUME NEW i \in given, requests[i].name = v, \A k \in given : requests[k].name = v => k <= i
          PROVE  i = m
      <4>1. i \in G /\ m <= i /\ i <= m
        BY <2>2, <2>5, <3>1, <3>2
      <4>2. i \in Nat /\ m \in Nat
        BY <2>4, <2>5, <4>1
      <4> QED BY <4>1, <4>2
    <3> QED BY <3>1, <3>2
  <2>7. vars1[v] = ServedAt(requests, secrets, database, m).value
    <3> HIDE DEF last
    <3> QED BY <1>1, <1>7, <1>8, <2>2, <2>5, <2>6
  <2> QED BY <2>1, <2>5, <2>7
<1> QED BY <1>5, <1>9, <1>10 DEF VarsAre

LEMMA HardwareServed ==
  ASSUME NEW runtime, NEW secrets, NEW x
  PROVE  Served([name |-> x, provider |-> "runtimeEnv", variable |-> x, optional |-> TRUE],
                secrets, Database(runtime))
           = IF KnownTo(runtime, x) THEN Value(runtime[x].value) ELSE Missing
<1>1. PICK h : h = [name |-> x, provider |-> "runtimeEnv", variable |-> x, optional |-> TRUE]
  OBVIOUS
<1>2. /\ DOMAIN h = {"name", "provider", "variable", "optional"}
      /\ h.provider = "runtimeEnv" /\ h.variable = x /\ h["optional"] = TRUE
  BY <1>1
<1>3. PICK given : given = Provided(h, secrets, Database(runtime))
  OBVIOUS
<1>4. given = IF KnownTo(runtime, x) THEN Value(runtime[x].value) ELSE Missing
  BY <1>2, <1>3, RuntimeIs DEF Provided, RuntimeEnv
<1>5. "name" \in DOMAIN h /\ "value" \notin DOMAIN h /\ DOMAIN h \cap {"value", "provider"} # {}
  BY <1>2
<1>6. Get(h, "optional", "default" \in DOMAIN h) = TRUE /\ "default" \notin DOMAIN h
  BY <1>2 DEF Get
<1>7. Served(h, secrets, Database(runtime)) = IF given # Missing THEN given ELSE Missing
  BY <1>3, <1>5, <1>6 DEF Served
<1> QED BY <1>1, <1>4, <1>7, Marks

\* The places of the requests for a variable that have a value.
PlacesOf(project, branch, runtime, requests, v) ==
  {i \in DOMAIN requests : /\ requests[i].name = v
                           /\ ValueOf(project, branch, runtime, requests[i]) # {}}

EnvironmentHas(env, project, branch, runtime, requests) ==
  /\ DOMAIN env = {v \in {r.name : r \in ToSet(requests)} :
                     PlacesOf(project, branch, runtime, requests, v) # {}}
                   \cup {v \in ToSet(HwVars) : KnownTo(runtime, v)}
  /\ \A v \in DOMAIN env :
       env[v] \in IF v \in ToSet(HwVars) /\ KnownTo(runtime, v) THEN {runtime[v].value}
                  ELSE ValueOf(project, branch, runtime,
                               requests[Max(PlacesOf(project, branch, runtime, requests, v))])

LEMMA EnvironmentIs ==
  ASSUME NEW project, NEW branch, NEW runtime, NEW R, NEW requests, requests \in Seq(R), NEW env,
         env = Environment(requests, FilteredSecrets(SecretsFile, project, branch), runtime),
         env # Invalid
  PROVE  EnvironmentHas(env, project, branch, runtime, requests)
<1>1. PICK S, D : S = FilteredSecrets(SecretsFile, project, branch) /\ D = Database(runtime)
  OBVIOUS
<1>2. PICK hardware :
        hardware = [i \in DOMAIN HwVars |-> [name |-> HwVars[i], provider |-> "runtimeEnv",
                                            variable |-> HwVars[i], optional |-> TRUE]]
  OBVIOUS
<1>3. PICK user : user = EnvVars(requests, S, D)
  OBVIOUS
<1>4. PICK hw : hw = EnvVars(hardware, S, D)
  OBVIOUS
<1>5. user # Invalid /\ env = Over(hw, user)
  BY <1>1, <1>2, <1>3, <1>4 DEF Environment
<1>61. VarsAre(user, requests, S, D)
  BY <1>3, <1>5, EnvVarsAre DEF Servable
<1>6. /\ \A i \in DOMAIN requests : ServedAt(requests, S, D, i) # Invalid
      /\ DOMAIN user = {v \in {requests[i].name : i \in DOMAIN requests} : GivenFor(requests, S, D, v) # {}}
      /\ \A v \in DOMAIN user : \E m \in GivenFor(requests, S, D, v) :
           m = Max(GivenFor(requests, S, D, v)) /\ user[v] = ServedAt(requests, S, D, m).value
  BY <1>61 DEF VarsAre
<1>7. ASSUME NEW i \in DOMAIN requests
      PROVE  Agrees(ServedAt(requests, S, D, i), ValueOf(project, branch, runtime, requests[i]))
  BY <1>1, <1>6, ServedIs DEF ServedAt
<1>8. ASSUME NEW i \in DOMAIN requests
      PROVE  /\ "value" \in DOMAIN ServedAt(requests, S, D, i)
                  <=> ValueOf(project, branch, runtime, requests[i]) # {}
             /\ "value" \in DOMAIN ServedAt(requests, S, D, i) =>
                  ServedAt(requests, S, D, i).value \in ValueOf(project, branch, runtime, requests[i])
  BY <1>7, Marks DEF Agrees
<1>9. \A v : GivenFor(requests, S, D, v) = PlacesOf(project, branch, runtime, requests, v)
  BY <1>8 DEF GivenFor, PlacesOf
<1>10. ASSUME NEW v \in DOMAIN user
       PROVE  user[v] \in ValueOf(project, branch, runtime,
                                  requests[Max(PlacesOf(project, branch, runtime, requests, v))])
  <2>1. PICK m \in GivenFor(requests, S, D, v) :
          m = Max(GivenFor(requests, S, D, v)) /\ user[v] = ServedAt(requests, S, D, m).value
    BY <1>6
  <2>2. m \in DOMAIN requests /\ "value" \in DOMAIN ServedAt(requests, S, D, m)
    BY <2>1 DEF GivenFor
  <2> QED BY <1>8, <1>9, <2>1, <2>2
<1>11. PICK H : HwVars \in Seq(H)
  BY SecretsAssumption
<1>12. hardware \in Seq(Range(hardware)) /\ DOMAIN hardware = DOMAIN HwVars
  BY <1>2, <1>11 DEF Range
<1>13. ASSUME NEW i \in DOMAIN HwVars
       PROVE  /\ hardware[i].name = HwVars[i]
              /\ ServedAt(hardware, S, D, i)
                   = IF KnownTo(runtime, HwVars[i]) THEN Value(runtime[HwVars[i]].value) ELSE Missing
  BY <1>1, <1>2, HardwareServed DEF ServedAt
<1>14. \A i \in DOMAIN hardware : ServedAt(hardware, S, D, i) # Invalid
  BY <1>12, <1>13, Marks
<1>151. VarsAre(hw, hardware, S, D)
  BY <1>4, <1>12, <1>14, EnvVarsAre DEF Servable
<1>15. /\ DOMAIN hw = {v \in {hardware[i].name : i \in DOMAIN hardware} : GivenFor(hardware, S, D, v) # {}}
       /\ \A v \in DOMAIN hw : \E m \in GivenFor(hardware, S, D, v) :
            m = Max(GivenFor(hardware, S, D, v)) /\ hw[v] = ServedAt(hardware, S, D, m).value
  BY <1>151 DEF VarsAre
<1>16. ASSUME NEW v, NEW m \in GivenFor(hardware, S, D, v)
       PROVE  /\ v = HwVars[m] /\ m \in DOMAIN HwVars /\ KnownTo(runtime, v)
              /\ ServedAt(hardware, S, D, m).value = runtime[v].value
  <2>1. m \in DOMAIN HwVars /\ v = HwVars[m] /\ "value" \in DOMAIN ServedAt(hardware, S, D, m)
    BY <1>12, <1>13 DEF GivenFor
  <2> QED BY <1>13, <2>1, Marks
<1>17. DOMAIN hw = {v \in ToSet(HwVars) : KnownTo(runtime, v)}
  <2>1. ASSUME NEW v \in DOMAIN hw PROVE v \in ToSet(HwVars) /\ KnownTo(runtime, v)
    BY <1>15, <1>16 DEF ToSet
  <2>2. ASSUME NEW i \in DOMAIN HwVars, KnownTo(runtime, HwVars[i]) PROVE HwVars[i] \in DOMAIN hw
    <3>1. i \in GivenFor(hardware, S, D, HwVars[i])
      BY <1>12, <1>13, <2>2, Marks DEF GivenFor
    <3>2. HwVars[i] \in {hardware[k].name : k \in DOMAIN hardware}
      BY <1>12, <1>13
    <3> QED BY <1>15, <3>1, <3>2
  <2> QED BY <2>1, <2>2 DEF ToSet
<1>18. \A v \in DOMAIN hw : hw[v] = runtime[v].value
  BY <1>15, <1>16
<1>19. DOMAIN user = {v \in {requests[i].name : i \in DOMAIN requests} :
                        PlacesOf(project, branch, runtime, requests, v) # {}}
  BY <1>6, <1>9
<1>20. DOMAIN env = DOMAIN hw \cup DOMAIN user
       /\ \A v \in DOMAIN env : env[v] = IF v \in DOMAIN hw THEN hw[v] ELSE user[v]
  BY <1>5 DEF Over
<1>21. ASSUME NEW v \in DOMAIN env
       PROVE  env[v] \in IF v \in ToSet(HwVars) /\ KnownTo(runtime, v) THEN {runtime[v].value}
                         ELSE ValueOf(project, branch, runtime,
                                      requests[Max(PlacesOf(project, branch, runtime, requests, v))])
  <2>1. CASE v \in DOMAIN hw
    BY <1>17, <1>18, <1>20, <2>1
  <2>2. CASE v \notin DOMAIN hw
    BY <1>10, <1>17, <1>20, <2>2
  <2> QED BY <2>1, <2>2
<1>22. {requests[i].name : i \in DOMAIN requests} = {r.name : r \in ToSet(requests)}
  BY DEF ToSet
<1> QED BY <1>17, <1>19, <1>20, <1>21, <1>22 DEF EnvironmentHas

\* The secrets a job carries are those of its project and branch, also after
\* an update of its commit; its variables are what was made of them.
Secured ==
  /\ "secrets" \in DOMAIN job
  /\ job.secrets = FilteredSecrets(SecretsFile, job.commit.project, job.commit.branch)
Equipped ==
  /\ job.env # Invalid
  /\ job.env = Environment(job.commit.requests, job.secrets, job.runtime)
EnvInv ==
  /\ job.step = "get again" => Secured
  /\ job.step \in {"mirrors", "chroot", "shell", "environ", "run"} /\ job.kind # "pod" => Secured
  /\ job.step = "run" /\ job.kind # "pod" => Equipped

LEMMA SecuredStays ==
  ASSUME JobTyped, Secured, NEW s, NEW xs, Goes(s, xs), {"commit", "secrets"} \subseteq xs,
         job.step \in Working
  PROVE  Secured'
<1>1. {"commit", "secrets"} \subseteq DOMAIN job
  BY DEF JobTyped, Secured
<1>2. "secrets" \in DOMAIN job' /\ job'.secrets = job.secrets /\ job'.commit = job.commit
  BY <1>1 DEF Goes
<1> QED BY <1>2 DEF Secured

LEMMA EnvElsewhere ==
  ASSUME job'.step \notin {"get again", "mirrors", "chroot", "shell", "environ", "run"}
  PROVE  EnvInv'
BY DEF EnvInv

LEMMA EnvStep ==
  ASSUME JobTyped, EnvInv, [Next]_vars
  PROVE  EnvInv'
<1>1. ASSUME NEW kind, Start(kind) PROVE EnvInv'
  BY <1>1, StartGoes, EnvElsewhere
<1>2. CASE GetSource
  <2>1. Goes(job.step, Kept3 \cup {"secrets"}) /\ job.step \in Getting /\ job'.step = job.step
    BY <1>2, GetSourceGoes DEF Goes
  <2>2. CASE job.step = "get again"
    <3>1. Secured'
      BY <2>1, <2>2, SecuredStays DEF EnvInv, Kept3, Working
    <3> QED BY <2>1, <2>2, <3>1 DEF EnvInv
  <2> QED BY <2>1, <2>2, EnvElsewhere DEF Getting
<1>3. CASE GetFails
  <2>1. CASE Goes("end", {})
    BY <2>1, EnvElsewhere DEF Goes
  <2>2. CASE Goes("mirrors", {"kind", "commit", "secrets"}) /\ job.step = "get again"
    <3>1. Secured'
      BY <2>2, SecuredStays DEF EnvInv, Working, Getting
    <3> QED BY <2>2, <3>1 DEF EnvInv, Goes
  <2> QED BY <1>3, <2>1, <2>2, GetFailsGoes
<1>4. CASE Reset
  <2>1. PICK s : s = IF job.step = "get again" \/ job.kind = "pod" THEN "mirrors" ELSE "setup"
    OBVIOUS
  <2>2. Goes(s, Kept3 \cup {"secrets"}) /\ job.step \in Getting
    BY <1>4, <2>1, ResetGoes
  <2>3. job'.step = s /\ job'.kind = job.kind
    BY <2>2 DEF Goes, Kept3, JobTyped, Working
  <2>4. CASE job.step = "get again"
    <3>1. Secured'
      BY <2>2, <2>4, SecuredStays DEF EnvInv, Kept3, Working
    <3> QED BY <2>1, <2>3, <2>4, <3>1 DEF EnvInv
  <2>5. CASE job.step # "get again" /\ job.kind = "pod"
    BY <2>1, <2>3, <2>5 DEF EnvInv
  <2>6. CASE job.step # "get again" /\ job.kind # "pod"
    BY <2>1, <2>3, <2>6, EnvElsewhere
  <2> QED BY <2>4, <2>5, <2>6
<1>5. CASE Setup
  BY <1>5, SetupGoes, EnvElsewhere DEF Goes
<1>6. ASSUME UNCHANGED job PROVE EnvInv'
  BY <1>6 DEF EnvInv, Secured, Equipped
<1>7. CASE Cleaned
  <2>1. /\ job.step = "clean" /\ "secrets" \in DOMAIN job'
        /\ job'.secrets = FilteredSecrets(SecretsFile, job.commit.project, job.commit.branch)
    BY <1>7, CleanedGoes
  <2>2. job.commit \in Commits /\ "commit" \in DOMAIN job
    BY <2>1 DEF JobTyped, Working
  <2>3. CASE Goes("mirrors", Kept3)
    <3>1. job'.step = "mirrors" /\ job'.commit = job.commit
      BY <2>2, <2>3 DEF Goes, Kept3
    <3> QED BY <2>1, <3>1 DEF EnvInv, Secured
  <2>4. CASE Goes("get again", {"kind", "failed"}) /\ job'.commit = Update(job.commit)
    <3>1. job'.step = "get again"
      BY <2>4 DEF Goes
    <3>2. job'.commit.project = job.commit.project /\ job'.commit.branch = job.commit.branch
      BY <2>2, <2>4, UpdatedIs
    <3> QED BY <2>1, <3>1, <3>2 DEF EnvInv, Secured
  <2>5. CASE Goes("mirrors", {"kind", "commit"})
    <3>1. job'.step = "mirrors" /\ job'.commit = job.commit
      BY <2>2, <2>5 DEF Goes
    <3> QED BY <2>1, <3>1 DEF EnvInv, Secured
  <2> QED BY <1>7, <2>3, <2>4, <2>5, CleanedGoes
<1>8. ASSUME job.step \in {"mirrors", "chroot", "shell", "environ"}, NEW s, Goes(s, Kept3 \cup {"secrets"})
      PROVE  job'.step = s /\ job'.kind = job.kind /\ (job.kind # "pod" => Secured')
  <2>1. job.step \in Working
    BY <1>8 DEF Working
  <2>2. job'.step = s /\ job'.kind = job.kind
    BY <1>8, <2>1 DEF Goes, Kept3, JobTyped
  <2>3. job.kind # "pod" => Secured'
    BY <1>8, <2>1, SecuredStays DEF EnvInv, Kept3
  <2> QED BY <2>2, <2>3
<1>9. ASSUME job.step \in {"mirrors", "chroot", "shell"}, NEW s \in {"chroot", "shell", "environ", "run"},
             Goes(s, Kept4), s = "run" => job.kind = "pod"
      PROVE  EnvInv'
  <2>1. job'.step = s /\ job'.kind = job.kind /\ (job.kind # "pod" => Secured')
    BY <1>8, <1>9 DEF Kept4
  <2> QED BY <1>9, <2>1 DEF EnvInv
<1>10. ASSUME Goes("end", {}) PROVE EnvInv'
  BY <1>10, EnvElsewhere DEF Goes
<1>11. CASE Preparing
  BY <1>9, <1>10, <1>11, PreparingGoes
<1>13. CASE Environ
  <2>1. CASE /\ Goes("run", Kept3 \cup {"secrets"}) /\ job'.env # Invalid
             /\ job'.env = Environment(job.commit.requests, job.secrets, job'.runtime)
    <3>1. job.step = "environ"
      BY <1>13, EnvironGoes
    <3>2. job'.step = "run" /\ job'.kind = job.kind /\ (job.kind # "pod" => Secured')
      BY <1>8, <2>1, <3>1
    <3>3. job.kind # "pod" => job'.secrets = job.secrets /\ job'.commit = job.commit
      BY <2>1, <3>1 DEF Goes, Kept3, JobTyped, Working, EnvInv, Secured
    <3> QED BY <2>1, <3>2, <3>3 DEF EnvInv, Equipped
  <2> QED BY <1>10, <1>13, <2>1, EnvironGoes
<1>14. \A f : Ended(f).step = "end"
  BY DEF Ended
<1>15. CASE Run
  BY <1>14, <1>15, EnvElsewhere DEF Run
<1>16. CASE RunUpdate
  BY <1>16, EnvElsewhere DEF RunUpdate
<1>17. CASE UpdateEnds
  BY <1>14, <1>17, EnvElsewhere DEF UpdateEnds
<1>18. CASE End
  BY <1>18, EnvElsewhere DEF End, NoJob
<1>19. Clean \/ UpdateImages \/ UNCHANGED vars => UNCHANGED job
  BY DEF Clean, UpdateImages, vars
<1> QED
  BY <1>1, <1>2, <1>3, <1>4, <1>5, <1>6, <1>7, <1>11, <1>13, <1>15, <1>16, <1>17,
     <1>18, <1>19 DEF Next, Preparing

THEOREM EnvInvHolds == Spec => []EnvInv
<1>1. Init => EnvInv
  BY DEF Init, NoJob, EnvInv
<1>2. JobTyped /\ EnvInv /\ [Next]_vars => EnvInv'
  BY EnvStep
<1> QED BY <1>1, <1>2, JobsAreTyped, PTL DEF Spec

\* Of the variables that its project or the system requests, a script in a
\* chroot has those that can be had: from the first secret that is meant for the
\* project, its branch and that name, from the environment of the job, or as
\* the last request for it says.  A commit that the job has updated changes
\* nothing about that.
THEOREM ScriptHasItsVariablesAlways == Spec => []ScriptHasItsVariables
<1>1. ASSUME JobTyped, EnvInv PROVE ScriptHasItsVariables
  <2>1. SUFFICES ASSUME job.step = "run" /\ job.kind # "pod" PROVE ScriptHasItsVariables
    BY DEF ScriptHasItsVariables
  <2>2. Secured /\ Equipped /\ job.commit \in Commits
    BY <1>1, <2>1 DEF EnvInv, JobTyped, Working
  <2>3. job.commit.requests \in Seq(ToSet(job.commit.requests))
    BY <2>2, RequestsAssumption
  <2>4. /\ job.env # Invalid
        /\ job.env = Environment(job.commit.requests,
                                 FilteredSecrets(SecretsFile, job.commit.project, job.commit.branch),
                                 job.runtime)
    BY <2>2 DEF Secured, Equipped
  <2>5. EnvironmentHas(job.env, job.commit.project, job.commit.branch, job.runtime, job.commit.requests)
    BY <2>3, <2>4, EnvironmentIs
  <2> QED
    BY <2>5
    DEF ScriptHasItsVariables, EnvironmentHas, PlacesOf, ValueOf, FoundFor, KnownTo, DataOf, FirstMeant, Meant
<1> QED BY <1>1, JobsAreTyped, EnvInvHolds, PTL

-----------------------------------------------------------------------------
(* The changed files of a patch: walks along links.                        *)

\* Where the pairs R lead from S, and from p in up to N steps.
Img(R, S) == {e[2] : e \in {e \in R : e[1] \in S}}
WalkOf(R, p, N, w) == w = [n \in 0..N |-> IF n = 0 THEN {p} ELSE Img(R, w[n - 1])]

LEMMA WalkExists ==
  ASSUME NEW R, NEW p
  PROVE  \A n \in Nat : \E w : WalkOf(R, p, n, w)
<1> DEFINE T == {n \in Nat : \E w : WalkOf(R, p, n, w)}
<1>1. 0 \in T
  <2> DEFINE e == [k \in 0..0 |-> {p}]
  <2>1. WalkOf(R, p, 0, e)
    BY DEF WalkOf
  <2> QED BY <2>1
<1>2. ASSUME NEW n \in T \cap Nat PROVE n + 1 \in T
  <2>1. n \in Nat /\ \E f : WalkOf(R, p, n, f)
    OBVIOUS
  <2> PICK f : WalkOf(R, p, n, f)
    BY <2>1
  <2> HIDE DEF T
  <2> DEFINE next(k) == IF k = 0 THEN {p} ELSE Img(R, f[k - 1])
             g == [k \in 0..(n + 1) |-> next(k)]
  <2>2. \A k \in 0..n : g[k] = f[k]
    <3>1. \A k \in 0..n : f[k] = next(k)
      BY DEF WalkOf
    <3>2. \A k \in 0..n : k \in 0..(n + 1)
      BY <2>1
    <3> QED BY <3>1, <3>2
  <2>3. \A k \in 0..(n + 1) : k # 0 => k - 1 \in 0..n /\ g[k - 1] = f[k - 1]
    <3>1. \A k \in 0..(n + 1) : k # 0 => k - 1 \in 0..n
      BY <2>1
    <3> HIDE DEF g
    <3> QED BY <2>2, <3>1
  <2>4. \A k \in 0..(n + 1) : g[k] = IF k = 0 THEN {p} ELSE Img(R, g[k - 1])
    BY <2>3
  <2>5. WalkOf(R, p, n + 1, g)
    <3>1. g = [k \in 0..(n + 1) |-> g[k]]
      OBVIOUS
    <3> HIDE DEF g
    <3> QED BY <2>4, <3>1 DEF WalkOf
  <2> HIDE DEF g
  <2> QED BY <2>1, <2>5 DEF T
<1>3. Nat \subseteq T
  <2> HIDE DEF T
  <2> QED BY <1>1, <1>2, SetInduction
<1> QED BY <1>3

StepsOf(R, N, w) == \A n \in 0..(N - 1) : w[n + 1] = Img(R, w[n])

LEMMA WalkSteps ==
  ASSUME NEW R, NEW p, NEW N \in Nat, NEW w, WalkOf(R, p, N, w)
  PROVE  w[0] = {p} /\ StepsOf(R, N, w)
<1>1. \A n \in 0..N : w[n] = IF n = 0 THEN {p} ELSE Img(R, w[n - 1])
  BY DEF WalkOf
<1>2. w[0] = {p}
  BY <1>1
<1>3. ASSUME NEW n \in 0..(N - 1) PROVE w[n + 1] = Img(R, w[n])
  <2>1. n + 1 \in 0..N /\ n + 1 # 0 /\ (n + 1) - 1 = n
    OBVIOUS
  <2>2. w[n + 1] = Img(R, w[(n + 1) - 1])
    BY <1>1, <2>1
  <2> QED BY <2>1, <2>2
<1> QED BY <1>2, <1>3 DEF StepsOf

\* What lead the same way step by step lead to the same.
LEMMA WalksAgree ==
  ASSUME NEW R, NEW Q, NEW p, NEW N \in Nat, NEW M \in Nat, NEW w, NEW v,
         WalkOf(R, p, N, w), WalkOf(Q, p, M, v),
         \A n \in 0..N : Img(R, w[n]) = Img(Q, w[n])
  PROVE  \A n \in 0..N : n <= M => w[n] = v[n]
<1> DEFINE T == {n \in Nat : n <= N /\ n <= M => w[n] = v[n]}
<1>4. w[0] = {p} /\ \A n \in 0..(N - 1) : w[n + 1] = Img(R, w[n])
  BY WalkSteps DEF StepsOf
<1>5. v[0] = {p} /\ \A n \in 0..(M - 1) : v[n + 1] = Img(Q, v[n])
  BY WalkSteps DEF StepsOf
<1>1. 0 \in T
  BY <1>4, <1>5
<1>2. ASSUME NEW n \in T \cap Nat PROVE n + 1 \in T
  <2>1. CASE n + 1 <= N /\ n + 1 <= M
    <3>1. n \in 0..(N - 1) /\ n \in 0..(M - 1) /\ n \in 0..N /\ n <= N /\ n <= M
      BY <2>1
    <3>2. w[n] = v[n]
      BY <3>1
    <3>3. w[n + 1] = Img(R, w[n]) /\ v[n + 1] = Img(Q, v[n])
      BY <1>4, <1>5, <3>1
    <3>4. w[n + 1] = v[n + 1]
      BY <3>1, <3>2, <3>3
    <3> QED BY <3>4
  <2> QED BY <2>1
<1>3. Nat \subseteq T
  <2> HIDE DEF T
  <2> QED BY <1>1, <1>2, SetInduction
<1> QED BY <1>3

\* Every path leads to at most one other.
Functional(R) == \A d, e \in R : d[1] = e[1] => d[2] = e[2]

\* At no time is the walk at two places.
OnePlace(w, N) == \A n \in 0..N : \A x, y \in w[n] : x = y

\* Where a path leads to at most one other, nothing leads to two places at once.
LEMMA WalkSingle ==
  ASSUME NEW R, Functional(R), NEW p, NEW N \in Nat, NEW w, WalkOf(R, p, N, w)
  PROVE  OnePlace(w, N)
<1> DEFINE T == {n \in Nat : n <= N => \A x, y \in w[n] : x = y}
<1>4. w[0] = {p} /\ \A n \in 0..(N - 1) : w[n + 1] = Img(R, w[n])
  BY WalkSteps DEF StepsOf
<1>1. 0 \in T
  BY <1>4
<1>2. ASSUME NEW n \in T \cap Nat PROVE n + 1 \in T
  <2>1. CASE n + 1 <= N
    <3>1. n \in 0..(N - 1) /\ n <= N
      BY <2>1
    <3>2. w[n + 1] = Img(R, w[n]) /\ \A x, y \in w[n] : x = y
      BY <1>4, <3>1
    <3>3. \A x, y \in w[n + 1] : x = y
      BY <3>2 DEF Img, Functional
    <3> QED BY <3>3
  <2> QED BY <2>1
<1>3. Nat \subseteq T
  <2> HIDE DEF T
  <2> QED BY <1>1, <1>2, SetInduction
<1> QED BY <1>3 DEF OnePlace

\* On the way to where one has got there is always somewhere to be.
LEMMA WalkGoesOn ==
  ASSUME NEW R, NEW p, NEW N \in Nat, NEW w, WalkOf(R, p, N, w),
         NEW m \in 0..N, w[m] # {}
  PROVE  \A i \in 0..m : w[i] # {}
<1>0. StepsOf(R, N, w)
  BY WalkSteps, Zenon
<1>1. \A n \in 0..(N - 1) : w[n + 1] = Img(R, w[n])
  BY <1>0 DEF StepsOf
<1>2. SUFFICES ASSUME NEW i \in 0..m, w[i] = {} PROVE FALSE
  OBVIOUS
<1> DEFINE T == {k \in Nat : i + k <= N => w[i + k] = {}}
<1>3. 0 \in T
  BY <1>2
<1>4. ASSUME NEW k \in T \cap Nat PROVE k + 1 \in T
  <2>1. CASE i + (k + 1) <= N
    <3>1. i + k \in 0..(N - 1) /\ i + k <= N /\ i + (k + 1) = (i + k) + 1 /\ k + 1 \in Nat
      BY <2>1
    <3>2. w[(i + k) + 1] = Img(R, w[i + k]) /\ w[i + k] = {}
      BY <1>1, <3>1
    <3>3. w[(i + k) + 1] = {}
      BY <3>2 DEF Img
    <3> QED BY <3>1, <3>3
  <2> QED BY <2>1
<1>5. Nat \subseteq T
  <2> HIDE DEF T
  <2> QED BY <1>3, <1>4, SetInduction
<1>6. m - i \in Nat /\ i + (m - i) = m /\ m <= N
  OBVIOUS
<1> QED BY <1>5, <1>6

\* Who comes to a place again comes again to all that follows.
Again(w, i, j) == w[i] = w[j]
RepeatsTo(w, i, j, N) == \A m \in j..N : w[m] = w[i + (m - j)]

LEMMA WalkRepeats ==
  ASSUME NEW R, NEW p, NEW N \in Nat, NEW w, WalkOf(R, p, N, w),
         NEW i \in 0..N, NEW j \in i..N, Again(w, i, j)
  PROVE  RepeatsTo(w, i, j, N)
<1>0. StepsOf(R, N, w)
  BY WalkSteps, Zenon
<1>1. \A n \in 0..(N - 1) : w[n + 1] = Img(R, w[n])
  BY <1>0 DEF StepsOf
<1> DEFINE T == {k \in Nat : j + k <= N => w[j + k] = w[i + k]}
<1>3. 0 \in T
  BY DEF Again
<1>4. ASSUME NEW k \in T \cap Nat PROVE k + 1 \in T
  <2>1. CASE j + (k + 1) <= N
    <3>1. /\ j + k \in 0..(N - 1) /\ i + k \in 0..(N - 1) /\ j + k <= N /\ k + 1 \in Nat
          /\ j + (k + 1) = (j + k) + 1 /\ i + (k + 1) = (i + k) + 1
      BY <2>1
    <3>2. w[(j + k) + 1] = Img(R, w[j + k]) /\ w[(i + k) + 1] = Img(R, w[i + k]) /\ w[j + k] = w[i + k]
      BY <1>1, <3>1
    <3> QED BY <3>1, <3>2
  <2> QED BY <2>1
<1>5. Nat \subseteq T
  <2> HIDE DEF T
  <2> QED BY <1>3, <1>4, SetInduction
<1>6. ASSUME NEW m \in j..N PROVE w[m] = w[i + (m - j)]
  <2>1. m - j \in Nat /\ j + (m - j) = m /\ m <= N
    OBVIOUS
  <2> QED BY <1>5, <2>1
<1> QED BY <1>6 DEF RepeatsTo

\* The first time one gets somewhere one has been nowhere twice.
Straight(w, n) ==
  /\ \A i \in 0..n : w[i] # {}
  /\ \A i, j \in 0..n : \A x : x \in w[i] /\ x \in w[j] => i = j

LEMMA WalkShortest ==
  ASSUME NEW R, Functional(R), NEW p, NEW N \in Nat, NEW w, WalkOf(R, p, N, w),
         NEW m \in 0..N, NEW q \in w[m]
  PROVE  \E n \in 0..m : q \in w[n] /\ Straight(w, n)
<1> DEFINE T == {n \in 0..m : q \in w[n]}
<1>1. T \subseteq Nat /\ m \in T
  OBVIOUS
<1>2. PICK n \in T : \A k \in T : n <= k
  BY <1>1, LeastNat
<1>3. n \in 0..m /\ q \in w[n] /\ n \in 0..N /\ w[n] # {}
  BY <1>2
<1>4. \A i \in 0..n : w[i] # {}
  BY <1>3, WalkGoesOn
<1>5. ASSUME NEW i \in 0..n, NEW j \in 0..n, i < j, NEW x, x \in w[i], x \in w[j] PROVE FALSE
  <2>0. OnePlace(w, N)
    BY WalkSingle
  <2>1. \A k \in 0..N : \A y, z \in w[k] : y = z
    BY <2>0 DEF OnePlace
  <2>2. i \in 0..N /\ j \in 0..N /\ j \in i..N /\ n \in j..N
    BY <1>3, <1>5
  <2>3. w[i] = {x} /\ w[j] = {x}
    BY <1>5, <2>1, <2>2
  <2>4. w[i] = w[j]
    BY <2>3
  <2>8. Again(w, i, j)
    BY <2>4 DEF Again
  <2>9. RepeatsTo(w, i, j, N)
    BY <2>2, <2>8, WalkRepeats
  <2>5. w[n] = w[i + (n - j)]
    BY <2>2, <2>9 DEF RepeatsTo
  <2>6. i + (n - j) \in 0..m /\ i + (n - j) < n
    BY <1>3, <1>5
  <2>7. i + (n - j) \in T
    BY <1>3, <2>5, <2>6
  <2> QED BY <1>2, <1>3, <2>6, <2>7
<1>6. ASSUME NEW i \in 0..n, NEW j \in 0..n, NEW x, x \in w[i], x \in w[j] PROVE i = j
  <2>1. i \in Int /\ j \in Int
    BY <1>3
  <2>2. i < j \/ j < i \/ i = j
    BY <2>1
  <2> QED BY <1>5, <1>6, <2>2
<1>7. Straight(w, n)
  BY <1>4, <1>6 DEF Straight
<1> QED BY <1>3, <1>7

LEMMA NoMoreThan ==
  ASSUME NEW n \in Nat, NEW B, IsFiniteSet(B), NEW f \in [1..n -> B],
         \A i, j \in 1..n : f[i] = f[j] => i = j
  PROVE  n <= Cardinality(B)
<1>1. IsFiniteSet(1..n) /\ Cardinality(1..n) = n
  BY FS_Interval
<1>2. Cardinality(B) \in Nat
  BY FS_CardinalityType
<1>3. CASE Cardinality(B) < n
  <2>1. \E x, y \in 1..n : x # y /\ f[x] = f[y]
    BY <1>1, <1>3, FS_PigeonHole
  <2> QED BY <2>1
<1> QED BY <1>2, <1>3

\* A straight walk is no longer than there are places it may be at.
LEMMA WalkIsShort ==
  ASSUME NEW w, NEW n \in Nat, Straight(w, n), NEW B, IsFiniteSet(B), NEW s \in {0, 1},
         \A i \in 1..n : w[i - s] \subseteq B
  PROVE  n <= Cardinality(B)
<1>1. \A i \in 1..n : i - s \in 0..n
  OBVIOUS
<1>2. PICK f : f = [i \in 1..n |-> CHOOSE x : x \in w[i - s]]
  OBVIOUS
<1>3. ASSUME NEW i \in 1..n PROVE f[i] \in w[i - s] /\ f[i] \in B
  <2>1. \E x : x \in w[i - s]
    BY <1>1 DEF Straight
  <2> QED BY <1>2, <2>1
<1>4. f \in [1..n -> B]
  BY <1>2, <1>3
<1>5. ASSUME NEW i \in 1..n, NEW j \in 1..n, f[i] = f[j] PROVE i = j
  <2>1. i - s = j - s
    BY <1>1, <1>3, <1>5 DEF Straight
  <2> QED BY <2>1
<1> QED BY <1>4, <1>5, NoMoreThan

Links(F) == {q \in DOMAIN F : F[q].kind = "link"}
Leads(F) == {<<q, F[q].data>> : q \in Links(F)}
Back(F) == {<<F[q].data, q>> : q \in Links(F)}

LEMMA LeadsIs ==
  ASSUME NEW F
  PROVE  /\ Functional(Leads(F))
         /\ \A S : Img(Leads(F), S) = {F[q].data : q \in S \cap Links(F)}
<1>1. Functional(Leads(F))
  BY DEF Functional, Leads
<1>2. ASSUME NEW S, NEW x \in Img(Leads(F), S) PROVE x \in {F[q].data : q \in S \cap Links(F)}
  BY <1>2 DEF Img, Leads
<1>3. ASSUME NEW S, NEW q \in S \cap Links(F) PROVE F[q].data \in Img(Leads(F), S)
  <2>1. <<q, F[q].data>> \in Leads(F)
    BY DEF Leads
  <2> QED BY <2>1 DEF Img
<1>4. \A S : Img(Leads(F), S) = {F[q].data : q \in S \cap Links(F)}
  BY <1>2, <1>3
<1> QED BY <1>1, <1>4

\* The function of Read, and the walk it is.
ReachedOf(F, p, M, g) ==
  g = [n \in 0..M |-> IF n = 0 THEN {p} ELSE {F[q].data : q \in g[n - 1] \cap Links(F)}]

LEMMA ReachedIs ==
  ASSUME NEW F, NEW p, NEW M \in Nat, NEW g
  PROVE  ReachedOf(F, p, M, g) <=> WalkOf(Leads(F), p, M, g)
<1> DEFINE next(n) == IF n = 0 THEN {p} ELSE {F[q].data : q \in g[n - 1] \cap Links(F)}
           step(n) == IF n = 0 THEN {p} ELSE Img(Leads(F), g[n - 1])
<1>1. \A n : next(n) = step(n)
  BY LeadsIs
<1>2. [n \in 0..M |-> next(n)] = [n \in 0..M |-> step(n)]
  <2> HIDE DEF next, step
  <2> QED BY <1>1
<1>3. ReachedOf(F, p, M, g) <=> g = [n \in 0..M |-> next(n)]
  BY DEF ReachedOf
<1>4. WalkOf(Leads(F), p, M, g) <=> g = [n \in 0..M |-> step(n)]
  BY DEF WalkOf
<1> QED
  <2> HIDE DEF next, step
  <2> QED BY <1>2, <1>3, <1>4

LEMMA BackIs ==
  ASSUME NEW F, NEW S
  PROVE  Img(Back(F), S) = UNION {LinksMap(F)[f] : f \in S \cap DOMAIN LinksMap(F)}
<1>1. PICK L : L = LinksMap(F)
  OBVIOUS
<1>2. /\ DOMAIN L = {F[q].data : q \in Links(F)}
      /\ \A t \in DOMAIN L : L[t] = {q \in Links(F) : F[q].data = t}
  BY <1>1 DEF LinksMap, Links
<1>3. ASSUME NEW x \in Img(Back(F), S) PROVE x \in UNION {L[f] : f \in S \cap DOMAIN L}
  <2>1. x \in Links(F) /\ F[x].data \in S
    BY <1>3 DEF Img, Back
  <2>2. F[x].data \in S \cap DOMAIN L /\ x \in L[F[x].data]
    BY <1>2, <2>1
  <2> QED BY <2>2
<1>4. ASSUME NEW x \in UNION {L[f] : f \in S \cap DOMAIN L} PROVE x \in Img(Back(F), S)
  <2>1. PICK f \in S \cap DOMAIN L : x \in L[f]
    BY <1>4
  <2>2. x \in Links(F) /\ F[x].data = f
    BY <1>2, <2>1
  <2>3. <<f, x>> \in Back(F)
    BY <2>2 DEF Back
  <2> QED BY <2>1, <2>3 DEF Img
<1> QED BY <1>1, <1>3, <1>4

\* What one reads under a path is where a walk of any length along the links
\* ends, when it can go no further.
Ends(F, N, w) == {F[q] : q \in {q \in DOMAIN F \ Links(F) : \E n \in 0..N : q \in w[n]}}

LEMMA ReadIs ==
  ASSUME NEW F, IsFiniteSet(Links(F)), NEW p, NEW N \in Nat, Cardinality(Links(F)) <= N,
         NEW w, WalkOf(Leads(F), p, N, w)
  PROVE  Read(F, p) = Ends(F, N, w)
<1>1. PICK M \in Nat : M = Cardinality(Links(F))
  BY FS_CardinalityType
<1>2. PICK r : WalkOf(Leads(F), p, M, r)
  BY WalkExists
<1>3. ReachedOf(F, p, M, r)
  BY <1>2, ReachedIs
<1> DEFINE reached == CHOOSE g : ReachedOf(F, p, M, g)
<1>4. ReachedOf(F, p, M, reached)
  BY <1>3
<1>6. Read(F, p) = {F[q] : q \in ((UNION Range(reached)) \cap DOMAIN F) \ Links(F)}
  BY <1>1 DEF Read, Links, ReachedOf
<1> HIDE DEF reached
<1>5. WalkOf(Leads(F), p, M, reached)
  BY <1>4, ReachedIs
<1>7. DOMAIN reached = 0..M
  BY <1>4 DEF ReachedOf
<1>12. Functional(Leads(F))
  BY LeadsIs
<1>13. StepsOf(Leads(F), N, w)
  BY WalkSteps
<1>14. \A n \in 0..N : \A x, y \in w[n] : x = y
  <2>1. OnePlace(w, N)
    BY <1>12, WalkSingle
  <2> QED BY <2>1 DEF OnePlace
<1>8. \A n \in 0..M : n <= N => reached[n] = w[n]
  BY <1>5, WalksAgree
<1>9. ASSUME NEW n \in 0..N, NEW q \in w[n], q \in DOMAIN F \ Links(F)
      PROVE  \E k \in 0..M : q \in w[k]
  <2>1. PICK k \in 0..n : q \in w[k] /\ Straight(w, k)
    BY <1>9, <1>12, WalkShortest
  <2>2. \A i \in 1..k : w[i - 1] \subseteq Links(F)
    <3>1. SUFFICES ASSUME NEW i \in 1..k, NEW x \in w[i - 1] PROVE x \in Links(F)
      OBVIOUS
    <3>2. i - 1 \in 0..(N - 1) /\ i - 1 \in 0..N /\ (i - 1) + 1 = i /\ i \in 0..k
      OBVIOUS
    <3>3. w[i] = Img(Leads(F), w[i - 1]) /\ w[i] # {}
      BY <1>13, <2>1, <3>2 DEF StepsOf, Straight
    <3>4. \A y, z \in w[i - 1] : y = z
      BY <1>14, <3>2
    <3> QED BY <3>3, <3>4 DEF Img, Leads
  <2>3. k \in Nat /\ k <= Cardinality(Links(F))
    BY <2>1, <2>2, WalkIsShort
  <2> QED BY <1>1, <2>1, <2>3
<1>10. UNION Range(reached) = UNION {reached[n] : n \in 0..M}
  BY <1>7 DEF Range
<1>11. \A q \in DOMAIN F \ Links(F) : q \in UNION Range(reached) <=> \E n \in 0..N : q \in w[n]
  <2>1. ASSUME NEW q \in UNION Range(reached) PROVE \E n \in 0..N : q \in w[n]
    BY <1>1, <1>8, <1>10
  <2>2. ASSUME NEW q \in DOMAIN F \ Links(F), \E n \in 0..N : q \in w[n] PROVE q \in UNION Range(reached)
    <3>1. PICK k \in 0..M : q \in w[k]
      BY <1>9, <2>2
    <3>2. q \in reached[k]
      BY <1>1, <1>8, <3>1
    <3> QED BY <1>10, <3>1, <3>2
  <2> QED BY <2>1, <2>2
<1>15. ((UNION Range(reached)) \cap DOMAIN F) \ Links(F) = {q \in DOMAIN F \ Links(F) : \E n \in 0..N : q \in w[n]}
  BY <1>11
<1> QED BY <1>6, <1>15 DEF Ends

\* The function of LinksTo, and the walk back it is.
ToOf(F, q, M, g) ==
  g = [n \in 0..M |-> IF n = 0 THEN {q}
                      ELSE UNION {LinksMap(F)[f] : f \in g[n - 1] \cap DOMAIN LinksMap(F)}]

LEMMA ToIs ==
  ASSUME NEW F, NEW q, NEW M \in Nat, NEW g
  PROVE  ToOf(F, q, M, g) <=> WalkOf(Back(F), q, M, g)
<1> DEFINE next(n) == IF n = 0 THEN {q}
                      ELSE UNION {LinksMap(F)[f] : f \in g[n - 1] \cap DOMAIN LinksMap(F)}
           step(n) == IF n = 0 THEN {q} ELSE Img(Back(F), g[n - 1])
<1>1. \A n : next(n) = step(n)
  BY BackIs
<1>2. [n \in 0..M |-> next(n)] = [n \in 0..M |-> step(n)]
  <2> HIDE DEF next, step
  <2> QED BY <1>1
<1>3. ToOf(F, q, M, g) <=> g = [n \in 0..M |-> next(n)]
  BY DEF ToOf
<1>4. WalkOf(Back(F), q, M, g) <=> g = [n \in 0..M |-> step(n)]
  BY DEF WalkOf
<1> QED
  <2> HIDE DEF next, step
  <2> QED BY <1>2, <1>3, <1>4

\* What LinksTo makes of a walk back that is one step longer than M.
LinksAre(q, map, M, to) ==
  /\ LinksTo(q, map).links = UNION {to[k] : k \in 1..M}
  /\ LinksTo(q, map).endless <=> to[M + 1] # {}

LEMMA LinksToIs ==
  ASSUME NEW F, NEW q, NEW M \in Nat, M = Cardinality(DOMAIN LinksMap(F))
  PROVE  \E to : WalkOf(Back(F), q, M + 1, to) /\ LinksAre(q, LinksMap(F), M, to)
<1>0. M + 1 \in Nat
  OBVIOUS
<1>1. PICK t : WalkOf(Back(F), q, M + 1, t)
  BY <1>0, WalkExists
<1> DEFINE to == CHOOSE g : ToOf(F, q, M + 1, g)
<1>2. ToOf(F, q, M + 1, to)
  BY <1>0, <1>1, ToIs
<1>3. LinksTo(q, LinksMap(F)) = [endless |-> to[M + 1] # {}, links |-> UNION {to[k] : k \in 1..M}]
  BY DEF LinksTo, ToOf
<1> HIDE DEF to
<1>4. WalkOf(Back(F), q, M + 1, to)
  BY <1>0, <1>2, ToIs
<1>5. LinksAre(q, LinksMap(F), M, to)
  <2>1. PICK end, links : end = (to[M + 1] # {}) /\ links = UNION {to[k] : k \in 1..M}
    OBVIOUS
  <2>2. LinksTo(q, LinksMap(F)) = [endless |-> end, links |-> links]
    BY <1>3, <2>1, Zenon
  <2>3. LinksTo(q, LinksMap(F)).endless = end /\ LinksTo(q, LinksMap(F)).links = links
    BY <2>2
  <2> QED BY <2>1, <2>3, Zenon DEF LinksAre
<1> QED BY <1>4, <1>5

LEMMA FinitelyManyLinked ==
  ASSUME NEW F, IsFiniteSet(Links(F))
  PROVE  /\ IsFiniteSet(DOMAIN LinksMap(F))
         /\ DOMAIN LinksMap(F) = {F[l].data : l \in Links(F)}
<1>1. DOMAIN LinksMap(F) = {F[l].data : l \in Links(F)}
  BY DEF LinksMap, Links
<1>2. PICK f : f = [l \in Links(F) |-> F[l].data]
  OBVIOUS
<1>3. f \in Surjection(Links(F), DOMAIN LinksMap(F))
  BY <1>1, <1>2 DEF Surjection
<1> QED BY <1>1, <1>3, FS_Surjection

\* A walk that comes to a place again goes round for ever.
LEMMA CircleIs ==
  ASSUME NEW F, NEW x, NEW N \in Nat, NEW w, WalkOf(Leads(F), x, N, w),
         \A k \in 0..N : w[k] # {}, NEW i \in 0..N, NEW j \in (i + 1)..N, Again(w, i, j),
         NEW q \in w[N]
  PROVE  OnCircle(F, q)
<1>1. StepsOf(Leads(F), N, w)
  BY WalkSteps, Zenon
<1>2. \A k \in 0..(N - 1) : w[k + 1] = Img(Leads(F), w[k])
  BY <1>1 DEF StepsOf
<1>3. Functional(Leads(F))
  BY LeadsIs
<1>4. OnePlace(w, N)
  BY <1>3, WalkSingle, Zenon
<1>5. \A k \in 0..N : \A y, z \in w[k] : y = z
  BY <1>4 DEF OnePlace
<1>6. RepeatsTo(w, i, j, N)
  <2>1. j \in i..N
    OBVIOUS
  <2> QED BY <2>1, WalkRepeats
<1>7. w[N] = w[i + (N - j)] /\ i + (N - j) \in i..(N - 1) /\ w[i] = w[j] /\ i <= N - 1
  <2>1. N \in j..N /\ i + (N - j) \in i..(N - 1) /\ i <= N - 1
    OBVIOUS
  <2> QED BY <1>6, <2>1 DEF RepeatsTo, Again
<1> DEFINE C == UNION {w[k] : k \in i..N}
<1>8. ASSUME NEW y \in C PROVE \E k \in i..(N - 1) : y \in w[k]
  <2>1. PICK k \in i..N : y \in w[k]
    OBVIOUS
  <2>2. k = N \/ k \in i..(N - 1)
    BY <2>1
  <2> QED BY <1>7, <2>1, <2>2
<1>9. ASSUME NEW y \in C PROVE \E k \in i..(N - 1) : y \in w[k + 1]
  <2>1. PICK k \in i..N : y \in w[k]
    OBVIOUS
  <2>2. CASE k = i
    <3>1. y \in w[j] /\ j - 1 \in i..(N - 1) /\ (j - 1) + 1 = j
      BY <1>7, <2>1, <2>2
    <3> QED BY <3>1
  <2>3. CASE k # i
    <3>1. k - 1 \in i..(N - 1) /\ (k - 1) + 1 = k
      BY <2>1, <2>3
    <3> QED BY <2>1, <3>1
  <2> QED BY <2>2, <2>3
<1>10. ASSUME NEW k \in i..(N - 1)
       PROVE  k \in 0..N /\ k \in 0..(N - 1) /\ k \in i..N /\ k + 1 \in i..N /\ k + 1 \in 0..N
  OBVIOUS
<1>11. ASSUME NEW y \in C PROVE y \in Links(F) /\ F[y].data \in C
  <2>1. PICK k \in i..(N - 1) : y \in w[k]
    BY <1>8
  <2>2. w[k + 1] = Img(Leads(F), w[k]) /\ w[k + 1] # {} /\ \A z \in w[k] : z = y
    BY <1>2, <1>5, <1>10, <2>1
  <2>3. y \in Links(F) /\ F[y].data \in w[k + 1]
    BY <2>2 DEF Img, Leads
  <2> QED BY <1>10, <2>1, <2>3
<1>12. ASSUME NEW y \in C PROVE \E z \in C : F[z].data = y
  <2>1. PICK k \in i..(N - 1) : y \in w[k + 1]
    BY <1>9
  <2>2. y \in Img(Leads(F), w[k])
    BY <1>2, <1>10, <2>1
  <2>3. PICK z \in w[k] : F[z].data = y
    BY <2>2 DEF Img, Leads
  <2> QED BY <1>10, <2>1, <2>3
<1>13. q \in C
  OBVIOUS
<1> HIDE DEF C
<1>14. C \in SUBSET Links(F) /\ {F[z].data : z \in C} = C
  BY <1>11, <1>12
<1> QED BY <1>13, <1>14 DEF OnCircle, Links

\* The search for the links to a file is endless exactly on a circle.
LEMMA EndlessIs ==
  ASSUME NEW F, IsFiniteSet(Links(F)), NEW q
  PROVE  LinksTo(q, LinksMap(F)).endless <=> OnCircle(F, q)
<1>1. IsFiniteSet(DOMAIN LinksMap(F)) /\ DOMAIN LinksMap(F) = {F[l].data : l \in Links(F)}
  BY FinitelyManyLinked
<1>2. PICK M \in Nat : M = Cardinality(DOMAIN LinksMap(F))
  BY <1>1, FS_CardinalityType
<1>3. PICK to : WalkOf(Back(F), q, M + 1, to) /\ LinksAre(q, LinksMap(F), M, to)
  BY <1>2, LinksToIs
<1>4. LinksTo(q, LinksMap(F)).endless <=> to[M + 1] # {}
  BY <1>3 DEF LinksAre
<1>5. PICK N \in Nat : N = M + 1
  OBVIOUS
<1>6. WalkOf(Back(F), q, N, to)
  BY <1>3, <1>5
<1>7. StepsOf(Back(F), N, to) /\ to[0] = {q}
  BY <1>6, WalkSteps, Zenon
<1>8. \A k \in 0..(N - 1) : to[k + 1] = Img(Back(F), to[k])
  BY <1>7 DEF StepsOf
<1>9. ASSUME OnCircle(F, q) PROVE to[N] # {}
  <2>1. PICK C \in SUBSET Links(F) : q \in C /\ {F[z].data : z \in C} = C
    BY <1>9 DEF OnCircle, Links
  <2> DEFINE T == {k \in Nat : k <= N => to[k] \cap C # {}}
  <2>2. 0 \in T
    BY <1>7, <2>1
  <2>3. ASSUME NEW k \in T \cap Nat PROVE k + 1 \in T
    <3>1. CASE k + 1 <= N
      <4>1. k \in 0..(N - 1) /\ k <= N
        BY <3>1
      <4>2. PICK y : y \in to[k] /\ y \in C
        BY <4>1
      <4>3. PICK z \in C : F[z].data = y
        BY <2>1, <4>2
      <4>4. <<F[z].data, z>> \in Back(F)
        BY <2>1, <4>3 DEF Back
      <4>5. z \in to[k + 1]
        BY <1>8, <4>1, <4>2, <4>3, <4>4 DEF Img
      <4> QED BY <4>3, <4>5
    <3> QED BY <3>1
  <2>4. Nat \subseteq T
    <3> HIDE DEF T
    <3> QED BY <2>2, <2>3, SetInduction
  <2> QED BY <2>4
<1>10. ASSUME to[N] # {} PROVE OnCircle(F, q)
  <2>1. PICK x : x \in to[N]
    BY <1>10
  <2>2. PICK w : WalkOf(Leads(F), x, N, w)
    BY WalkExists
  <2>3. StepsOf(Leads(F), N, w) /\ w[0] = {x}
    BY <2>2, WalkSteps, Zenon
  <2>4. \A k \in 0..(N - 1) : w[k + 1] = Img(Leads(F), w[k])
    BY <2>3 DEF StepsOf
  <2> DEFINE T == {k \in Nat : k <= N => w[k] \cap to[N - k] # {}}
  <2>5. 0 \in T
    BY <2>1, <2>3
  <2>6. ASSUME NEW k \in T \cap Nat PROVE k + 1 \in T
    <3>1. CASE k + 1 <= N
      <4>1. PICK m : m = N - (k + 1)
        OBVIOUS
      <4>2. k \in 0..(N - 1) /\ k <= N /\ m \in 0..(N - 1) /\ m + 1 = N - k
        BY <3>1, <4>1
      <4>3. PICK y : y \in w[k] /\ y \in to[m + 1]
        BY <4>2
      <4>4. y \in Links(F) /\ F[y].data \in to[m]
        BY <1>8, <4>2, <4>3 DEF Img, Back
      <4>5. <<y, F[y].data>> \in Leads(F)
        BY <4>4 DEF Leads
      <4>6. F[y].data \in w[k + 1]
        BY <2>4, <4>2, <4>3, <4>5 DEF Img
      <4> QED BY <4>1, <4>4, <4>6
    <3> QED BY <3>1
  <2>7. Nat \subseteq T
    <3> HIDE DEF T
    <3> QED BY <2>5, <2>6, SetInduction
  <2>8. /\ \A k \in 0..N : w[k] # {}
        /\ q \in w[N]
    <3>1. w[N] \cap to[N - N] # {} /\ N - N = 0
      BY <2>7
    <3>2. q \in w[N]
      BY <1>7, <3>1
    <3>3. ASSUME NEW k \in 0..N PROVE w[k] # {}
      BY <2>7
    <3> QED BY <3>2, <3>3
  <2>9. Functional(Leads(F)) /\ OnePlace(w, N)
    <3>1. Functional(Leads(F))
      BY LeadsIs
    <3> QED BY <2>2, <3>1, WalkSingle, Zenon
  <2>10. PICK f : f = [k \in 1..N |-> CHOOSE y : y \in w[k]]
    OBVIOUS
  <2>11. ASSUME NEW k \in 1..N PROVE w[k] = {f[k]} /\ f[k] \in DOMAIN LinksMap(F)
    <3>1. k \in 0..N /\ k - 1 \in 0..(N - 1) /\ (k - 1) + 1 = k
      OBVIOUS
    <3>2. f[k] \in w[k]
      BY <2>8, <2>10, <3>1
    <3>3. w[k] = {f[k]}
      BY <2>9, <3>1, <3>2 DEF OnePlace
    <3>4. w[k] = Img(Leads(F), w[k - 1])
      BY <2>4, <3>1
    <3>5. f[k] \in {F[l].data : l \in Links(F)}
      BY <3>2, <3>4 DEF Img, Leads
    <3> QED BY <1>1, <3>3, <3>5
  <2>12. f \in [1..N -> DOMAIN LinksMap(F)]
    BY <2>10, <2>11
  <2>13. \E a, b \in 1..N : a # b /\ f[a] = f[b]
    <3>1. SUFFICES ASSUME \A a, b \in 1..N : f[a] = f[b] => a = b PROVE FALSE
      OBVIOUS
    <3>2. N <= Cardinality(DOMAIN LinksMap(F))
      BY <1>1, <2>12, <3>1, NoMoreThan
    <3> QED BY <1>2, <1>5, <3>2
  <2>14. \E i \in 0..N : \E j \in (i + 1)..N : Again(w, i, j)
    <3>1. PICK a, b \in 1..N : a # b /\ f[a] = f[b]
      BY <2>13
    <3>2. w[a] = w[b]
      BY <2>11, <3>1
    <3>3. CASE a < b
      <4>1. a \in 0..N /\ b \in (a + 1)..N /\ Again(w, a, b)
        BY <3>2, <3>3 DEF Again
      <4> QED BY <4>1
    <3>4. CASE b < a
      <4>1. b \in 0..N /\ a \in (b + 1)..N /\ Again(w, b, a)
        BY <3>2, <3>4 DEF Again
      <4> QED BY <4>1
    <3> QED BY <3>1, <3>3, <3>4
  <2>15. PICK i \in 0..N : \E j \in (i + 1)..N : Again(w, i, j)
    BY <2>14
  <2>16. PICK j \in (i + 1)..N : Again(w, i, j)
    BY <2>15
  <2> QED BY <2>2, <2>8, <2>16, CircleIs
<1> QED BY <1>4, <1>5, <1>9, <1>10

\* Where links lead from a path, the path is among what leads there.
LEMMA LinksToHas ==
  ASSUME NEW F, IsFiniteSet(Links(F)), NEW p, NEW N \in Nat, NEW w, WalkOf(Leads(F), p, N, w),
         NEW n \in 0..N, NEW q \in w[n]
  PROVE  q = p \/ p \in LinksTo(q, LinksMap(F)).links
<1>1. DOMAIN LinksMap(F) = {F[l].data : l \in Links(F)}
  BY FinitelyManyLinked
<1>2. IsFiniteSet(DOMAIN LinksMap(F))
  BY FinitelyManyLinked
<1>3. PICK M \in Nat : M = Cardinality(DOMAIN LinksMap(F))
  BY <1>2, FS_CardinalityType
<1>4. Functional(Leads(F)) /\ StepsOf(Leads(F), N, w) /\ w[0] = {p}
  BY LeadsIs, WalkSteps
<1>20. Functional(Leads(F))
  BY LeadsIs
<1>5. \A k \in 0..N : \A x, y \in w[k] : x = y
  <2>1. OnePlace(w, N)
    BY <1>20, WalkSingle
  <2> QED BY <2>1 DEF OnePlace
<1>6. PICK m \in 0..n : q \in w[m] /\ Straight(w, m)
  BY <1>4, WalkShortest
<1>7. m <= M
  <2>1. \A i \in 1..m : w[i - 0] \subseteq DOMAIN LinksMap(F)
    <3>1. SUFFICES ASSUME NEW i \in 1..m PROVE w[i] \subseteq DOMAIN LinksMap(F)
      OBVIOUS
    <3>2. i - 1 \in 0..(N - 1) /\ (i - 1) + 1 = i
      OBVIOUS
    <3>3. w[i] = Img(Leads(F), w[i - 1])
      BY <1>4, <3>2 DEF StepsOf
    <3>4. Img(Leads(F), w[i - 1]) = {F[x].data : x \in w[i - 1] \cap Links(F)}
      BY LeadsIs
    <3> QED BY <1>1, <3>3, <3>4
  <2>2. m \in Nat
    BY <1>6
  <2> QED BY <1>2, <1>3, <1>6, <2>1, <2>2, WalkIsShort
<1>8. PICK to : WalkOf(Back(F), q, M + 1, to) /\ LinksAre(q, LinksMap(F), M, to)
  BY <1>3, LinksToIs
<1>10. LinksTo(q, LinksMap(F)).links = UNION {to[k] : k \in 1..M}
  BY <1>8 DEF LinksAre
<1>11. M + 1 \in Nat
  BY <1>3
<1>12. StepsOf(Back(F), M + 1, to) /\ to[0] = {q}
  BY <1>8, <1>11, WalkSteps
<1> DEFINE T == {k \in Nat : k <= m => w[m - k] \subseteq to[k]}
<1>13. 0 \in T
  BY <1>5, <1>6, <1>12
<1>14. ASSUME NEW k \in T \cap Nat PROVE k + 1 \in T
  <2>1. CASE k + 1 <= m
    <3>1. PICK i : i = m - (k + 1)
      OBVIOUS
    <3>2. i \in 0..(N - 1) /\ i + 1 = m - k /\ i \in 0..N /\ k \in 0..((M + 1) - 1) /\ k <= m /\ i + 1 \in 0..m
      BY <1>3, <1>7, <2>1, <3>1
    <3>3. /\ w[i + 1] = Img(Leads(F), w[i]) /\ w[i + 1] # {}
          /\ to[k + 1] = Img(Back(F), to[k]) /\ w[i + 1] \subseteq to[k]
      BY <1>4, <1>6, <1>12, <3>2 DEF StepsOf, Straight
    <3>4. \A x, y \in w[i] : x = y
      BY <1>5, <3>2
    <3>5. ASSUME NEW x \in w[i] PROVE x \in to[k + 1]
      <4>1. x \in Links(F) /\ F[x].data \in w[i + 1]
        BY <3>3, <3>4, <3>5 DEF Img, Leads
      <4>2. <<F[x].data, x>> \in Back(F) /\ F[x].data \in to[k]
        BY <3>3, <4>1 DEF Back
      <4> QED BY <3>3, <4>2 DEF Img
    <3> QED BY <3>1, <3>5
  <2> QED BY <2>1
<1>15. Nat \subseteq T
  <2> HIDE DEF T
  <2> QED BY <1>13, <1>14, SetInduction
<1>16. m \in Nat /\ m - m = 0
  BY <1>6
<1>17. p \in to[m]
  BY <1>4, <1>15, <1>16
<1>18. CASE m # 0
  <2>1. m \in 1..M
    BY <1>3, <1>6, <1>7, <1>18
  <2> QED BY <1>10, <1>17, <2>1
<1>19. CASE m = 0
  BY <1>4, <1>6, <1>19
<1> QED BY <1>18, <1>19

\* Nothing else is read where no changed file is, nor links lead to one.
LEMMA UnchangedReads ==
  ASSUME NEW F, NEW G, IsFiniteSet(DOMAIN F), IsFiniteSet(DOMAIN G), NEW p,
         \A f \in FilesDiff(G, F) : f # p /\ p \notin LinksTo(f, LinksMap(F)).links
  PROVE  Read(G, p) = Read(F, p)
<1>1. IsFiniteSet(Links(F)) /\ IsFiniteSet(Links(G))
  <2>1. Links(F) \in SUBSET DOMAIN F /\ Links(G) \in SUBSET DOMAIN G
    BY DEF Links
  <2> QED BY <2>1, FS_Subset
<1>2. PICK N \in Nat : Cardinality(Links(F)) <= N /\ Cardinality(Links(G)) <= N
  <2>1. Cardinality(Links(F)) \in Nat /\ Cardinality(Links(G)) \in Nat
    BY <1>1, FS_CardinalityType
  <2>2. /\ Cardinality(Links(F)) + Cardinality(Links(G)) \in Nat
        /\ Cardinality(Links(F)) <= Cardinality(Links(F)) + Cardinality(Links(G))
        /\ Cardinality(Links(G)) <= Cardinality(Links(F)) + Cardinality(Links(G))
    BY <2>1
  <2> QED BY <2>2
<1>3. PICK w : WalkOf(Leads(F), p, N, w)
  BY WalkExists
<1>4. PICK v : WalkOf(Leads(G), p, N, v)
  BY WalkExists
<1>5. ASSUME NEW n \in 0..N, NEW q \in w[n]
      PROVE  /\ q \in DOMAIN F <=> q \in DOMAIN G
             /\ q \in DOMAIN F => F[q] = G[q]
  <2>1. q = p \/ p \in LinksTo(q, LinksMap(F)).links
    BY <1>1, <1>3, LinksToHas
  <2>2. q \notin FilesDiff(G, F)
    BY <2>1
  <2> QED BY <2>2 DEF FilesDiff
<1>6. ASSUME NEW n \in 0..N PROVE Img(Leads(F), w[n]) = Img(Leads(G), w[n])
  <2>1. \A q \in w[n] : (q \in Links(F) <=> q \in Links(G)) /\ (q \in Links(F) => F[q].data = G[q].data)
    BY <1>5 DEF Links
  <2>2. {F[q].data : q \in w[n] \cap Links(F)} = {G[q].data : q \in w[n] \cap Links(G)}
    BY <2>1
  <2> QED BY <2>2, LeadsIs
<1>7. \A n \in 0..N : n <= N => w[n] = v[n]
  BY <1>3, <1>4, <1>6, WalksAgree
<1>8. \A n \in 0..N : w[n] = v[n]
  BY <1>7
<1>9. Read(F, p) = Ends(F, N, w) /\ Read(G, p) = Ends(G, N, v)
  BY <1>1, <1>2, <1>3, <1>4, ReadIs
<1>10. Ends(F, N, w) = Ends(G, N, v)
  BY <1>5, <1>8 DEF Ends, Links
<1> QED BY <1>9, <1>10

\* While sources are got the job knows its patch and the files it changes.
ChangedInv ==
  job.step = "get" =>
    \E patch \in Patches :
      /\ job.commit = patch[2] /\ job.old = patch[1]
      /\ job.changed = ModifiedFiles(patch[2], patch[1])

LEMMA ChangedStep ==
  ASSUME JobTyped, ChangedInv, [Next]_vars
  PROVE  ChangedInv'
<1>1. ASSUME job'.step # "get" PROVE ChangedInv'
  BY <1>1 DEF ChangedInv
<1>2. ASSUME NEW kind, Start(kind) PROVE ChangedInv'
  <2>1. PICK patch \in Patches :
          job' = [step |-> "get", kind |-> kind, commit |-> patch[2], todo |-> patch[2].sources,
                  failed |-> FALSE, changed |-> ModifiedFiles(patch[2], patch[1]), old |-> patch[1]]
    BY <1>2 DEF Start
  <2>2. /\ job'.commit = patch[2] /\ job'.old = patch[1]
        /\ job'.changed = ModifiedFiles(patch[2], patch[1])
    BY <2>1
  <2> QED BY <2>2 DEF ChangedInv
<1>3. CASE GetSource
  <2>1. job' = [job EXCEPT !.todo = Tail(@)]
    BY <1>3 DEF GetSource
  <2>2. UNCHANGED <<job.step, job.commit, job.old, job.changed>>
    BY <2>1
  <2> QED BY <2>2 DEF ChangedInv
<1>4. CASE GetFails
  BY <1>1, <1>4, GetFailsGoes DEF Goes
<1>5. CASE Reset
  BY <1>1, <1>5, ResetGoes DEF Goes
<1>6. CASE Setup
  BY <1>1, <1>6, SetupGoes DEF Goes
<1>7. ASSUME UNCHANGED job PROVE ChangedInv'
  BY <1>7 DEF ChangedInv
<1>8. CASE Cleaned
  BY <1>1, <1>8, CleanedGoes DEF Goes
<1>9. CASE Preparing
  BY <1>1, <1>9, PreparingGoes DEF Goes
<1>11. CASE Environ
  BY <1>1, <1>11, EnvironGoes DEF Goes
<1>12. \A f : Ended(f).step = "end"
  BY DEF Ended
<1>13. CASE Run
  BY <1>1, <1>12, <1>13 DEF Run
<1>14. CASE RunUpdate
  BY <1>1, <1>14 DEF RunUpdate
<1>15. CASE UpdateEnds
  BY <1>1, <1>12, <1>15 DEF UpdateEnds
<1>16. CASE End
  BY <1>1, <1>16 DEF End, NoJob
<1>17. Clean \/ UpdateImages \/ UNCHANGED vars => UNCHANGED job
  BY DEF Clean, UpdateImages, vars
<1> QED
  BY <1>2, <1>3, <1>4, <1>5, <1>6, <1>7, <1>8, <1>9, <1>11, <1>13, <1>14, <1>15, <1>16, <1>17
  DEF Next, Preparing

THEOREM ChangedInvHolds == Spec => []ChangedInv
<1>1. Init => ChangedInv
  BY DEF Init, NoJob, ChangedInv
<1>2. JobTyped /\ ChangedInv /\ [Next]_vars => ChangedInv'
  BY ChangedStep
<1> QED BY <1>1, <1>2, JobsAreTyped, PTL DEF Spec

\* changed-files fails exactly if a patch changes a link on a circle, and else
\* finds every path under which something else is read than before the patch,
\* however many links lead to it and whatever circles there are elsewhere.
THEOREM ChangedFilesAreFoundAlways == Spec => []ChangedFilesAreFound
<1>1. ASSUME ChangedInv, job.step = "get" PROVE ChangedFilesAreFound
  <2>1. PICK patch \in Patches :
          /\ job.commit = patch[2] /\ job.old = patch[1]
          /\ job.changed = ModifiedFiles(patch[2], patch[1])
    BY <1>1 DEF ChangedInv
  <2>2. PICK F, G : F = AllFiles(patch[2]) /\ G = AllFiles(patch[1])
    OBVIOUS
  <2>3. IsFiniteSet(DOMAIN F) /\ IsFiniteSet(DOMAIN G)
    BY <2>2, FilesAssumption
  <2>4. IsFiniteSet(Links(F))
    <3>1. Links(F) \in SUBSET DOMAIN F
      BY DEF Links
    <3> QED BY <2>3, <3>1, FS_Subset
  <2>5. PICK linked : linked = {LinksTo(f, LinksMap(F)) : f \in FilesDiff(G, F)}
    OBVIOUS
  <2>6. job.changed = IF \E l \in linked : l.endless THEN RecursionError
                      ELSE [files |-> FilesDiff(G, F) \cup UNION {l.links : l \in linked}]
    BY <2>1, <2>2, <2>5 DEF ModifiedFiles
  <2>7. (\E l \in linked : l.endless) <=> (\E f \in FilesDiff(G, F) : OnCircle(F, f))
    BY <2>4, <2>5, EndlessIs
  <2>8. CASE \E l \in linked : l.endless
    <3>1. job.changed = RecursionError /\ \E f \in FilesDiff(G, F) : OnCircle(F, f)
      BY <2>6, <2>7, <2>8
    <3> QED BY <2>1, <2>2, <3>1 DEF ChangedFilesAreFound
  <2>9. CASE ~\E l \in linked : l.endless
    <3>1. /\ job.changed = [files |-> FilesDiff(G, F) \cup UNION {l.links : l \in linked}]
          /\ ~\E f \in FilesDiff(G, F) : OnCircle(F, f)
      BY <2>6, <2>7, <2>9
    <3>2. job.changed # RecursionError
      BY <3>1 DEF RecursionError
    <3>3. ASSUME NEW p, p \notin job.changed.files PROVE Read(G, p) = Read(F, p)
      <4>1. \A f \in FilesDiff(G, F) : f # p /\ p \notin LinksTo(f, LinksMap(F)).links
        BY <2>5, <3>1, <3>3
      <4> QED BY <2>3, <4>1, UnchangedReads
    <3> QED BY <2>1, <2>2, <3>1, <3>2, <3>3 DEF ChangedFilesAreFound
  <2> QED BY <2>8, <2>9
<1>2. job.step # "get" => ChangedFilesAreFound
  BY DEF ChangedFilesAreFound
<1>3. ChangedInv => ChangedFilesAreFound
  BY <1>1, <1>2
<1> QED BY <1>3, ChangedInvHolds, PTL
=============================================================================
