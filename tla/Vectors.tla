------------------------------ MODULE Vectors ------------------------------
(***************************************************************************)
(* The vectors of stdci_libs/nested_config.py: a vector gives each          *)
(* category a value or None, and carries the options found with it and the  *)
(* depth they were found at.  The operators of this module merge, multiply  *)
(* and unite vectors.  The order of vectors is that of the hashes of their  *)
(* categories, which Python chooses anew in every process: hash is a        *)
(* parameter, any injective ranking.                                        *)
(***************************************************************************)
EXTENDS Naturals, SequencesExt

CONSTANTS N,       \* how many categories there are, least significant first
          None     \* the category is not set

Positions == 1..N

\* A slip: the keys of the copy are not kept.
MutKnownOnly(base, mod) == [o \in DOMAIN base |-> IF o \in DOMAIN mod THEN mod[o] ELSE base[o]]

\* get_merged_options: a copy of base with the options of mod on top.
Updated(base, mod) ==
  [o \in DOMAIN base \cup DOMAIN mod |-> IF o \in DOMAIN mod THEN mod[o] ELSE base[o]]

Vector(cats, opts, depth) == [cats |-> cats, opts |-> opts, depth |-> depth]

Unset == [i \in Positions |-> None]

SetIn(v) == {i \in Positions : v.cats[i] # None}

\* _merge_options_wrapper: v's options are applied on those of w.
MoreSignificant(v, w) ==
  LET sameDepth == v.depth = w.depth
      sameWeight == Cardinality(SetIn(v)) = Cardinality(SetIn(w))
  IN \/ v.depth > w.depth
     \/ sameDepth /\ Cardinality(SetIn(v)) > Cardinality(SetIn(w))
     \/ /\ sameDepth /\ sameWeight
        /\ \E i \in SetIn(v) \ SetIn(w) :
             \A j \in Positions : j > i => (j \in SetIn(v) <=> j \in SetIn(w))

MergedOptions(v, w) ==
  IF MoreSignificant(v, w) THEN Updated(w.opts, v.opts) ELSE Updated(v.opts, w.opts)

Compatible(v, w) ==
  \A i \in Positions : v.cats[i] = None \/ w.cats[i] = None \/ v.cats[i] = w.cats[i]

\* _merge_vectors, of compatible vectors.  The depth is an entry of the
\* options, so the greater one stays.
MergeVectors(v, w) ==
  Vector([i \in Positions |-> IF v.cats[i] = None THEN w.cats[i] ELSE v.cats[i]],
         MergedOptions(v, w),
         IF v.depth > w.depth THEN v.depth ELSE w.depth)

\* _cartesian_multiplication: every ordered pair that is compatible, merged,
\* and then the vectors that are in no such pair.
Merges(vectors, i, j) == i # j /\ Compatible(vectors[i], vectors[j])

AnyMerged(vectors) == \E i, j \in DOMAIN vectors : Merges(vectors, i, j)

\* A slip: vectors that merge with no other are forgotten.
MutOnlyMerged(vectors) ==
  FlattenSeq([i \in DOMAIN vectors |->
    LET partners == SelectSeq([j \in DOMAIN vectors |-> j], LAMBDA j : Merges(vectors, i, j))
    IN [k \in DOMAIN partners |-> MergeVectors(vectors[i], vectors[partners[k]])]])

Multiplied(vectors) ==
  LET all == [i \in DOMAIN vectors |-> i]
      mergedWith(i) == LET partners == SelectSeq(all, LAMBDA j : Merges(vectors, i, j))
                       IN [k \in DOMAIN partners |-> MergeVectors(vectors[i], vectors[partners[k]])]
      alone == SelectSeq(all, LAMBDA i : \A j \in DOMAIN vectors : ~Merges(vectors, i, j))
  IN FlattenSeq([i \in DOMAIN vectors |-> mergedWith(i)]) \o [k \in DOMAIN alone |-> vectors[alone[k]]]

\* The runs of equal vectors once they are sorted; Python's sort is stable.
Groups(vectors, hash) ==
  LET hashes == SetToSortSeq({hash[vectors[i].cats] : i \in DOMAIN vectors}, <)
  IN [k \in DOMAIN hashes |-> SelectSeq(vectors, LAMBDA v : hash[v.cats] = hashes[k])]

\* _dedup: one vector of each run, later options over earlier ones; the depth
\* is an option among them.
Deduped(vectors, hash) ==
  LET unite(v, w) == Vector(v.cats, Updated(v.opts, w.opts), w.depth)
      groups == Groups(vectors, hash)
  IN [k \in DOMAIN groups |-> FoldLeft(unite, Head(groups[k]), Tail(groups[k]))]

\* One turn of the loop in _aggregate.
Round(vectors, hash) == Deduped(Multiplied(vectors), hash)
=============================================================================
