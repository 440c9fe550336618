---------------------------- MODULE NestedConfig ----------------------------
(***************************************************************************)
(* gen_vectors of stdci_libs/nested_config.py.  A section of a configuration*)
(* is [opts, cats]: opts its options, cats the sequences of values it gives *)
(* to some categories.  A value is [value, under], where under is empty or  *)
(* holds the one section written under the value; NotMapping stands for     *)
(* anything else written there.                                             *)
(***************************************************************************)
EXTENDS Vectors

CONSTANTS Configs,     \* the sections a run starts from
          Hashes,      \* the rankings Python's hash may give to categories
          NotMapping   \* what is written where a section should be

VARIABLES config, hash, vectors, parse
nestedVars == <<config, hash, vectors, parse>>

ASSUME NAssumption == N \in Nat \ {0}

RECURSIVE Aggregated(_, _)
Aggregated(vs, h) ==
  IF AnyMerged(vs) THEN Aggregated(Round(vs, h), h) ELSE Round(vs, h)

\* The categories of a section that _dfs visits.
Visited(section, seen) == DOMAIN section.cats \ seen

\* The vectors _dfs yields, in its order.
RECURSIVE Dfs(_, _, _, _)
Dfs(section, seen, depth, h) ==
  LET here(cats) == Vector(cats, section.opts, depth + 1)
      valued(i, cv) ==
        LET v == here([Unset EXCEPT ![i] = cv.value])
        IN IF cv.under = <<>> THEN <<v>>
           ELSE LET deeper == Aggregated(Dfs(cv.under[1], seen \cup {i}, depth + 1, h), h)
                IN [k \in DOMAIN deeper |-> MergeVectors(v, deeper[k])]
      ofCategory(i) ==
        IF i \notin Visited(section, seen) THEN <<>>
        ELSE FlattenSeq([k \in DOMAIN section.cats[i] |-> valued(i, section.cats[i][k])])
  IN IF Visited(section, seen) = {} THEN <<here(Unset)>>
     ELSE FlattenSeq([i \in Positions |-> ofCategory(i)])

\* No section that _dfs comes to is anything but a mapping.
RECURSIVE WellFormed(_, _)
WellFormed(section, seen) ==
  /\ section # NotMapping
  /\ \A i \in Visited(section, seen) : \A k \in DOMAIN section.cats[i] :
       LET under == section.cats[i][k].under
       IN under # <<>> => WellFormed(under[1], seen \cup {i})

InitNested ==
  /\ config \in Configs /\ hash \in Hashes
  /\ vectors = <<>> /\ parse = "start"

\* gen_vectors walks the whole configuration before the first vector is out;
\* the first turn of _aggregate consumes _dfs.
Walk ==
  /\ parse = "start"
  /\ IF WellFormed(config, {})
     THEN parse' = "aggregating" /\ vectors' = Dfs(config, {}, 0, hash)
     ELSE parse' = "SyntaxError" /\ UNCHANGED vectors
  /\ UNCHANGED <<config, hash>>

Aggregate ==
  /\ parse = "aggregating"
  /\ parse' = IF AnyMerged(vectors) THEN "aggregating" ELSE "parsed"
  /\ vectors' = Round(vectors, hash)
  /\ UNCHANGED <<config, hash>>
-----------------------------------------------------------------------------
\* What the configuration says, without vectors, orders or merges: the
\* environments a section describes are the maximal combinations of those its
\* values describe, each with every option written on the way to it.
Union(es) == [i \in Positions |->
  IF \E e \in es : e.cats[i] # None THEN (CHOOSE e \in es : e.cats[i] # None).cats[i] ELSE None]

Combinations(es) ==
  LET consistent == {s \in SUBSET es : s # {} /\ \A d, e \in s : Compatible(d, e)}
      maximal == {s \in consistent : \A e \in es \ s : s \cup {e} \notin consistent}
  IN {[cats |-> Union(s), written |-> UNION {e.written : e \in s}] : s \in maximal}

RECURSIVE Environments(_, _, _, _)
Environments(section, seen, path, depth) ==
  LET own == {[opt |-> o, val |-> section.opts[o], cats |-> path, depth |-> depth] :
                o \in DOMAIN section.opts}
      at(i, value, e) == [cats |-> [e.cats EXCEPT ![i] = value], written |-> own \cup e.written]
      plain == [cats |-> Unset, written |-> {}]
      under(i, cv) ==
        IF cv.under = <<>> THEN {plain}
        ELSE Environments(cv.under[1], seen \cup {i}, [path EXCEPT ![i] = cv.value], depth + 1)
  IN IF Visited(section, seen) = {} THEN {[plain EXCEPT !.written = own]}
     ELSE Combinations(UNION {UNION {{at(i, cv.value, e) : e \in under(i, cv)} :
                                       cv \in ToSet(section.cats[i])} :
                                i \in Visited(section, seen)})

Described == Environments(config, {}, Unset, 1)

\* Once parsed, the vectors are exactly the environments the configuration
\* describes: each value goes with all it does not contradict, and none is
\* lost or listed twice, however the hashes sorted the vectors on the way.
ThreadsAreMaximal ==
  parse = "parsed" =>
    /\ {vectors[k].cats : k \in DOMAIN vectors} = {e.cats : e \in Described}
    /\ \A j, k \in DOMAIN vectors : j # k => vectors[j].cats # vectors[k].cats

\* A vector has exactly the options written on the way to its environment,
\* each with a value that was written there: no pass of the aggregation loses
\* an option or takes it to an environment it was not written for.
OptionsApply ==
  parse = "parsed" => \A k \in DOMAIN vectors : \A e \in Described :
    e.cats = vectors[k].cats =>
      /\ DOMAIN vectors[k].opts = {w.opt : w \in e.written}
      /\ \A o \in DOMAIN vectors[k].opts :
           \E w \in e.written : w.opt = o /\ w.val = vectors[k].opts[o]

\* The doc of _merge_options_wrapper: options found deeper win, then those
\* with more categories, then those with the right-most category.
MostSignificantOptionsWin ==
  parse = "parsed" => \A k \in DOMAIN vectors : \A e \in Described :
    e.cats = vectors[k].cats => \A o \in DOMAIN vectors[k].opts :
      \E w \in e.written :
        /\ w.opt = o /\ w.val = vectors[k].opts[o]
        /\ \A x \in e.written : x.opt = o => ~MoreSignificant(x, w)
=============================================================================
