-------------------------------- MODULE Maps --------------------------------
(***************************************************************************)
(* Dictionaries are functions.  Over is dict.update: f where it is defined, *)
(* else g (the prover does not know the operator of module TLC).            *)
(***************************************************************************)
Over(f, g) == [x \in DOMAIN f \cup DOMAIN g |-> IF x \in DOMAIN f THEN f[x] ELSE g[x]]
Without(f, xs) == [x \in DOMAIN f \ xs |-> f[x]]
Entry(x, v) == [y \in {x} |-> v]
=============================================================================
