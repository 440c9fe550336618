----------------------------- MODULE Dependants -----------------------------
(***************************************************************************)
(* Changes that require others (ChangeQueueWithDeps).  A change requires   *)
(* ids, not changes: the same id may be submitted more than once.          *)
(***************************************************************************)
CONSTANTS
    Changes,    \* the changes people submit
    Ids,        \* what identifies a change as a requirement
    Id,         \* the id of each change (its 'id' attribute)
    Requires    \* the ids each change requires (its 'requirements')

ASSUME DependenciesAssumption ==
    /\ Id \in [Changes -> Ids]
    /\ Requires \in [Changes -> SUBSET Ids]

\* Each change has an id of its own.
DistinctIds == \A c, d \in Changes : Id[c] = Id[d] => c = d

\* The ids of those of changes that require one of ids themselves.
Needing(ids, changes) ==
    {Id[c] : c \in {d \in changes : Requires[d] \cap ids # {}}}

ClosedUnder(change_id, changes, ids) ==
    Needing({change_id} \cup ids, changes) \subseteq ids

\* A slip in _find_dependants_on: only the direct dependants are found.
MutDirectDependants(change_id, changes) == Needing({change_id}, changes)

(***************************************************************************)
(* What _find_dependants_on returns: the ids of the changes that directly  *)
(* or indirectly require change_id, the least set that is closed.  The id  *)
(* itself is among them exactly when it is on a loop.  FindDependants has  *)
(* the loop that computes it.                                              *)
(***************************************************************************)
DependantsOn(change_id, changes) ==
    {id \in Ids : \A S \in SUBSET Ids :
        ClosedUnder(change_id, changes, S) => id \in S}
=============================================================================
