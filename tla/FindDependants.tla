--------------------------- MODULE FindDependants ---------------------------
(***************************************************************************)
(* The work-list of ChangeQueueWithDeps._find_dependants_on, one turn of   *)
(* its loop at a time.  A Python set is gone through in an order of its    *)
(* own, so the ids found in one turn enter the work-list in any order.     *)
(***************************************************************************)
EXTENDS Dependants, Naturals, Sequences, SequencesExt, FiniteSets

CONSTANT Inputs     \* the collections of changes to search

ASSUME InputsAssumption == Inputs \subseteq SUBSET Changes /\ IsFiniteSet(Ids)

VARIABLES
    change_id,      \* the arguments
    changes,
    depmap,         \* the ids that directly require each id, taken out once
    dependants,     \* the ids found so far
    recurse_into    \* the work-list

searchVars == <<change_id, changes, depmap, dependants, recurse_into>>

\* A slip in the loop over the requirements: the edges the wrong way round.
MutBackwards ==
    depmap = [id \in Ids |-> UNION {Requires[c] : c \in {d \in changes : Id[d] = id}}]

BuildDepmap == depmap = [id \in Ids |-> Needing({id}, changes)]

SearchInit ==
    /\ change_id \in Ids
    /\ changes \in Inputs
    /\ BuildDepmap
    /\ dependants = {}
    /\ recurse_into = << change_id >>

\* A slip in the loop: the id searched is not taken off the work-list.
MutPeek ==
    /\ recurse_into # << >>
    /\ LET c_id   == Head(recurse_into)
           c_deps == depmap[c_id] \ dependants
       IN  /\ depmap' = [depmap EXCEPT ![c_id] = {}]
           /\ dependants' = dependants \cup c_deps
           /\ \E found \in SetToSeqs(c_deps) :
                 recurse_into' = recurse_into \o found
    /\ UNCHANGED <<change_id, changes>>

Turn ==
    /\ recurse_into # << >>
    /\ LET c_id   == Head(recurse_into)
           c_deps == depmap[c_id] \ dependants
       IN  /\ depmap' = [depmap EXCEPT ![c_id] = {}]
           /\ dependants' = dependants \cup c_deps
           /\ \E found \in SetToSeqs(c_deps) :
                 recurse_into' = Tail(recurse_into) \o found
    /\ UNCHANGED <<change_id, changes>>

Returned == recurse_into = << >> /\ UNCHANGED searchVars

SearchNext == Turn \/ Returned

SearchSpec == SearchInit /\ [][SearchNext]_searchVars
FairSearchSpec == SearchSpec /\ WF_searchVars(Turn)
-----------------------------------------------------------------------------
(***************************************************************************)
(* When the work-list is empty the ids found are exactly the transitive    *)
(* dependants: what the queue removes with a culprit, and what it takes    *)
(* for a dependency loop when the id itself is among them.                 *)
(***************************************************************************)
FindsTheDependants ==
    recurse_into = << >> => dependants = DependantsOn(change_id, changes)

\* The search ends, also when the requirements run in circles.
Terminates == <>(recurse_into = << >>)
=============================================================================
