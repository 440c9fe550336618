------------------------- MODULE MCFindDependants --------------------------
(* Every graph of three ids, each submitted once, and every part of it.    *)
EXTENDS FindDependants

CONSTANTS i1, i2, i3

MCIds == {i1, i2, i3}
MCChanges == [id : MCIds, requirements : SUBSET MCIds]
MCId == [c \in MCChanges |-> c.id]
MCRequires == [c \in MCChanges |-> c.requirements]
MCInputs ==
    {{[id |-> i, requirements |-> r[i]] : i \in present} :
        r \in [MCIds -> SUBSET MCIds], present \in SUBSET MCIds}
=============================================================================
