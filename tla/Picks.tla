------------------------------- MODULE Picks --------------------------------
(***************************************************************************)
(* A list comprehension with a condition: the members of s at the          *)
(* positions I, in their order.                                            *)
(***************************************************************************)
EXTENDS Naturals, Sequences

Picked(s, I) ==
    LET upTo[n \in 0..Len(s)] ==
            IF n = 0 THEN << >>
            ELSE IF n \in I THEN Append(upTo[n - 1], s[n]) ELSE upTo[n - 1]
    IN  upTo[Len(s)]
=============================================================================
