------------------------ MODULE MCChangeQueueStack -------------------------
(* The instance of ChangeQueueStack that TLC checks.                       *)
EXTENDS ChangeQueueStack

CONSTANTS c1, c2, c3, c4, c5, c6, i1, i2, i3, i4, s1, s2

MCChanges == {c1, c2, c3, c4, c5, c6}
MCIds == {i1, i2, i3, i4}
MCStreams == {s1, s2}

(***************************************************************************)
(* A chain i1 <- i2 <- i4 and a loop i2 <-> i3.  Two ids are submitted     *)
(* again: i1 (c4) with a requirement on i2, which makes a second loop, and *)
(* i3 (c5) without the requirement that made the first.                    *)
(***************************************************************************)
MCId ==
    c1 :> i1 @@ c2 :> i2 @@ c3 :> i3 @@ c4 :> i1 @@ c5 :> i3 @@ c6 :> i4
MCRequires ==
    c1 :> {} @@ c2 :> {i1, i3} @@ c3 :> {i2} @@ c4 :> {i2} @@ c5 :> {}
        @@ c6 :> {i2}
MCStream ==
    c1 :> s1 @@ c2 :> s2 @@ c3 :> s2 @@ c4 :> s1 @@ c5 :> NoStream @@ c6 :> s1
=============================================================================
