---------------------------- MODULE MCPlacement ----------------------------
(* A small instance of Placement for TLC.                                  *)
EXTENDS Placement, TLC

CONSTANTS A, B, C, F

ById == (A :> 1) @@ (B :> 2) @@ (C :> 3)

\* F is near A, and far from the others.
Triangle ==
    (<<A, B>> :> 1) @@ (<<A, C>> :> 3) @@ (<<B, C>> :> 1)
    @@ (<<F, A>> :> 1) @@ (<<F, B>> :> 5) @@ (<<F, C>> :> 5)
\* A route configured in both directions with different delays has an odd round trip.
Uneven == (<<A, B>> :> 1) @@ (<<B, A>> :> 2) @@ (<<B, C>> :> 4) @@ (<<F, C>> :> 1)
SomeLoad == {<<F, FALSE>>, <<B, TRUE>>}
TwoSetups == {<<{A, B, C}, Triangle>>, <<{A, B}, Uneven>>}
=============================================================================
