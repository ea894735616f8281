--------------------------- MODULE MCArtifactStore ---------------------------
(* Instances of ArtifactStore for TLC.                                       *)
EXTENDS ArtifactStore, TLC

CONSTANTS a1, a2, x, y, small, c1, c2

\* A remote result with two large artifacts.
TwoLarge == (a1 :> x) @@ (a2 :> y)

\* Callers are interchangeable.
CallerSymmetry == Permutations(Callers)
=============================================================================
