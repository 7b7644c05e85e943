------------------------- MODULE MCResolutionService -------------------------
(* Instances of ResolutionService for TLC: calls are interchangeable. *)
EXTENDS ResolutionService, TLC

CONSTANTS p1, p2

CallSymmetry == Permutations({p1, p2})
=============================================================================
