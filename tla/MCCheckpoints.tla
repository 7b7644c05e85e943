----------------------------- MODULE MCCheckpoints ------------------------------
\* Two wilayas that share the border (3,0)-(3,2).
EXTENDS Checkpoints, TLC

CONSTANTS A, B

MCCatalogue == <<A, B>>

MCRings ==
  (A :> {<<Point(0, 0), Point(3, 0), Point(3, 2), Point(0, 2), Point(0, 0)>>}) @@
  (B :> {<<Point(3, 0), Point(6, 0), Point(6, 2), Point(3, 2), Point(3, 0)>>})
=============================================================================
