------------------------- MODULE MCCoveragePromotion -------------------------
(* TLC instance of CoveragePromotion: a prior snapshot or none, two candi-  *)
(* dates, and as many processes as crashes and repairs need.                *)
EXTENDS CoveragePromotion, TLC

CONSTANTS v1, v2, v3, p1, p2, p3

MCVersion == {v1, v2, v3}
MCCandidate == {v2, v3}
MCTwo == {p1, p2}
MCThree == {p1, p2, p3}
MCSymmetry == Permutations(MCThree) \cup Permutations(MCCandidate)
==========================================================================
