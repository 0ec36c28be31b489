---------------------- MODULE MCRepresentativeLookups ----------------------
(* Five requests of two clients for three representatives, one bucket and  *)
(* a cache of two entries.                                                 *)
EXTENDS RepresentativeLookups, TLC

CONSTANTS s1, s2, s3, c1, c2

MCSlug == {s1, s2, s3}
MCClient == {c1, c2}
MCSymmetry == Permutations(MCSlug) \cup Permutations(MCClient)
=============================================================================
