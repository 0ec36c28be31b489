-------------------------- MODULE MCPrivateHandoff --------------------------
(* TLC instance of PrivateHandoff: two payloads, two identities, two runs   *)
(* of the sender and two attempts each.                                     *)
EXTENDS PrivateHandoff, TLC

CONSTANTS a, b, i1, i2, r1, r2

MCPayload == {a, b}
MCId == {i1, i2}
MCRun == {r1, r2}
MCSymmetry == Permutations(MCPayload) \cup Permutations(MCId)
              \cup Permutations(MCRun)
=============================================================================
