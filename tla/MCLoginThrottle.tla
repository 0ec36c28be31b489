-------------------------- MODULE MCLoginThrottle --------------------------
(* Two accounts, one address and two requests at a time: one account and   *)
(* the address fill the table.                                             *)
EXTENDS LoginThrottle, TLC

CONSTANTS a1, a2, i1, q1, q2

MCAccount == {a1, a2}
MCIp == {i1}
MCRequest == {q1, q2}

MCSymmetry == Permutations(MCRequest) \cup Permutations(MCAccount)
=============================================================================
