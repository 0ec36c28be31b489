---------------------------- MODULE MCStateBallots ----------------------------
(* Two lookups of the API at a time and a worker, for a page the API collects *)
(* and bulk publications whose collections may or must be stored.             *)
EXTENDS StateBallots, TLC

CONSTANTS r1, r2, w1

MCRequest == {r1, r2}
MCWorker == {w1}
MCFormats == {[bulk |-> FALSE, retains |-> FALSE],
              [bulk |-> TRUE, retains |-> FALSE],
              [bulk |-> TRUE, retains |-> TRUE]}
MCSymmetry == Permutations(MCRequest)
==============================================================================
