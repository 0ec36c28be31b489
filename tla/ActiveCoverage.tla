--------------------------- MODULE ActiveCoverage ---------------------------
(***************************************************************************)
(* What the operators of coverage snapshots are promised: there is one     *)
(* active pair of snapshot and metadata; a promotion, a rollback and a     *)
(* recovery replace it as a whole; an import replaces the snapshot first   *)
(* and binds the metadata to it afterwards, if it is not cut short; and an *)
(* API process serves the pair that is active, unless its metadata         *)
(* approves another snapshot.  Files, journals and crashes do not show.    *)
(***************************************************************************)
CONSTANTS Process, Version, None

VARIABLES
  pair,       \* the active pair
  importing,  \* the processes that have imported a snapshot, not its metadata
  served      \* served[p]: the pair process p serves, or None

vars == <<pair, importing, served>>

Absent == [snapshot |-> None, metadata |-> None]
Whole(v) == [snapshot |-> v, metadata |-> v]

Init == /\ pair \in {Whole(v) : v \in Version} \cup {Absent}
        /\ importing = {}
        /\ served = [p \in Process |-> None]

Replace == \E v \in Version : pair' = Whole(v) /\ UNCHANGED <<importing, served>>

Import(p) ==
  /\ p \notin importing /\ importing' = importing \cup {p}
  /\ \E v \in Version : pair' = [pair EXCEPT !.snapshot = v]
  /\ UNCHANGED served

Approve(p) ==
  /\ p \in importing /\ importing' = importing \ {p}
  /\ pair' = Whole(pair.snapshot)
  /\ UNCHANGED served

Serve(p) ==
  /\ served[p] = None /\ pair.metadata \in {None, pair.snapshot}
  /\ served' = [served EXCEPT ![p] = pair]
  /\ UNCHANGED <<pair, importing>>

Next == Replace \/ \E p \in Process : Import(p) \/ Approve(p) \/ Serve(p)

Spec == Init /\ [][Next]_vars
=============================================================================
