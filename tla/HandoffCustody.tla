--------------------------- MODULE HandoffCustody ---------------------------
(***************************************************************************)
(* What docs/private-release-handoff.md promises of a private handoff:     *)
(* the inbox takes packets into custody and never changes or loses one     *)
(* again, and a delivery is reported only for a packet in custody.         *)
(* Requests, retries, locks, temporary directories and crashes do not show.*)
(***************************************************************************)
CONSTANTS Id, Payload, None

VARIABLES
  custody,   \* custody[i]: the payload kept under identity i, or None
  reported   \* the deliveries reported to the operator, <<identity, payload>>

vars == <<custody, reported>>

Init == custody = [i \in Id |-> None] /\ reported = {}

Keep ==
  /\ custody' \in [Id -> Payload \cup {None}]
  /\ \A i \in Id : custody[i] # None => custody'[i] = custody[i]
  /\ UNCHANGED reported

Report(i) ==
  /\ custody[i] # None
  /\ reported' = reported \cup {<<i, custody[i]>>}
  /\ UNCHANGED custody

Next == Keep \/ \E i \in Id : Report(i)

Spec == Init /\ [][Next]_vars
=============================================================================
