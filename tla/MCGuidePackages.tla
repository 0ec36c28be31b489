-------------------------- MODULE MCGuidePackages --------------------------
(* TLC instance of GuidePackages: an editor and an administrator, and a    *)
(* package that does not exist yet or is one request away from live.       *)
EXTENDS GuidePackages, TLC

CONSTANTS ed, bob, r1, r2, r3, r4

MCActor == {ed, bob}
MCPrivileged == {bob}
MCRequests == {r1, r2, r3, r4}
MCSymmetry == Permutations(MCRequests)

SignedOff == [status |-> "in_review", reviewer |-> ed, recommendation |-> "publish",
              notes |-> TRUE, reviewed |-> TRUE, published |-> FALSE]

MCPackages == {NoPackage, [SignedOff EXCEPT !.status = "ready_to_publish"]}

\* Sign off, promote, send back, take the recommendation back.
MCReviews ==
  {[status |-> Same, recommendation |-> "publish", notes |-> TRUE],
   [status |-> Same, recommendation |-> Same, notes |-> TRUE],
   [status |-> "ready_to_publish", recommendation |-> Same, notes |-> Same],
   [status |-> "in_review", recommendation |-> Same, notes |-> Same],
   [status |-> "draft", recommendation |-> "none", notes |-> Same]}
==========================================================================
