----------------------- MODULE MCContentPublication -----------------------
(* TLC instance of ContentPublication: an editor, an administrator without *)
(* and one with a second factor, and a record that starts as a draft.      *)
EXTENDS ContentPublication, TLC

CONSTANTS ed, ann, bob, s1, s2, r1, r2, r3, r4

MCActor == {ed, ann, bob}
MCAdmins == {ann, bob}
MCVerified == {ed, bob}
MCText == {s1, s2}
MCRequests == {r1, r2, r3}
MCFour == {r1, r2, r3, r4}
MCSymmetry == Permutations(MCFour)

MCDraft == [status |-> "draft", published |-> FALSE, blocker |-> FALSE, summary |-> s1,
            approvedBy |-> Nobody, approvedAt |-> 0, note |-> FALSE]

\* What editors and administrators send: edits, publication, retraction.
MCPatches ==
  {[NoChange EXCEPT !.summary = s2],
   [NoChange EXCEPT !.blocker = TRUE],
   [NoChange EXCEPT !.status = "in-review"],
   [NoChange EXCEPT !.published = TRUE, !.note = TRUE],
   [NoChange EXCEPT !.published = TRUE, !.note = TRUE, !.blocker = FALSE, !.status = "published"],
   [NoChange EXCEPT !.published = FALSE]}
==========================================================================
