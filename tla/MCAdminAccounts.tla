---- MODULE MCAdminAccounts ----
(* TLC instance of AdminAccounts: two administrators with a second factor, *)
(* one editor without, and a username that is not taken.                   *)
EXTENDS AdminAccounts

CONSTANTS ann, bob, eve, new, p1, p2, r1, r2

MCUser == {ann, bob, eve, new}
MCAdmins == {ann, bob}
MCPassword == {p1, p2}
MCRequest2 == {r1, r2}

Account(status, role, mfa) ==
  [status |-> status, role |-> role, mfa |-> mfa, mustChange |-> FALSE,
   revision |-> 0, password |-> p1]

MCInitialUsers ==
  [u \in MCUser |-> IF u \in MCAdmins THEN Account("active", "admin", TRUE)
                    ELSE IF u = eve THEN Account("active", "editor", FALSE)
                    ELSE Account("absent", "editor", FALSE)]

\* One change at a time, and a restoration that also resets the account.
MCChanges == {[NoChange EXCEPT !.disable = "disable"],
              [NoChange EXCEPT !.disable = "restore"],
              [NoChange EXCEPT !.resetMfa = TRUE],
              [NoChange EXCEPT !.password = p2],
              [disable |-> "restore", resetMfa |-> TRUE, password |-> p2]}

MCAll == Operation
====
