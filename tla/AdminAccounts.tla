---------------------------- MODULE AdminAccounts ----------------------------
(***************************************************************************)
(* Administrator accounts of Ballot Clarity: the user rows of the Postgres *)
(* admin store, the delegated sessions issued from them, and the API       *)
(* requests of server.ts that read and change them.                        *)
(*                                                                         *)
(* A request is one HTTP call.  It yields at every await, so requests      *)
(* interleave between the statements they send to the database.  The       *)
(* store's transactions run at READ COMMITTED; the locks they own follow   *)
(* from the statement they have reached and are released when the          *)
(* transaction ends:                                                       *)
(*   - updateUser: LOCK TABLE admin_users IN SHARE ROW EXCLUSIVE MODE;     *)
(*   - SELECT ... FOR UPDATE: the row;                                     *)
(*   - INSERT, UPDATE: ROW EXCLUSIVE on the table, and the row;            *)
(*   - appendAuditEvent: the audit table (module AuditTrail).              *)
(*                                                                         *)
(* Timestamps: credentials_updated_at is a revision number, which          *)
(* nextAdminCredentialTimestamp increases; the other timestamps of a row   *)
(* are compared only for presence once the revisions agree.                *)
(***************************************************************************)
EXTENDS Naturals, Sequences, FiniteSets

CONSTANTS
  User,          \* usernames
  Password,      \* passwords
  Request,       \* the HTTP requests of a behaviour
  InitialUsers,  \* the table when the behaviour starts
  Operations,    \* bound: the API operations the requests of a run may be
  Patches,       \* bound: the account changes the requests of a run may ask for
  NoPassword,    \* no password in a request body
  NoUser         \* no authenticated actor (login)

VARIABLES
  users,         \* admin_users, committed
  audit,         \* the committed audit events <<event type, user>>, in order
  sessions,      \* every session ever handed to a client
  pc,            \* pc[r]: the next await of request r
  job,           \* job[r]: what request r asks for
  seen           \* seen[r]: the user row r read last, and when

vars == <<users, audit, sessions, pc, job, seen>>

Role == {"admin", "editor"}

Row == [status : {"absent", "active", "disabled"},  \* disabled_at IS (NOT) NULL
        role : Role,
        mfa : BOOLEAN,                  \* mfa_enabled_at IS NOT NULL
        mustChange : BOOLEAN,           \* password_change_required_at IS NOT NULL
        revision : Nat,                 \* credentials_updated_at
        password : Password]

\* The claims of a delegated session.  The last four fields are history: the
\* password its client proved, whether it proved a second factor, the
\* operation that issued it, and how much of the audit trail had happened
\* when the row in it was read.
Session == [user : User, role : Role, mfa : BOOLEAN, mustChange : BOOLEAN,
            revision : Nat,
            proved : Password \cup {NoPassword}, factor : BOOLEAN,
            via : {"login", "password", "enableMfa", "disableMfa"}, since : Nat]

Operation == {"login", "password", "enableMfa", "disableMfa", "update", "create"}

\* The changes updateUser makes; passwords of accounts are in it as well.
Patch == [disable : {"keep", "disable", "restore"}, resetMfa : BOOLEAN,
          password : Password \cup {NoPassword}]

NoChange == [disable |-> "keep", resetMfa |-> FALSE, password |-> NoPassword]

Job == [op : Operation \cup {"none"},
        actor : User \cup {NoUser}, target : User,
        proved : Password \cup {NoPassword}, factor : BOOLEAN,
        patch : Patch, role : Role]

EventType == {"create", "disable", "restore", "password_change", "password_reset",
              "mfa_enable", "mfa_disable", "mfa_reset"}

Point == {"new",        \* not received yet
          "verify",     \* about to check the current password
          "stamp",      \* about to UPDATE last_login_at
          "code",       \* about to check the second factor
          "begin",      \* about to LOCK TABLE admin_users
          "row",        \* about to SELECT ... FOR UPDATE
          "write",      \* about to count administrators, then INSERT or UPDATE
          "audit",      \* about to append audit events
          "commit",     \* about to COMMIT
          "reload",     \* about to read the row for the new session
          "done"}

ASSUME InitialUsersAssumption ==
  /\ InitialUsers \in [User -> Row]
  /\ \E u \in User : InitialUsers[u].status = "active" /\ InitialUsers[u].role = "admin"

ASSUME NullAssumption == NoPassword \notin Password /\ NoUser \notin User

ASSUME BoundsAssumption == Operations \subseteq Operation /\ Patches \subseteq Patch
-----------------------------------------------------------------------------
\* buildAdminSessionResponse: the claims of a session for user u with this row.
SessionFor(u, row, proved, factor, via, since) ==
  [user |-> u, role |-> row.role, mfa |-> row.mfa, mustChange |-> row.mustChange,
   revision |-> row.revision,
   proved |-> proved, factor |-> factor, via |-> via, since |-> since]

TypeOK ==
  /\ users \in [User -> Row]
  /\ audit \in Seq(EventType \X User)
  /\ sessions \in SUBSET Session
  /\ pc \in [Request -> Point]
  /\ job \in [Request -> Job]
  /\ seen \in [Request -> [row : Row, since : Nat]]

Idle == [op |-> "none", actor |-> NoUser, target |-> CHOOSE u \in User : TRUE,
         proved |-> NoPassword, factor |-> FALSE,
         patch |-> NoChange, role |-> "editor"]

NothingSeen == [row |-> InitialUsers[Idle.target], since |-> 0]

Init ==
  /\ users = InitialUsers
  /\ audit = << >>
  /\ sessions = {SessionFor(u, users[u], users[u].password, users[u].mfa, "login", 0) :
                   u \in {v \in User : users[v].status = "active"}}
  /\ pc = [r \in Request |-> "new"]
  /\ job = [r \in Request |-> Idle]
  /\ seen = [r \in Request |-> NothingSeen]
-----------------------------------------------------------------------------
(***************************** The API gate *****************************)

\* The middleware of /api/admin re-reads the user and compares every claim.
Accepts(s) ==
  LET row == users[s.user] IN
  /\ row.status = "active"
  /\ row.revision = s.revision
  /\ row.mfa = s.mfa
  /\ row.mustChange = s.mustChange
  /\ row.role = s.role

\* requirePrivilegedAdminRole
Privileged(s) == s.role = "admin" /\ s.mfa

Goto(r, point) == pc' = [pc EXCEPT ![r] = point]

Read(r) == seen' = [seen EXCEPT ![r] = [row |-> users[job[r].target], since |-> Len(audit)]]

Start(r, j, point) ==
  /\ pc[r] = "new"
  /\ j.op \in Operations
  /\ job' = [job EXCEPT ![r] = j]
  /\ Goto(r, point)
  /\ UNCHANGED <<users, audit, sessions, seen>>

\* POST /auth/login
StartLogin(r) ==
  \E u \in User, p \in Password :
    Start(r, [Idle EXCEPT !.op = "login", !.target = u, !.proved = p], "verify")

\* POST /auth/password: the only mutation open to a temporary password.
StartPasswordChange(r) ==
  \E s \in sessions, old, new \in Password :
    /\ Accepts(s)
    /\ Start(r, [Idle EXCEPT !.op = "password", !.actor = s.user, !.target = s.user,
                             !.proved = old, !.factor = s.factor,
                             !.patch.password = new], "verify")

\* POST /auth/mfa/enable and POST /auth/mfa/disable
StartMfaChange(r) ==
  \E s \in sessions, p \in Password, op \in {"enableMfa", "disableMfa"} :
    /\ Accepts(s) /\ ~s.mustChange
    /\ Start(r, [Idle EXCEPT !.op = op, !.actor = s.user, !.target = s.user,
                             !.proved = p], "row")

\* PATCH /users/:id; at least one of the three changes is asked for.
StartUpdate(r) ==
  \E s \in sessions, u \in User, patch \in Patches \ {NoChange} :
    /\ Accepts(s) /\ ~s.mustChange /\ Privileged(s)
    /\ Start(r, [Idle EXCEPT !.op = "update", !.actor = s.user, !.target = u,
                             !.patch = patch], "begin")

\* POST /users
StartCreate(r) ==
  \E s \in sessions, u \in User, role \in Role, p \in Password :
    /\ Accepts(s) /\ ~s.mustChange /\ Privileged(s)
    /\ Start(r, [Idle EXCEPT !.op = "create", !.actor = s.user, !.target = u,
                             !.patch.password = p, !.role = role], "row")
-----------------------------------------------------------------------------
(******************************** Locks *********************************)

InTransaction == {"row", "write", "audit", "commit"}

\* Mutant: updateUser relies on the row lock alone.
TableOwnersNone == {}

\* SHARE ROW EXCLUSIVE on admin_users: updateUser only.
TableOwners == {r \in Request : job[r].op \in {"update", "password"} /\ pc[r] \in InTransaction}

\* ROW EXCLUSIVE on admin_users.
Writers == {r \in Request : pc[r] \in {"audit", "commit"}}

\* Mutant: SELECT without FOR UPDATE.
RowOwnersSelect(u) == {r \in Request : job[r].target = u /\ pc[r] \in {"audit", "commit"}}

\* The row of user u (for createUser the unique key of its username).
RowOwners(u) ==
  {r \in Request : /\ job[r].target = u
                   /\ \/ pc[r] \in {"audit", "commit"}
                      \/ pc[r] = "write" /\ job[r].op # "create"}

\* The audit table.
AuditOwners == {r \in Request : pc[r] = "commit"}

\* The other requests that keep r from its next statement.
Blockers(r) ==
  LET u == job[r].target IN
  CASE pc[r] = "stamp"  -> (TableOwners \cup RowOwners(u)) \ {r}
    [] pc[r] = "begin"  -> (TableOwners \cup Writers) \ {r}
    [] pc[r] = "row"    -> RowOwners(u) \ {r}
    [] pc[r] = "write"  -> (TableOwners \cup RowOwners(u)) \ {r}
    [] pc[r] = "audit"  -> AuditOwners \ {r}
    [] OTHER            -> {}
-----------------------------------------------------------------------------
(************************** Checking credentials ************************)

\* The request has its answer and is gone.
Finish(r) ==
  /\ Goto(r, "done")
  /\ job' = [job EXCEPT ![r] = Idle]
  /\ seen' = [seen EXCEPT ![r] = NothingSeen]

\* Mutant: an error is swallowed and the request never answered.
RefuseSilently(r) == UNCHANGED vars

\* It ends and nothing it did remains (an error response, ROLLBACK).
Refuse(r) == Finish(r) /\ UNCHANGED <<users, audit, sessions>>

Issue(s) == sessions' = sessions \cup {s}

\* authenticateUser, its SELECT and verifyPassword.
VerifyPassword(r) ==
  LET row == users[job[r].target] IN
  /\ pc[r] = "verify"
  /\ IF row.status = "active" /\ row.password = job[r].proved
     THEN Read(r) /\ Goto(r, "stamp") /\ UNCHANGED <<users, audit, sessions, job>>
     ELSE Refuse(r)

\* authenticateUser, its UPDATE of last_login_at (a statement of its own), and
\* what the handlers do with the row it read.
StampLogin(r) ==
  LET row == seen[r].row IN
  /\ pc[r] = "stamp"
  /\ Blockers(r) = {}
  /\ \/ /\ job[r].op = "password"
        /\ Goto(r, "begin")
        /\ UNCHANGED <<sessions, job, seen>>
     \/ /\ job[r].op = "login" /\ row.mfa
        /\ Goto(r, "code")
        /\ UNCHANGED <<sessions, job, seen>>
     \/ /\ job[r].op = "login" /\ ~row.mfa
        /\ Finish(r)
        /\ Issue(SessionFor(job[r].target, row, job[r].proved, FALSE, "login", seen[r].since))
  /\ UNCHANGED <<users, audit>>

\* Mutant: the session is built from the row read to check the code.
VerifyCodeReread(r) ==
  /\ pc[r] = "code"
  /\ \/ /\ users[job[r].target].mfa
        /\ Finish(r)
        /\ Issue(SessionFor(job[r].target, users[job[r].target], job[r].proved, TRUE, "login",
                            Len(audit)))
        /\ UNCHANGED <<users, audit>>
     \/ Refuse(r)

\* verifyUserMfaCode reads the user again; the session is still built from the
\* row read first.
VerifyCode(r) ==
  /\ pc[r] = "code"
  /\ \/ /\ users[job[r].target].mfa
        /\ Finish(r)
        /\ Issue(SessionFor(job[r].target, seen[r].row, job[r].proved, TRUE, "login", seen[r].since))
        /\ UNCHANGED <<users, audit>>
     \/ Refuse(r)
-----------------------------------------------------------------------------
(************************ The store's transactions **********************)

\* LOCK TABLE admin_users IN SHARE ROW EXCLUSIVE MODE
LockUsersTable(r) ==
  /\ pc[r] = "begin"
  /\ Blockers(r) = {}
  /\ Goto(r, "row")
  /\ UNCHANGED <<users, audit, sessions, job, seen>>

\* What the row read FOR UPDATE must satisfy.
RowAllows(j, row) ==
  \/ j.op = "update" /\ row.status # "absent" /\ j.actor # j.target
  \/ j.op = "password" /\ row.status # "absent"
  \/ j.op = "enableMfa" /\ row.status = "active" /\ ~row.mfa /\ row.password = j.proved
  \/ j.op = "disableMfa" /\ row.status = "active" /\ row.mfa /\ row.password = j.proved
  \/ j.op = "create" /\ row.status = "absent"

\* SELECT ... FOR UPDATE, and the checks on the row.  The verification code of
\* the MFA operations may also be wrong.
LockUserRow(r) ==
  /\ pc[r] = "row"
  /\ Blockers(r) = {}
  /\ \/ /\ RowAllows(job[r], users[job[r].target])
        /\ Read(r)
        /\ Goto(r, "write")
        /\ UNCHANGED <<users, audit, sessions, job>>
     \/ /\ job[r].op \in {"enableMfa", "disableMfa"} \/ ~RowAllows(job[r], users[job[r].target])
        /\ Refuse(r)

\* nextDisabledAt !== current.disabled_at
Disables(j, row) == j.op = "update" /\ j.patch.disable = "disable" /\ row.status = "active"
Restores(j, row) == j.op = "update" /\ j.patch.disable = "restore" /\ row.status = "disabled"

\* shouldResetMfa
ResetsMfa(j, row) == j.op = "update" /\ j.patch.resetMfa /\ row.mfa

SetsPassword(j) == j.op \in {"update", "password"} /\ j.patch.password # NoPassword

\* Mutant: disabling and restoring keep the revision.
RotatesSecretsOnly(j, row) ==
  SetsPassword(j) \/ ResetsMfa(j, row) \/ j.op \in {"enableMfa", "disableMfa"}

\* shouldRotateCredentials; enableMfa and disableMfa always rotate.
Rotates(j, row) ==
  \/ SetsPassword(j) \/ ResetsMfa(j, row) \/ Disables(j, row) \/ Restores(j, row)
  \/ j.op \in {"enableMfa", "disableMfa"}

NextRevision(row) == row.revision + 1

ActiveAdmins(table) ==
  {u \in User : table[u].status = "active" /\ table[u].role = "admin"}

\* The count of the other active administrators, when one is to be disabled,
\* then INSERT or UPDATE.
WriteUser(r) ==
  LET j == job[r] IN
  /\ pc[r] = "write"
  /\ Blockers(r) = {}
  /\ IF \/ /\ Disables(j, seen[r].row) /\ seen[r].row.role = "admin"
           /\ ActiveAdmins(users) \ {j.target} = {}
        \/ j.op = "create" /\ users[j.target].status # "absent"
     THEN Refuse(r)
     ELSE Goto(r, "audit") /\ UNCHANGED <<users, audit, sessions, job, seen>>

\* The row written for request j by a transaction that read this row.
NextRow(j, row) ==
  IF j.op = "create"
  THEN [status |-> "active", role |-> j.role, mfa |-> FALSE, mustChange |-> TRUE,
        revision |-> NextRevision(row), password |-> j.patch.password]
  ELSE [row EXCEPT
          !.status = CASE Disables(j, row) -> "disabled"
                       [] Restores(j, row) -> "active"
                       [] OTHER            -> @,
          !.mfa = CASE j.op = "enableMfa" -> TRUE
                    [] j.op = "disableMfa" \/ ResetsMfa(j, row) -> FALSE
                    [] OTHER              -> @,
          !.mustChange = IF SetsPassword(j) THEN j.op # "password" ELSE @,
          !.revision = IF Rotates(j, row) THEN NextRevision(row) ELSE @,
          !.password = IF SetsPassword(j) THEN j.patch.password ELSE @]

\* Mutant: a combined update records its first change only.
EventsFirst(j, row) ==
  LET event == CASE j.op = "create"      -> "create"
                 [] j.op = "enableMfa"   -> "mfa_enable"
                 [] j.op = "disableMfa"  -> "mfa_disable"
                 [] j.op = "password"    -> "password_change"
                 [] Disables(j, row)     -> "disable"
                 [] Restores(j, row)     -> "restore"
                 [] j.patch.password # NoPassword -> "password_reset"
                 [] OTHER                -> "mfa_reset"
  IN << <<event, j.target>> >>

\* The audit events of the transaction, in the order the store appends them.
Events(j, row) ==
  LET When(condition, event) == IF condition THEN << <<event, j.target>> >> ELSE << >> IN
  CASE j.op = "create"     -> << <<"create", j.target>> >>
    [] j.op = "enableMfa"  -> << <<"mfa_enable", j.target>> >>
    [] j.op = "disableMfa" -> << <<"mfa_disable", j.target>> >>
    [] OTHER -> When(Disables(j, row), "disable") \o When(Restores(j, row), "restore")
                \o When(SetsPassword(j) /\ j.op = "password", "password_change")
                \o When(SetsPassword(j) /\ j.op = "update", "password_reset")
                \o When(ResetsMfa(j, row), "mfa_reset")

\* appendAuditEvent: the audit lock is owned from here to the end.
AppendAudit(r) ==
  /\ pc[r] = "audit"
  /\ Blockers(r) = {}
  /\ Goto(r, "commit")
  /\ UNCHANGED <<users, audit, sessions, job, seen>>

\* COMMIT.  The MFA operations answer with a session built from the row they
\* wrote; updateUser goes on to read the users again.
CommitUser(r) ==
  LET j == job[r]
      row == NextRow(j, seen[r].row) IN
  /\ pc[r] = "commit"
  /\ users' = [users EXCEPT ![j.target] = row]
  /\ audit' = audit \o Events(j, seen[r].row)
  /\ IF j.op \in {"enableMfa", "disableMfa"}
     THEN Issue(SessionFor(j.target, row, j.proved, row.mfa, j.op, Len(audit')))
     ELSE UNCHANGED sessions
  /\ IF j.op = "password"
     THEN Goto(r, "reload") /\ UNCHANGED <<job, seen>>
     ELSE Finish(r)

\* listUsers after the transaction: the new session takes its claims from the
\* row as it is now.
Reload(r) ==
  LET j == job[r] IN
  /\ pc[r] = "reload"
  /\ Issue(SessionFor(j.target, users[j.target], j.patch.password, j.factor, "password", Len(audit)))
  /\ Finish(r)
  /\ UNCHANGED <<users, audit>>
-----------------------------------------------------------------------------
(******************************* Failures *******************************)

\* A lost connection, a stopped server: an open transaction is rolled back.
Abort(r) == pc[r] \notin {"new", "done"} /\ Refuse(r)

\* Postgres finds two transactions that wait for each other and ends one.
BreakDeadlock(r) ==
  /\ \E q \in Blockers(r) : r \in Blockers(q)
  /\ Refuse(r)

Submit(r) ==
  \/ StartLogin(r) \/ StartPasswordChange(r) \/ StartMfaChange(r)
  \/ StartUpdate(r) \/ StartCreate(r)

Proceed(r) ==
  \/ VerifyPassword(r) \/ StampLogin(r) \/ VerifyCode(r)
  \/ LockUsersTable(r) \/ LockUserRow(r) \/ WriteUser(r)
  \/ AppendAudit(r) \/ CommitUser(r) \/ Reload(r)

Next == \E r \in Request : Submit(r) \/ Proceed(r) \/ Abort(r) \/ BreakDeadlock(r)

Spec == Init /\ [][Next]_vars

\* The event loop and the database go on with every request that can go on.
Fairness == \A r \in Request : WF_vars(Proceed(r)) /\ WF_vars(BreakDeadlock(r))

FairSpec == Spec /\ Fairness
-----------------------------------------------------------------------------
(******************************** Properties ****************************)

(***************************************************************************)
(* Whatever administrators disable each other at the same time, one of     *)
(* them stays active ("Cannot disable the last active admin user.").       *)
(***************************************************************************)
LastActiveAdmin == ActiveAdmins(users) # {}

(***************************************************************************)
(* A transaction never writes a row computed from an outdated read: from   *)
(* its SELECT ... FOR UPDATE to its end the row it read is the row.        *)
(***************************************************************************)
NoLostUpdate ==
  \A r \in Request :
    r \in RowOwners(job[r].target) => seen[r].row = users[job[r].target]

(***************************************************************************)
(* A session is refused as soon as a change of the account's password,     *)
(* second factor or enabled state commits after the read it was built      *)
(* from, also when the account is restored later.                          *)
(***************************************************************************)
SessionsSawEveryChange ==
  \A s \in sessions :
    Accepts(s) => \A n \in (s.since + 1)..Len(audit) : audit[n][2] # s.user

(***************************************************************************)
(* A session of a login or of an MFA operation that the gate accepts was   *)
(* given to a client that proved the present password and, where the       *)
(* account has a second factor, that factor.                               *)
(***************************************************************************)
Proved(s) == s.proved = users[s.user].password /\ (s.mfa => s.factor)

SessionsAreProved == \A s \in sessions : Accepts(s) /\ s.via # "password" => Proved(s)

\* The latest of these events about user u.
LastEvent(u, events) ==
  LET at == {n \in DOMAIN audit : audit[n][2] = u /\ audit[n][1] \in events} IN
  IF at = {} THEN "none" ELSE audit[CHOOSE n \in at : \A m \in at : m <= n][1]

(***************************************************************************)
(* The audit trail explains the accounts: replaying the events of a user   *)
(* in order gives its enabled state, its second factor and whether its     *)
(* password is temporary.  Nothing changes without its event, and events   *)
(* are in the order in which the changes took effect.                      *)
(***************************************************************************)
AuditExplainsAccounts ==
  \A u \in User :
    LET Replayed(events, value, initial) ==
          LET event == LastEvent(u, DOMAIN events) IN
          value = IF event = "none" THEN initial ELSE events[event]
    IN /\ Replayed([create |-> "active", restore |-> "active", disable |-> "disabled"],
                   users[u].status, InitialUsers[u].status)
       /\ Replayed([create |-> FALSE, mfa_enable |-> TRUE, mfa_disable |-> FALSE,
                    mfa_reset |-> FALSE], users[u].mfa, InitialUsers[u].mfa)
       /\ Replayed([create |-> TRUE, password_reset |-> TRUE, password_change |-> FALSE],
                   users[u].mustChange, InitialUsers[u].mustChange)

(***************************************************************************)
(* Every request ends, also when an MFA operation and updateUser lock each *)
(* other out of the same row and table.                                    *)
(***************************************************************************)
EveryRequestReturns == \A r \in Request : pc[r] # "new" ~> pc[r] = "done"
=============================================================================
