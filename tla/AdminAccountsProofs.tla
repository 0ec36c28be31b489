------------------------ MODULE AdminAccountsProofs ------------------------
(***************************************************************************)
(* For every table of accounts and every set of requests: the types, the   *)
(* freshness of what a transaction writes, the last active administrator,  *)
(* the sessions the gate accepts, and the accounts as the trail tells them.*)
(***************************************************************************)
EXTENDS AdminAccounts, SequenceTheorems, TLAPS

-----------------------------------------------------------------------------
(* Types *)

LEMMA IdleType == Idle \in Job /\ NothingSeen \in [row : Row, since : Nat]
<1>1. PICK u \in User : InitialUsers[u] \in Row
  BY InitialUsersAssumption
<1>2. (CHOOSE v \in User : TRUE) \in User
  BY <1>1
<1>3. NoChange \in Patch
  BY DEF NoChange, Patch
<1> QED BY <1>2, <1>3, InitialUsersAssumption DEF Idle, NothingSeen, Job, Role

LEMMA NextRowType ==
  ASSUME NEW j \in Job, NEW row \in Row, j.op # "create" \/ j.patch.password \in Password
  PROVE  NextRow(j, row) \in Row
<1>1. j.op # "none" \/ j.op = "none"
  OBVIOUS
<1>2. j.patch \in Patch /\ j.role \in Role
  BY DEF Job
<1>3. row.revision + 1 \in Nat
  BY DEF Row
<1>4. SetsPassword(j) => j.patch.password \in Password
  BY <1>2 DEF SetsPassword, Patch
<1> QED BY <1>2, <1>3, <1>4 DEF NextRow, NextRevision, Row

\* A transaction records events of the account it changes, and of no other.
LEMMA EventsAbout ==
  ASSUME NEW j \in Job, NEW row \in Row
  PROVE  Events(j, row) \in Seq(EventType \X {j.target})
<1>2. \A e \in EventType : << <<e, j.target>> >> \in Seq(EventType \X {j.target})
  OBVIOUS
<1>3. << >> \in Seq(EventType \X {j.target})
  OBVIOUS
<1>4. \A s, t \in Seq(EventType \X {j.target}) : s \o t \in Seq(EventType \X {j.target})
  OBVIOUS
<1> DEFINE When(condition, event) == IF condition THEN << <<event, j.target>> >> ELSE << >>
<1>5. /\ When(Disables(j, row), "disable") \in Seq(EventType \X {j.target})
      /\ When(Restores(j, row), "restore") \in Seq(EventType \X {j.target})
      /\ When(SetsPassword(j) /\ j.op = "password", "password_change") \in Seq(EventType \X {j.target})
      /\ When(SetsPassword(j) /\ j.op = "update", "password_reset") \in Seq(EventType \X {j.target})
      /\ When(ResetsMfa(j, row), "mfa_reset") \in Seq(EventType \X {j.target})
  BY <1>2, <1>3 DEF EventType
<1>6. When(Disables(j, row), "disable") \o When(Restores(j, row), "restore")
        \o When(SetsPassword(j) /\ j.op = "password", "password_change")
        \o When(SetsPassword(j) /\ j.op = "update", "password_reset")
        \o When(ResetsMfa(j, row), "mfa_reset") \in Seq(EventType \X {j.target})
  <2> HIDE DEF When
  <2> QED BY <1>4, <1>5
<1>7. /\ << <<"create", j.target>> >> \in Seq(EventType \X {j.target})
      /\ << <<"mfa_enable", j.target>> >> \in Seq(EventType \X {j.target})
      /\ << <<"mfa_disable", j.target>> >> \in Seq(EventType \X {j.target})
  BY <1>2 DEF EventType
<1> QED BY <1>6, <1>7 DEF Events

LEMMA EventsType ==
  ASSUME NEW j \in Job, NEW row \in Row
  PROVE  Events(j, row) \in Seq(EventType \X User)
<1>1. EventType \X {j.target} \subseteq EventType \X User
  BY DEF Job
<1> QED BY <1>1, EventsAbout, SeqMonotonic

LEMMA InitTypeOK == Init => TypeOK
<1> SUFFICES ASSUME Init PROVE TypeOK
  OBVIOUS
<1>1. sessions \in SUBSET Session
  BY InitialUsersAssumption DEF Init, SessionFor, Session, Row
<1>2. audit \in Seq(EventType \X User)
  BY DEF Init
<1> QED BY <1>1, <1>2, InitialUsersAssumption, IdleType DEF Init, TypeOK, Point

LEMMA StartType ==
  ASSUME TypeOK, NEW r \in Request, NEW j \in Job, NEW point \in Point, Start(r, j, point)
  PROVE  TypeOK'
BY DEF TypeOK, Start, Goto

LEMMA FinishType ==
  ASSUME TypeOK, NEW r \in Request, Finish(r)
  PROVE  /\ pc' \in [Request -> Point]
         /\ job' \in [Request -> Job]
         /\ seen' \in [Request -> [row : Row, since : Nat]]
BY IdleType DEF TypeOK, Finish, Goto, Point

LEMMA RefuseType ==
  ASSUME TypeOK, NEW r \in Request, Refuse(r)
  PROVE  TypeOK'
BY FinishType DEF TypeOK, Refuse

LEMMA ReadType ==
  ASSUME TypeOK, NEW r \in Request, Read(r)
  PROVE  seen' \in [Request -> [row : Row, since : Nat]]
<1>1. users[job[r].target] \in Row /\ Len(audit) \in Nat
  BY DEF TypeOK, Job
<1>2. [row |-> users[job[r].target], since |-> Len(audit)] \in [row : Row, since : Nat]
  BY <1>1
<1> QED BY <1>2 DEF Read, TypeOK

LEMMA SessionType ==
  ASSUME NEW u \in User, NEW row \in Row, NEW proved \in Password \cup {NoPassword},
         NEW factor \in BOOLEAN, NEW via \in {"login", "password", "enableMfa", "disableMfa"},
         NEW since \in Nat
  PROVE  SessionFor(u, row, proved, factor, via, since) \in Session
BY DEF SessionFor, Session, Row

\* A user creation carries a password.
CreatesNamed ==
  \A r \in Request : job[r].op = "create" => job[r].patch.password \in Password

LEMMA SubmitType ==
  ASSUME TypeOK, NEW r \in Request, Submit(r)
  PROVE  TypeOK' /\ (CreatesNamed => CreatesNamed')
<1> USE IdleType
<1>0. \A s \in sessions : s.user \in User /\ s.factor \in BOOLEAN
  BY DEF TypeOK, Session
<1>1. ASSUME StartLogin(r) PROVE TypeOK' /\ (CreatesNamed => CreatesNamed')
  <2>1. PICK u \in User, p \in Password :
          Start(r, [Idle EXCEPT !.op = "login", !.target = u, !.proved = p], "verify")
    BY <1>1 DEF StartLogin
  <2>2. [Idle EXCEPT !.op = "login", !.target = u, !.proved = p] \in Job
    BY DEF Job, Operation
  <2>3. TypeOK'
    BY <2>1, <2>2, StartType DEF Point
  <2> QED BY <2>1, <2>3 DEF Start, CreatesNamed, TypeOK, Idle
<1>2. ASSUME StartPasswordChange(r) PROVE TypeOK' /\ (CreatesNamed => CreatesNamed')
  <2>1. PICK s \in sessions, old \in Password, new \in Password :
          Start(r, [Idle EXCEPT !.op = "password", !.actor = s.user, !.target = s.user,
                                !.proved = old, !.factor = s.factor,
                                !.patch.password = new], "verify")
    BY <1>2 DEF StartPasswordChange
  <2>2. [Idle EXCEPT !.op = "password", !.actor = s.user, !.target = s.user,
                     !.proved = old, !.factor = s.factor, !.patch.password = new] \in Job
    BY <1>0 DEF Job, Operation, Patch
  <2>3. TypeOK'
    BY <2>1, <2>2, StartType DEF Point
  <2> QED BY <2>1, <2>3 DEF Start, CreatesNamed, TypeOK, Idle
<1>3. ASSUME StartMfaChange(r) PROVE TypeOK' /\ (CreatesNamed => CreatesNamed')
  <2>1. PICK s \in sessions, p \in Password, op \in {"enableMfa", "disableMfa"} :
          Start(r, [Idle EXCEPT !.op = op, !.actor = s.user, !.target = s.user,
                                !.proved = p], "row")
    BY <1>3 DEF StartMfaChange
  <2>2. [Idle EXCEPT !.op = op, !.actor = s.user, !.target = s.user, !.proved = p] \in Job
    BY <1>0 DEF Job, Operation
  <2>3. TypeOK'
    BY <2>1, <2>2, StartType DEF Point
  <2> QED BY <2>1, <2>3 DEF Start, CreatesNamed, TypeOK, Idle
<1>4. ASSUME StartUpdate(r) PROVE TypeOK' /\ (CreatesNamed => CreatesNamed')
  <2>1. PICK s \in sessions, u \in User, patch \in Patches :
          Start(r, [Idle EXCEPT !.op = "update", !.actor = s.user, !.target = u,
                                !.patch = patch], "begin")
    BY <1>4 DEF StartUpdate
  <2>2. [Idle EXCEPT !.op = "update", !.actor = s.user, !.target = u,
                     !.patch = patch] \in Job
    BY <1>0, BoundsAssumption DEF Job, Operation
  <2>3. TypeOK'
    BY <2>1, <2>2, StartType DEF Point
  <2> QED BY <2>1, <2>3 DEF Start, CreatesNamed, TypeOK, Idle
<1>5. ASSUME StartCreate(r) PROVE TypeOK' /\ (CreatesNamed => CreatesNamed')
  <2>1. PICK s \in sessions, u \in User, role \in Role, p \in Password :
          Start(r, [Idle EXCEPT !.op = "create", !.actor = s.user, !.target = u,
                                !.patch.password = p, !.role = role], "row")
    BY <1>5 DEF StartCreate
  <2> DEFINE j == [Idle EXCEPT !.op = "create", !.actor = s.user, !.target = u,
                               !.patch.password = p, !.role = role]
  <2>2. j \in Job /\ j.patch.password = p
    BY <1>0 DEF Job, Operation, Patch
  <2>3. TypeOK'
    BY <2>1, <2>2, StartType DEF Point
  <2>4. job' = [job EXCEPT ![r] = j]
    BY <2>1 DEF Start
  <2> HIDE DEF j
  <2> QED BY <2>2, <2>3, <2>4 DEF CreatesNamed, TypeOK
<1> QED BY <1>1, <1>2, <1>3, <1>4, <1>5 DEF Submit

LEMMA ProceedType ==
  ASSUME TypeOK, CreatesNamed, NEW r \in Request, Proceed(r)
  PROVE  TypeOK'
<1> DEFINE j == job[r]
           row == seen[r].row
<1>0. /\ j \in Job /\ j.target \in User /\ j.proved \in Password \cup {NoPassword}
      /\ j.factor \in BOOLEAN /\ j.patch.password \in Password \cup {NoPassword}
      /\ row \in Row /\ seen[r].since \in Nat /\ users[j.target] \in Row
      /\ row.mfa \in BOOLEAN /\ Len(audit) \in Nat
  BY DEF TypeOK, Job, Patch, Row
<1> HIDE DEF j, row
<1>1. CASE VerifyPassword(r)
  <2>1. CASE Refuse(r)
    BY <2>1, RefuseType
  <2>2. CASE ~Refuse(r)
    BY <1>1, <2>2, ReadType DEF VerifyPassword, Goto, TypeOK, Point
  <2> QED BY <2>1, <2>2
<1>2. CASE StampLogin(r)
  <2>1. CASE Finish(r) /\ Issue(SessionFor(j.target, row, j.proved, FALSE, "login", seen[r].since))
    <3>1. SessionFor(j.target, row, j.proved, FALSE, "login", seen[r].since) \in Session
      BY <1>0, SessionType
    <3> QED BY <1>2, <2>1, <3>1, FinishType DEF StampLogin, Issue, TypeOK
  <2>2. CASE \E p \in {"begin", "code"} : Goto(r, p) /\ UNCHANGED <<sessions, job, seen>>
    BY <1>2, <2>2 DEF StampLogin, Goto, TypeOK, Point
  <2> QED BY <1>2, <2>1, <2>2 DEF StampLogin, j, row
<1>3. CASE VerifyCode(r)
  <2>1. CASE Refuse(r)
    BY <2>1, RefuseType
  <2>2. CASE ~Refuse(r)
    <3>1. SessionFor(j.target, row, j.proved, TRUE, "login", seen[r].since) \in Session
      BY <1>0, SessionType
    <3> QED BY <1>3, <2>2, <3>1, FinishType DEF VerifyCode, Issue, TypeOK, j, row
  <2> QED BY <2>1, <2>2
<1>4. CASE LockUsersTable(r)
  BY <1>4 DEF LockUsersTable, Goto, TypeOK, Point
<1>5. CASE LockUserRow(r)
  <2>1. CASE Refuse(r)
    BY <2>1, RefuseType
  <2>2. CASE ~Refuse(r)
    BY <1>5, <2>2, ReadType DEF LockUserRow, Goto, TypeOK, Point
  <2> QED BY <2>1, <2>2
<1>6. CASE WriteUser(r)
  <2>1. CASE Refuse(r)
    BY <2>1, RefuseType
  <2>2. CASE ~Refuse(r)
    BY <1>6, <2>2 DEF WriteUser, Goto, TypeOK, Point
  <2> QED BY <2>1, <2>2
<1>7. CASE AppendAudit(r)
  BY <1>7 DEF AppendAudit, Goto, TypeOK, Point
<1>8. CASE CommitUser(r)
  <2>1. NextRow(j, row) \in Row
    <3>1. j.op # "create" \/ j.patch.password \in Password
      BY DEF CreatesNamed, j
    <3> QED BY <1>0, <3>1, NextRowType
  <2>2. users' \in [User -> Row]
    BY <1>0, <1>8, <2>1 DEF CommitUser, TypeOK, j, row
  <2>3. audit' \in Seq(EventType \X User)
    <3>1. Events(j, row) \in Seq(EventType \X User)
      BY <1>0, EventsType
    <3>2. audit' = audit \o Events(j, row)
      BY <1>8 DEF CommitUser, j, row
    <3> QED BY <3>1, <3>2 DEF TypeOK
  <2>4. sessions' \in SUBSET Session
    <3>1. CASE j.op \in {"enableMfa", "disableMfa"}
      <4>1. NextRow(j, row).mfa \in BOOLEAN /\ Len(audit') \in Nat
        BY <2>1, <2>3 DEF Row
      <4>2. SessionFor(j.target, NextRow(j, row), j.proved, NextRow(j, row).mfa,
                       j.op, Len(audit')) \in Session
        BY <1>0, <2>1, <3>1, <4>1, SessionType
      <4> QED BY <1>8, <3>1, <4>2 DEF CommitUser, Issue, TypeOK, j, row
    <3>2. CASE j.op \notin {"enableMfa", "disableMfa"}
      BY <1>8, <3>2 DEF CommitUser, TypeOK, j
    <3> QED BY <3>1, <3>2
  <2>5. /\ pc' \in [Request -> Point]
        /\ job' \in [Request -> Job]
        /\ seen' \in [Request -> [row : Row, since : Nat]]
    <3>1. CASE Finish(r)
      BY <3>1, FinishType
    <3>2. CASE ~Finish(r)
      BY <1>8, <3>2 DEF CommitUser, Goto, TypeOK, Point
    <3> QED BY <3>1, <3>2
  <2> QED BY <2>2, <2>3, <2>4, <2>5 DEF TypeOK
<1>9. CASE Reload(r)
  <2>1. SessionFor(j.target, users[j.target], j.patch.password, j.factor, "password",
                   Len(audit)) \in Session
    BY <1>0, SessionType
  <2> QED BY <1>9, <2>1, FinishType DEF Reload, Issue, TypeOK, j
<1> QED BY <1>1, <1>2, <1>3, <1>4, <1>5, <1>6, <1>7, <1>8, <1>9 DEF Proceed

LEMMA NextType == TypeOK /\ CreatesNamed /\ [Next]_vars => TypeOK' /\ CreatesNamed'
<1> SUFFICES ASSUME TypeOK, CreatesNamed, [Next]_vars PROVE TypeOK' /\ CreatesNamed'
  OBVIOUS
<1>1. CASE UNCHANGED vars
  BY <1>1 DEF vars, TypeOK, CreatesNamed
<1>2. ASSUME NEW r \in Request, Submit(r) PROVE TypeOK' /\ CreatesNamed'
  BY <1>2, SubmitType
<1>3. ASSUME NEW r \in Request, Refuse(r) PROVE TypeOK' /\ CreatesNamed'
  <2>1. job' = [job EXCEPT ![r] = Idle]
    BY <1>3 DEF Refuse, Finish
  <2> QED BY <1>3, <2>1, RefuseType DEF CreatesNamed, TypeOK, Idle
<1>4. ASSUME NEW r \in Request, Proceed(r) PROVE TypeOK' /\ CreatesNamed'
  <2>1. job' = job \/ job' = [job EXCEPT ![r] = Idle]
    BY <1>4 DEF Proceed, VerifyPassword, StampLogin, VerifyCode, LockUsersTable, LockUserRow,
       WriteUser, AppendAudit, CommitUser, Reload, Refuse, Finish
  <2>2. CreatesNamed'
    <3>1. CASE job' = job
      BY <3>1 DEF CreatesNamed
    <3>2. CASE job' = [job EXCEPT ![r] = Idle]
      <4>1. \A q \in Request : job'[q].op = "create" => q # r /\ job'[q] = job[q]
        BY <3>2 DEF TypeOK, Idle
      <4> QED BY <4>1 DEF CreatesNamed
    <3> QED BY <2>1, <3>1, <3>2
  <2> QED BY <1>4, <2>2, ProceedType
<1> QED BY <1>1, <1>2, <1>3, <1>4 DEF Next, Abort, BreakDeadlock

\* Type correctness, for every table of accounts and set of requests.
THEOREM AccountsTyped == Spec => []TypeOK
<1>1. Init => TypeOK /\ CreatesNamed
  BY InitTypeOK DEF Init, CreatesNamed, Idle
<1> QED BY <1>1, NextType, PTL DEF Spec
-----------------------------------------------------------------------------
(***************************************************************************)
(* The inductive invariant.  An updateUser that owns the table lock        *)
(* excludes every other transaction that has written a row, and two        *)
(* transactions never own the same row.  So what a transaction read stays  *)
(* true until it commits: its row (NoLostUpdate), and the other active     *)
(* administrator it counted (AnotherAdmin).                                *)
(***************************************************************************)
TableMutex == \A q \in TableOwners : \A r \in TableOwners \cup Writers : q = r

RowMutex == \A u \in User : \A q, r \in RowOwners(u) : q = r

\* A username that is not taken has its initial row, and creating it starts
\* from there: SELECT ... FOR UPDATE locks no row that does not exist.
AbsentIsInitial ==
  /\ \A u \in User : users[u].status = "absent" => users[u] = InitialUsers[u]
  /\ \A r \in Request :
       pc[r] = "write" /\ job[r].op = "create" => seen[r].row = InitialUsers[job[r].target]

ReadAllowed ==
  \A r \in Request : pc[r] \in {"write", "audit", "commit"} => RowAllows(job[r], seen[r].row)

AnotherAdmin ==
  \A r \in Request :
    /\ pc[r] \in {"audit", "commit"}
    /\ Disables(job[r], seen[r].row)
    /\ seen[r].row.role = "admin"
    => ActiveAdmins(users) \ {job[r].target} # {}

Locked == TableMutex /\ RowMutex
Fresh == NoLostUpdate /\ AbsentIsInitial /\ ReadAllowed
IInv == TypeOK /\ CreatesNamed /\ Locked /\ Fresh /\ AnotherAdmin /\ LastActiveAdmin

LEMMA InitIInv == Init => IInv
<1> SUFFICES ASSUME Init PROVE IInv
  OBVIOUS
<1>1. TypeOK
  BY InitTypeOK
<1>2. \A r \in Request : pc[r] = "new" /\ job[r].op = "none"
  BY DEF Init, Idle
<1>3. CreatesNamed
  BY <1>2 DEF CreatesNamed
<1>4. TableOwners = {} /\ Writers = {} /\ \A u \in User : RowOwners(u) = {}
  BY <1>2 DEF TableOwners, Writers, RowOwners, InTransaction
<1>5. Locked /\ NoLostUpdate
  BY <1>1, <1>4 DEF Locked, TableMutex, RowMutex, NoLostUpdate, TypeOK, Job
<1>6. AbsentIsInitial /\ ReadAllowed /\ AnotherAdmin
  BY <1>2 DEF Init, AbsentIsInitial, ReadAllowed, AnotherAdmin
<1>7. LastActiveAdmin
  BY InitialUsersAssumption DEF Init, LastActiveAdmin, ActiveAdmins
<1> QED BY <1>1, <1>3, <1>5, <1>6, <1>7 DEF IInv, Fresh

\* A step of request r leaves the other requests where they are.
Alone(r) ==
  \A q \in Request \ {r} : pc'[q] = pc[q] /\ job'[q] = job[q] /\ seen'[q] = seen[q]

\* What the proofs below conclude of a step, besides the types.
Kept == Locked' /\ Fresh' /\ AnotherAdmin' /\ LastActiveAdmin'

\* A request that is not in its transaction, or only about to read its row
\* without the table lock, disturbs nothing.
LEMMA Outside ==
  ASSUME IInv, NEW r \in Request, Alone(r), users' = users,
         pc'[r] \notin {"write", "audit", "commit"},
         pc'[r] = "row" => job'[r].op \notin {"update", "password"}
  PROVE  Kept
<1>1. /\ TableOwners' \subseteq TableOwners /\ r \notin TableOwners'
      /\ Writers' \subseteq Writers /\ r \notin Writers'
  BY DEF TableOwners, Writers, InTransaction, Alone
<1>2. \A u \in User : RowOwners(u)' \subseteq RowOwners(u) /\ r \notin RowOwners(u)'
  BY DEF RowOwners, Alone
<1>3. Locked'
  BY <1>1, <1>2 DEF IInv, Locked, TableMutex, RowMutex
<1>4. NoLostUpdate'
  <2> SUFFICES ASSUME NEW q \in Request, (q \in RowOwners(job[q].target))'
               PROVE  (seen[q].row = users[job[q].target])'
    BY DEF NoLostUpdate
  <2>1. q # r
    BY DEF RowOwners
  <2>2. q \in RowOwners(job[q].target)
    BY <2>1 DEF RowOwners, Alone
  <2> QED BY <2>1, <2>2 DEF IInv, Fresh, NoLostUpdate, Alone
<1>5. AbsentIsInitial'
  BY DEF IInv, Fresh, AbsentIsInitial, Alone
<1>6. ReadAllowed'
  <2> SUFFICES ASSUME NEW q \in Request, pc'[q] \in {"write", "audit", "commit"}
               PROVE  RowAllows(job'[q], seen'[q].row)
    BY DEF ReadAllowed
  <2>1. pc[q] = pc'[q] /\ job[q] = job'[q] /\ seen[q] = seen'[q]
    BY DEF Alone
  <2> QED BY <2>1 DEF IInv, Fresh, ReadAllowed
<1>7. AnotherAdmin'
  <2> SUFFICES ASSUME NEW q \in Request, pc'[q] \in {"audit", "commit"},
                      Disables(job'[q], seen'[q].row), seen'[q].row.role = "admin"
               PROVE  ActiveAdmins(users) \ {job'[q].target} # {}
    BY DEF AnotherAdmin, ActiveAdmins
  <2>1. pc[q] = pc'[q] /\ job[q] = job'[q] /\ seen[q] = seen'[q]
    BY DEF Alone
  <2> QED BY <2>1 DEF IInv, AnotherAdmin
<1>8. LastActiveAdmin'
  BY DEF IInv, LastActiveAdmin, ActiveAdmins
<1> QED BY <1>3, <1>4, <1>5, <1>6, <1>7, <1>8 DEF Kept, Fresh

LEMMA RefuseKeeps ==
  ASSUME IInv, NEW r \in Request, Refuse(r)
  PROVE  Kept
<1>1. Alone(r) /\ users' = users /\ pc'[r] = "done"
  BY DEF Refuse, Finish, Goto, Alone, IInv, TypeOK
<1> QED BY <1>1, Outside

LEMMA StartKeeps ==
  ASSUME IInv, NEW r \in Request, NEW j, NEW point, Start(r, j, point),
         \/ point \in {"verify", "begin"}
         \/ point = "row" /\ j.op \notin {"update", "password"}
  PROVE  Kept
<1>1. Alone(r) /\ users' = users /\ pc'[r] = point /\ job'[r] = j
  BY DEF Start, Goto, Alone, IInv, TypeOK
<1> QED BY <1>1, Outside

LEMMA SubmitKeeps ==
  ASSUME IInv, NEW r \in Request, Submit(r)
  PROVE  Kept
<1>1. CASE StartLogin(r)
  BY <1>1, StartKeeps DEF StartLogin
<1>2. CASE StartPasswordChange(r)
  BY <1>2, StartKeeps DEF StartPasswordChange
<1>3. CASE StartMfaChange(r)
  <2>1. PICK s \in sessions, p \in Password, op \in {"enableMfa", "disableMfa"} :
          Start(r, [Idle EXCEPT !.op = op, !.actor = s.user, !.target = s.user,
                                !.proved = p], "row")
    BY <1>3 DEF StartMfaChange
  <2>2. [Idle EXCEPT !.op = op, !.actor = s.user, !.target = s.user, !.proved = p].op
          \notin {"update", "password"}
    BY DEF Idle
  <2> QED BY <2>1, <2>2, StartKeeps
<1>4. CASE StartUpdate(r)
  BY <1>4, StartKeeps DEF StartUpdate
<1>5. CASE StartCreate(r)
  <2>1. PICK s \in sessions, u \in User, role \in Role, p \in Password :
          Start(r, [Idle EXCEPT !.op = "create", !.actor = s.user, !.target = u,
                                !.patch.password = p, !.role = role], "row")
    BY <1>5 DEF StartCreate
  <2>2. [Idle EXCEPT !.op = "create", !.actor = s.user, !.target = u,
                     !.patch.password = p, !.role = role].op \notin {"update", "password"}
    BY DEF Idle
  <2> QED BY <2>1, <2>2, StartKeeps
<1> QED BY <1>1, <1>2, <1>3, <1>4, <1>5 DEF Submit

LEMMA BlockersAt ==
  ASSUME NEW r \in Request, NEW u, u = job[r].target
  PROVE  /\ pc[r] = "begin" => Blockers(r) = (TableOwners \cup Writers) \ {r}
         /\ pc[r] = "row" => Blockers(r) = RowOwners(u) \ {r}
         /\ pc[r] = "write" => Blockers(r) = (TableOwners \cup RowOwners(u)) \ {r}
BY DEF Blockers

\* A request that moves on inside its transaction: what it owns, the others
\* do not.
LEMMA Inside ==
  ASSUME IInv, NEW r \in Request, Alone(r), users' = users, job' = job,
         pc'[r] \in {"row", "write", "audit", "commit"},
         r \in TableOwners' => (TableOwners \cup Writers) \ {r} = {},
         r \in Writers' => TableOwners \ {r} = {},
         r \in RowOwners(job[r].target)' =>
            /\ RowOwners(job[r].target) \ {r} = {}
            /\ seen'[r].row = users[job[r].target],
         pc'[r] = "write" /\ job[r].op = "create" =>
            seen'[r].row = InitialUsers[job[r].target],
         pc'[r] # "row" => RowAllows(job[r], seen'[r].row),
         pc'[r] \in {"audit", "commit"} /\ Disables(job[r], seen'[r].row)
             /\ seen'[r].row.role = "admin" => ActiveAdmins(users) \ {job[r].target} # {}
  PROVE  Kept
<1>1. /\ TableOwners' \subseteq TableOwners \cup {r}
      /\ Writers' \subseteq Writers \cup {r}
  BY DEF TableOwners, Writers, InTransaction, Alone
<1>2. \A u \in User : RowOwners(u)' \subseteq RowOwners(u) \cup {r}
  BY DEF RowOwners, Alone
<1>3. \A u : r \in RowOwners(u)' => u = job[r].target
  BY DEF RowOwners
<1>4. TableMutex'
  BY <1>1 DEF IInv, Locked, TableMutex
<1>5. RowMutex'
  BY <1>2, <1>3 DEF IInv, Locked, RowMutex
<1>6. NoLostUpdate'
  <2> SUFFICES ASSUME NEW q \in Request, (q \in RowOwners(job[q].target))'
               PROVE  (seen[q].row = users[job[q].target])'
    BY DEF NoLostUpdate
  <2>1. CASE q = r
    BY <2>1
  <2>2. CASE q # r
    <3>1. q \in RowOwners(job[q].target)
      BY <2>2 DEF RowOwners, Alone
    <3> QED BY <2>2, <3>1 DEF IInv, Fresh, NoLostUpdate, Alone
  <2> QED BY <2>1, <2>2
<1>7. AbsentIsInitial'
  BY DEF IInv, Fresh, AbsentIsInitial, Alone
<1>8. ReadAllowed'
  BY DEF IInv, Fresh, ReadAllowed, Alone
<1>9. AnotherAdmin'
  BY DEF IInv, AnotherAdmin, Alone, ActiveAdmins
<1>10. LastActiveAdmin'
  BY DEF IInv, LastActiveAdmin, ActiveAdmins
<1> QED BY <1>4, <1>5, <1>6, <1>7, <1>8, <1>9, <1>10 DEF Kept, Locked, Fresh

\* What a transaction writes: never an absent row, the same role, and the same
\* enabled state unless it disables or restores.
LEMMA NextRowKeeps ==
  ASSUME NEW j \in Job, NEW row \in Row, RowAllows(j, row)
  PROVE  /\ NextRow(j, row).status # "absent"
         /\ row.status = "active" /\ ~Disables(j, row) =>
              NextRow(j, row).status = "active" /\ NextRow(j, row).role = row.role
<1>1. CASE j.op = "create"
  BY <1>1 DEF NextRow, RowAllows, Row
<1>2. CASE j.op # "create"
  <2>1. row.status # "absent"
    BY <1>2 DEF RowAllows
  <2>2. ~(Disables(j, row) /\ Restores(j, row))
    BY DEF Disables, Restores
  <2>3. /\ NextRow(j, row).role = row.role
        /\ NextRow(j, row).status = CASE Disables(j, row) -> "disabled"
                                      [] Restores(j, row) -> "active"
                                      [] OTHER            -> row.status
    BY <1>2 DEF NextRow, Row
  <2> QED BY <2>1, <2>2, <2>3
<1> QED BY <1>1, <1>2

LEMMA CommitKeeps ==
  ASSUME IInv, NEW r \in Request, CommitUser(r)
  PROVE  Kept
<1> DEFINE j == job[r]
           u == j.target
           row == seen[r].row
           new == NextRow(j, row)
<1>1. j \in Job /\ u \in User /\ row \in Row
  BY DEF IInv, TypeOK, Job
<1>2. pc[r] = "commit" /\ users' = [users EXCEPT ![u] = new]
  BY DEF CommitUser
<1>3. Alone(r) /\ pc'[r] \in {"reload", "done"}
  BY DEF CommitUser, Finish, Goto, Alone, IInv, TypeOK
<1>4. r \in RowOwners(u) /\ r \in Writers
  BY <1>2 DEF RowOwners, Writers
<1>5. row = users[u]
  BY <1>4 DEF IInv, Fresh, NoLostUpdate
<1>6. /\ new.status # "absent"
      /\ row.status = "active" /\ ~Disables(j, row) => new.status = "active" /\ new.role = row.role
  BY <1>1, <1>2, NextRowKeeps DEF IInv, Fresh, ReadAllowed
<1>7. \A v \in User : users'[v] = IF v = u THEN new ELSE users[v]
  BY <1>1, <1>2 DEF IInv, TypeOK
<1> HIDE DEF new
<1>8. /\ TableOwners' \subseteq TableOwners /\ Writers' \subseteq Writers
      /\ \A v \in User : RowOwners(v)' \subseteq RowOwners(v) /\ r \notin RowOwners(v)'
  BY <1>3 DEF TableOwners, Writers, RowOwners, InTransaction, Alone
<1>9. Locked'
  BY <1>8 DEF IInv, Locked, TableMutex, RowMutex
<1>10. NoLostUpdate'
  <2> SUFFICES ASSUME NEW q \in Request, (q \in RowOwners(job[q].target))'
               PROVE  (seen[q].row = users[job[q].target])'
    BY DEF NoLostUpdate
  <2>1. q # r
    BY <1>3 DEF RowOwners
  <2>2. q \in RowOwners(job[q].target) /\ job[q].target \in User
    BY <1>3, <2>1 DEF RowOwners, Alone, IInv, TypeOK, Job
  <2>3. job[q].target # u
    BY <1>1, <1>4, <2>1, <2>2 DEF IInv, Locked, RowMutex
  <2> QED BY <1>3, <1>7, <2>1, <2>2, <2>3 DEF IInv, Fresh, NoLostUpdate, Alone
<1>11. AbsentIsInitial'
  BY <1>3, <1>6, <1>7 DEF IInv, Fresh, AbsentIsInitial, Alone
<1>12. ReadAllowed'
  BY <1>3 DEF IInv, Fresh, ReadAllowed, Alone
<1>13. AnotherAdmin'
  <2> SUFFICES ASSUME NEW q \in Request, pc'[q] \in {"audit", "commit"},
                      Disables(job'[q], seen'[q].row)
               PROVE  FALSE
    BY DEF AnotherAdmin
  <2>1. q # r /\ pc[q] = pc'[q] /\ job[q] = job'[q] /\ seen[q] = seen'[q]
    BY <1>3 DEF Alone
  <2>2. q \in TableOwners
    BY <2>1 DEF Disables, TableOwners, InTransaction
  <2> QED BY <1>4, <2>1, <2>2 DEF IInv, Locked, TableMutex
<1>14. LastActiveAdmin'
  <2>1. CASE Disables(j, row) /\ row.role = "admin"
    <3>1. PICK v \in ActiveAdmins(users) : v # u
      BY <1>2, <2>1 DEF IInv, AnotherAdmin
    <3> QED BY <1>7, <3>1 DEF LastActiveAdmin, ActiveAdmins
  <2>2. CASE ~(Disables(j, row) /\ row.role = "admin")
    <3>1. PICK v \in ActiveAdmins(users) : TRUE
      BY DEF IInv, LastActiveAdmin
    <3>2. CASE v = u
      BY <1>5, <1>6, <1>7, <2>2, <3>1, <3>2 DEF LastActiveAdmin, ActiveAdmins
    <3>3. CASE v # u
      BY <1>7, <3>1, <3>3 DEF LastActiveAdmin, ActiveAdmins
    <3> QED BY <3>2, <3>3
  <2> QED BY <2>1, <2>2
<1> QED BY <1>9, <1>10, <1>11, <1>12, <1>13, <1>14 DEF Kept, Fresh

LEMMA ProceedKeeps ==
  ASSUME IInv, NEW r \in Request, Proceed(r), ~Refuse(r)
  PROVE  Kept
<1> DEFINE j == job[r]
           u == j.target
<1>0. u \in User
  BY DEF IInv, TypeOK, Job
<1>1. CASE VerifyPassword(r)
  BY <1>1, Outside DEF VerifyPassword, Read, Goto, Alone, IInv, TypeOK
<1>2. CASE StampLogin(r)
  <2>1. Alone(r) /\ users' = users /\ pc'[r] \in {"begin", "code", "done"}
    BY <1>2 DEF StampLogin, Finish, Goto, Alone, IInv, TypeOK
  <2> QED BY <2>1, Outside
<1>3. CASE VerifyCode(r)
  <2>1. Alone(r) /\ users' = users /\ pc'[r] = "done"
    BY <1>3 DEF VerifyCode, Finish, Goto, Alone, IInv, TypeOK
  <2> QED BY <2>1, Outside
<1>4. CASE LockUsersTable(r)
  <2>1. /\ Alone(r) /\ users' = users /\ job' = job /\ pc'[r] = "row"
        /\ (TableOwners \cup Writers) \ {r} = {}
    BY <1>4, BlockersAt DEF LockUsersTable, Goto, Alone, IInv, TypeOK
  <2>2. r \notin Writers' /\ r \notin RowOwners(u)'
    BY <2>1 DEF Writers, RowOwners
  <2> QED BY <2>1, <2>2, Inside
<1>5. CASE LockUserRow(r)
  <2>0. /\ pc[r] = "row" /\ Blockers(r) = {} /\ RowAllows(j, users[u])
        /\ Read(r) /\ Goto(r, "write") /\ UNCHANGED <<users, job>>
    BY <1>5 DEF LockUserRow
  <2>1. /\ Alone(r) /\ users' = users /\ job' = job /\ pc'[r] = "write" /\ pc[r] = "row"
        /\ RowOwners(u) \ {r} = {}
        /\ seen'[r].row = users[u] /\ RowAllows(j, users[u])
    BY <2>0, BlockersAt DEF Read, Goto, Alone, IInv, TypeOK
  <2>2. r \in TableOwners' => r \in TableOwners
    BY <2>1 DEF TableOwners, InTransaction
  <2>3. r \in TableOwners' => (TableOwners \cup Writers) \ {r} = {}
    BY <2>2 DEF IInv, Locked, TableMutex
  <2>4. r \notin Writers'
    BY <2>1 DEF Writers
  <2>5. j.op = "create" => users[u] = InitialUsers[u]
    BY <1>0, <2>1 DEF RowAllows, IInv, Fresh, AbsentIsInitial
  <2> QED BY <2>1, <2>3, <2>4, <2>5, Inside
<1>6. CASE WriteUser(r)
  <2>1. /\ Alone(r) /\ users' = users /\ job' = job /\ seen' = seen
        /\ pc[r] = "write" /\ pc'[r] = "audit"
        /\ (TableOwners \cup RowOwners(u)) \ {r} = {}
        /\ ~(Disables(j, seen[r].row) /\ seen[r].row.role = "admin"
               /\ ActiveAdmins(users) \ {u} = {})
        /\ ~(j.op = "create" /\ users[u].status # "absent")
    BY <1>6, BlockersAt DEF WriteUser, Goto, Alone, IInv, TypeOK
  <2>2. r \in TableOwners' => (TableOwners \cup Writers) \ {r} = {}
    BY <2>1 DEF TableOwners, InTransaction, IInv, Locked, TableMutex
  <2>3. seen[r].row = users[u]
    <3>1. CASE j.op = "create"
      BY <1>0, <2>1, <3>1 DEF IInv, Fresh, AbsentIsInitial
    <3>2. CASE j.op # "create"
      <4>1. r \in RowOwners(u)
        BY <2>1, <3>2 DEF RowOwners
      <4> QED BY <4>1 DEF IInv, Fresh, NoLostUpdate
    <3> QED BY <3>1, <3>2
  <2>4. RowAllows(j, seen[r].row)
    BY <2>1 DEF IInv, Fresh, ReadAllowed
  <2> QED BY <2>1, <2>2, <2>3, <2>4, Inside
<1>7. CASE AppendAudit(r)
  <2>1. /\ Alone(r) /\ users' = users /\ job' = job /\ seen' = seen
        /\ pc[r] = "audit" /\ pc'[r] = "commit"
    BY <1>7 DEF AppendAudit, Goto, Alone, IInv, TypeOK
  <2>2. /\ r \in RowOwners(u) /\ r \in Writers
        /\ r \in TableOwners' => r \in TableOwners
    BY <2>1 DEF RowOwners, Writers, TableOwners, InTransaction
  <2>3. /\ r \in TableOwners' => (TableOwners \cup Writers) \ {r} = {}
        /\ TableOwners \ {r} = {}
    BY <2>2 DEF IInv, Locked, TableMutex
  <2>4. RowOwners(u) \ {r} = {}
    BY <1>0, <2>2 DEF IInv, Locked, RowMutex
  <2>5. seen[r].row = users[u]
    BY <2>2 DEF IInv, Fresh, NoLostUpdate
  <2>6. RowAllows(j, seen[r].row)
    BY <2>1 DEF IInv, Fresh, ReadAllowed
  <2>7. Disables(j, seen[r].row) /\ seen[r].row.role = "admin" => ActiveAdmins(users) \ {u} # {}
    BY <2>1 DEF IInv, AnotherAdmin
  <2> QED BY <2>1, <2>3, <2>4, <2>5, <2>6, <2>7, Inside
<1>8. CASE CommitUser(r)
  BY <1>8, CommitKeeps
<1>9. CASE Reload(r)
  <2>1. Alone(r) /\ users' = users /\ pc'[r] = "done"
    BY <1>9 DEF Reload, Finish, Goto, Alone, IInv, TypeOK
  <2> QED BY <2>1, Outside
<1> QED BY <1>1, <1>2, <1>3, <1>4, <1>5, <1>6, <1>7, <1>8, <1>9 DEF Proceed

LEMMA StepIInv == IInv /\ [Next]_vars => IInv'
<1> SUFFICES ASSUME IInv, [Next]_vars PROVE IInv'
  OBVIOUS
<1>1. TypeOK' /\ CreatesNamed'
  BY NextType DEF IInv
<1>2. Kept
  <2>1. CASE UNCHANGED vars
    BY <2>1 DEF vars, Kept, IInv, Locked, TableMutex, RowMutex, TableOwners, Writers, RowOwners,
       Fresh, NoLostUpdate, AbsentIsInitial, ReadAllowed, AnotherAdmin, LastActiveAdmin, ActiveAdmins
  <2>2. ASSUME NEW r \in Request, Submit(r) PROVE Kept
    BY <2>2, SubmitKeeps
  <2>3. ASSUME NEW r \in Request, Refuse(r) PROVE Kept
    BY <2>3, RefuseKeeps
  <2>4. ASSUME NEW r \in Request, Proceed(r) PROVE Kept
    BY <2>3, <2>4, ProceedKeeps
  <2> QED BY <2>1, <2>2, <2>3, <2>4 DEF Next, Abort, BreakDeadlock
<1> QED BY <1>1, <1>2 DEF IInv, Kept

(***************************************************************************)
(* However many requests interleave, fail or deadlock, an active           *)
(* administrator remains.                                                  *)
(***************************************************************************)
THEOREM AnAdminRemains == Spec => []LastActiveAdmin
<1>1. IInv => LastActiveAdmin
  BY DEF IInv
<1> QED BY <1>1, InitIInv, StepIInv, PTL DEF Spec

(***************************************************************************)
(* The row a transaction has read is the row until the transaction ends.   *)
(***************************************************************************)
THEOREM UpdatesAreFresh == Spec => []NoLostUpdate
<1>1. IInv => NoLostUpdate
  BY DEF IInv, Fresh
<1> QED BY <1>1, InitIInv, StepIInv, PTL DEF Spec
-----------------------------------------------------------------------------
(***************************************************************************)
(* Sessions.  Every change of an account that has an event increases its   *)
(* revision, so a row read at some point of the trail, or a session built  *)
(* from it, either lags behind or is still the account as it is.           *)
(***************************************************************************)
Unseen(u, since) == \A n \in (since + 1)..Len(audit) : audit[n][2] # u

Snapshot(u, row, since) ==
  /\ row.revision <= users[u].revision /\ since <= Len(audit)
  /\ row.revision = users[u].revision => row = users[u] /\ Unseen(u, since)

SessionCurrent(s) ==
  /\ s.revision <= users[s.user].revision /\ s.since <= Len(audit)
  /\ s.revision = users[s.user].revision =>
       /\ Unseen(s.user, s.since)
       /\ s.via # "password" => Proved(s)

HasRead(r) == pc[r] \in {"stamp", "code", "write", "audit", "commit"}

SInv ==
  /\ \A r \in Request :
       HasRead(r) => Snapshot(job[r].target, seen[r].row, seen[r].since)
  /\ \A r \in Request :
       pc[r] \in {"stamp", "code"} => seen[r].row.password = job[r].proved
  /\ \A s \in sessions : SessionCurrent(s)

\* What is written either records nothing and changes nothing, or carries the
\* next revision.
LEMMA NextRowRotates ==
  ASSUME NEW j \in Job, NEW row \in Row, RowAllows(j, row)
  PROVE  \/ NextRow(j, row) = row /\ Events(j, row) = << >>
         \/ NextRow(j, row).revision = row.revision + 1
<1>1. CASE j.op = "create"
  BY <1>1 DEF NextRow, NextRevision
<1>2. CASE j.op # "create" /\ Rotates(j, row)
  BY <1>2 DEF NextRow, NextRevision, Row
<1>3. CASE j.op # "create" /\ ~Rotates(j, row)
  <2>1. /\ ~Disables(j, row) /\ ~Restores(j, row) /\ ~SetsPassword(j)
        /\ ~ResetsMfa(j, row) /\ j.op \notin {"enableMfa", "disableMfa", "create"}
    BY <1>3 DEF Rotates
  <2>2. NextRow(j, row) = row
    <3>1. NextRow(j, row) = [row EXCEPT !.status = row.status, !.mfa = row.mfa,
              !.mustChange = row.mustChange, !.revision = row.revision,
              !.password = row.password]
      BY <1>3, <2>1 DEF NextRow
    <3> QED BY <3>1 DEF Row
  <2>3. Events(j, row) = << >> \o << >> \o << >> \o << >> \o << >>
    BY <2>1 DEF Events
  <2> QED BY <2>2, <2>3, ConcatEmptySeq, EmptySeq
<1> QED BY <1>1, <1>2, <1>3

\* A step of r that leaves the accounts and the trail alone.
LEMMA QuietSInv ==
  ASSUME SInv, NEW r \in Request, Alone(r), UNCHANGED <<users, audit>>,
         \A s \in sessions' : s \in sessions \/ SessionCurrent(s),
         HasRead(r)' => Snapshot(job'[r].target, seen'[r].row, seen'[r].since),
         pc'[r] \in {"stamp", "code"} => seen'[r].row.password = job'[r].proved
  PROVE  SInv'
<1>1. \A s : SessionCurrent(s)' = SessionCurrent(s)
  BY DEF SessionCurrent, Unseen, Proved
<1>2. \A u, row, since : Snapshot(u, row, since)' = Snapshot(u, row, since)
  BY DEF Snapshot, Unseen
<1>3. \A s \in sessions' : SessionCurrent(s)'
  BY <1>1 DEF SInv
<1>4. ASSUME NEW q \in Request, HasRead(q)'
      PROVE  Snapshot(job[q].target, seen[q].row, seen[q].since)'
  <2>1. Snapshot(job'[q].target, seen'[q].row, seen'[q].since)
    BY <1>4 DEF SInv, HasRead, Alone
  <2> QED BY <2>1 DEF Snapshot, Unseen
<1>5. ASSUME NEW q \in Request, pc'[q] \in {"stamp", "code"}
      PROVE  seen'[q].row.password = job'[q].proved
  BY <1>5 DEF SInv, Alone
<1> QED BY <1>3, <1>4, <1>5 DEF SInv

LEMMA InitSInv == Init => SInv
<1> SUFFICES ASSUME Init PROVE SInv
  OBVIOUS
<1>1. ASSUME NEW s \in sessions PROVE SessionCurrent(s)
  <2>1. PICK u \in User :
          s = SessionFor(u, users[u], users[u].password, users[u].mfa, "login", 0)
    BY DEF Init
  <2>2. Len(audit) = 0 /\ users[u].revision \in Nat
    BY InitialUsersAssumption DEF Init, Row
  <2> QED BY <2>1, <2>2 DEF SessionFor, SessionCurrent, Unseen, Proved
<1> QED BY <1>1 DEF Init, SInv, HasRead

\* What COMMIT does to the account and the trail, as the sessions see it.
LEMMA CommitEffect ==
  ASSUME IInv, NEW r \in Request, CommitUser(r),
         NEW u, u = job[r].target
  PROVE  /\ u \in User /\ audit' \in Seq(EventType \X User)
         /\ seen[r].row = users[u] /\ RowAllows(job[r], users[u])
         /\ users' = [users EXCEPT ![u] = NextRow(job[r], users[u])]
         /\ NextRow(job[r], users[u]) \in Row
         /\ Len(audit) \in Nat /\ Len(audit') \in Nat /\ Len(audit) <= Len(audit')
         /\ \A n \in 1..Len(audit') : /\ n <= Len(audit) => audit'[n] = audit[n]
                                      /\ n > Len(audit) => audit'[n][2] = u
         /\ \/ users' = users /\ audit' = audit
            \/ users'[u].revision = users[u].revision + 1
<1> DEFINE row == users[u]
           E == Events(job[r], row)
<1>1. job[r] \in Job /\ u \in User /\ row \in Row /\ audit \in Seq(EventType \X User)
  BY DEF IInv, TypeOK, Job
<1>2. pc[r] = "commit" /\ r \in RowOwners(u)
  BY DEF CommitUser, RowOwners
<1>3. seen[r].row = row /\ RowAllows(job[r], row)
  BY <1>2 DEF IInv, Fresh, NoLostUpdate, ReadAllowed
<1>4. users' = [users EXCEPT ![u] = NextRow(job[r], row)] /\ audit' = audit \o E
  BY <1>3 DEF CommitUser
<1>5. NextRow(job[r], row) \in Row
  BY <1>1, NextRowType DEF IInv, CreatesNamed
<1>6. E \in Seq(EventType \X {u}) /\ E \in Seq(EventType \X User)
  BY <1>1, EventsAbout, EventsType
<1> HIDE DEF E, row
<1>7. /\ audit' \in Seq(EventType \X User)
      /\ Len(audit') = Len(audit) + Len(E)
      /\ Len(audit) \in Nat /\ Len(E) \in Nat
      /\ \A n \in 1..Len(audit') :
           audit'[n] = IF n <= Len(audit) THEN audit[n] ELSE E[n - Len(audit)]
  BY <1>1, <1>4, <1>6, ConcatProperties
<1>8. ASSUME NEW n \in 1..Len(audit'), n > Len(audit) PROVE audit'[n][2] = u
  <2>1. n - Len(audit) \in 1..Len(E) /\ audit'[n] = E[n - Len(audit)]
    BY <1>7, <1>8
  <2>2. E[n - Len(audit)] \in EventType \X {u}
    BY <1>6, <2>1, ElementOfSeq
  <2> QED BY <2>1, <2>2
<1>9. (users' = users /\ audit' = audit) \/ users'[u].revision = row.revision + 1
  <2>1. CASE NextRow(job[r], row) = row /\ E = << >>
    <3>1. users' = users
      BY <1>1, <1>4, <2>1 DEF IInv, TypeOK, row
    <3>2. audit' = audit
      BY <1>1, <1>4, <2>1, ConcatEmptySeq
    <3> QED BY <3>1, <3>2
  <2>2. CASE NextRow(job[r], row).revision = row.revision + 1
    BY <1>1, <1>4, <2>2 DEF IInv, TypeOK
  <2> QED BY <1>1, <1>3, <2>1, <2>2, NextRowRotates DEF E
<1> QED BY <1>1, <1>3, <1>4, <1>5, <1>7, <1>8, <1>9 DEF row

LEMMA CommitSInv ==
  ASSUME IInv, SInv, NEW r \in Request, CommitUser(r)
  PROVE  SInv'
<1> DEFINE u == job[r].target
           new == NextRow(job[r], users[u])
<1>1. /\ u \in User /\ seen[r].row = users[u] /\ RowAllows(job[r], users[u])
      /\ users' = [users EXCEPT ![u] = new] /\ new \in Row
      /\ Len(audit) \in Nat /\ Len(audit') \in Nat /\ Len(audit) <= Len(audit')
      /\ \A n \in 1..Len(audit') : /\ n <= Len(audit) => audit'[n] = audit[n]
                                   /\ n > Len(audit) => audit'[n][2] = u
      /\ \/ users' = users /\ audit' = audit
         \/ users'[u].revision = users[u].revision + 1
  BY CommitEffect
<1>2. Alone(r) /\ pc'[r] \in {"reload", "done"}
  BY DEF CommitUser, Finish, Goto, Alone, IInv, TypeOK
<1>3. /\ users \in [User -> Row] /\ job[r] \in Job
      /\ users'[u] = new /\ \A v \in User \ {u} : users'[v] = users[v]
      /\ \A v \in User : users[v].revision \in Nat /\ users'[v].revision \in Nat
  BY <1>1 DEF IInv, TypeOK, Row
<1> HIDE DEF new, u
<1>4. ASSUME NEW v \in User \ {u}, NEW since \in Nat, Unseen(v, since)
      PROVE  Unseen(v, since)'
  BY <1>1, <1>4 DEF Unseen
<1>5. ASSUME NEW v \in User, NEW row \in Row, NEW since \in Nat, Snapshot(v, row, since)
      PROVE  Snapshot(v, row, since)'
  <2>1. CASE users' = users /\ audit' = audit
    BY <1>5, <2>1 DEF Snapshot, Unseen
  <2>2. CASE v = u /\ users'[u].revision = users[u].revision + 1
    BY <1>1, <1>3, <1>5, <2>2 DEF Snapshot, Row
  <2>3. CASE v # u
    BY <1>1, <1>3, <1>4, <1>5, <2>3 DEF Snapshot
  <2> QED BY <1>1, <2>1, <2>2, <2>3
<1>6. ASSUME NEW s \in sessions PROVE SessionCurrent(s)'
  <2>1. /\ s.user \in User /\ s.revision \in Nat /\ s.since \in Nat /\ SessionCurrent(s)
    BY DEF SInv, IInv, TypeOK, Session
  <2>2. CASE users' = users /\ audit' = audit
    BY <2>1, <2>2 DEF SessionCurrent, Unseen, Proved
  <2>3. CASE s.user = u /\ users'[u].revision = users[u].revision + 1
    BY <1>1, <1>3, <2>1, <2>3 DEF SessionCurrent
  <2>4. CASE s.user # u
    BY <1>1, <1>3, <1>4, <2>1, <2>4 DEF SessionCurrent, Proved
  <2> QED BY <1>1, <2>1, <2>2, <2>3, <2>4
<1>7. ASSUME NEW s \in sessions', s \notin sessions PROVE SessionCurrent(s)'
  <2>1. /\ job[r].op \in {"enableMfa", "disableMfa"}
        /\ s = SessionFor(u, new, job[r].proved, new.mfa, job[r].op, Len(audit'))
    BY <1>1, <1>7 DEF CommitUser, Issue, u, new
  <2>2. users[u].password = job[r].proved
    BY <1>1, <2>1 DEF RowAllows
  <2>3. new.password = users[u].password
    BY <1>1, <1>3, <2>1 DEF new, NextRow, SetsPassword, Row
  <2> QED BY <1>1, <1>3, <2>1, <2>2, <2>3 DEF SessionFor, SessionCurrent, Unseen, Proved
<1>8. ASSUME NEW q \in Request, HasRead(q)'
      PROVE  Snapshot(job[q].target, seen[q].row, seen[q].since)'
  <2>1. /\ q # r /\ job'[q] = job[q] /\ seen'[q] = seen[q] /\ HasRead(q)
        /\ job[q].target \in User /\ seen[q].row \in Row /\ seen[q].since \in Nat
    BY <1>2, <1>8 DEF HasRead, Alone, IInv, TypeOK, Job
  <2>2. Snapshot(job[q].target, seen[q].row, seen[q].since)
    BY <2>1 DEF SInv
  <2>3. Snapshot(job[q].target, seen[q].row, seen[q].since)
          => /\ seen[q].row.revision <= users'[job[q].target].revision
             /\ seen[q].since <= Len(audit')
             /\ seen[q].row.revision = users'[job[q].target].revision =>
                  /\ seen[q].row = users'[job[q].target]
                  /\ \A n \in (seen[q].since + 1)..Len(audit') : audit'[n][2] # job[q].target
    BY <1>5, <2>1 DEF Snapshot, Unseen
  <2> QED BY <2>1, <2>2, <2>3 DEF Snapshot, Unseen
<1>9. ASSUME NEW q \in Request, pc'[q] \in {"stamp", "code"}
      PROVE  seen'[q].row.password = job'[q].proved
  BY <1>2, <1>9 DEF SInv, Alone
<1> QED BY <1>6, <1>7, <1>8, <1>9 DEF SInv

\* The claims of a session built from a row that was read.
LEMMA SessionOfSnapshot ==
  ASSUME NEW u \in User, NEW row \in Row, NEW since \in Nat, Snapshot(u, row, since),
         NEW proved, NEW factor, NEW via,
         via # "password" => proved = row.password /\ (row.mfa => factor)
  PROVE  SessionCurrent(SessionFor(u, row, proved, factor, via, since))
BY DEF SessionFor, SessionCurrent, Snapshot, Proved

LEMMA ReadSnapshot ==
  ASSUME TypeOK, NEW u \in User
  PROVE  Snapshot(u, users[u], Len(audit))
<1>1. users[u].revision \in Nat /\ Len(audit) \in Nat
  BY DEF TypeOK, Row
<1> QED BY <1>1 DEF Snapshot, Unseen

LEMMA ProceedSInv ==
  ASSUME IInv, SInv, NEW r \in Request, Proceed(r), ~Refuse(r)
  PROVE  SInv'
<1> DEFINE j == job[r]
           u == j.target
           row == seen[r].row
           since == seen[r].since
<1>0. /\ TypeOK /\ u \in User /\ row \in Row /\ since \in Nat
      /\ HasRead(r) => Snapshot(u, row, since)
      /\ Snapshot(u, users[u], Len(audit))
      /\ pc \in [Request -> Point] /\ seen \in [Request -> [row : Row, since : Nat]]
      /\ job \in [Request -> Job]
  BY ReadSnapshot DEF IInv, TypeOK, Job, SInv
<1>1. CASE VerifyPassword(r)
  <2>1. /\ Alone(r) /\ UNCHANGED <<users, audit, sessions>> /\ job'[r] = j
        /\ seen'[r] = [row |-> users[u], since |-> Len(audit)]
        /\ users[u].password = j.proved
    BY <1>0, <1>1 DEF VerifyPassword, Read, Goto, Alone
  <2>2. Snapshot(job'[r].target, seen'[r].row, seen'[r].since) /\ seen'[r].row.password = job'[r].proved
    BY <1>0, <2>1
  <2>3. \A s \in sessions' : s \in sessions \/ SessionCurrent(s)
    BY <2>1
  <2> QED BY <2>1, <2>2, <2>3, QuietSInv
<1>2. CASE StampLogin(r)
  <2>0. pc[r] = "stamp" /\ UNCHANGED <<users, audit>> /\ HasRead(r) /\ row.password = j.proved
    BY <1>2 DEF StampLogin, HasRead, SInv
  <2>1. CASE Finish(r) /\ Issue(SessionFor(u, row, j.proved, FALSE, "login", since)) /\ ~row.mfa
    <3>1. Alone(r) /\ pc'[r] = "done"
      BY <1>0, <2>1 DEF Finish, Goto, Alone
    <3>2. SessionCurrent(SessionFor(u, row, j.proved, FALSE, "login", since))
      BY <1>0, <2>0, <2>1, SessionOfSnapshot
    <3> QED BY <2>0, <2>1, <3>1, <3>2, QuietSInv DEF Issue, HasRead
  <2>2. CASE \E p \in {"begin", "code"} : Goto(r, p) /\ UNCHANGED <<sessions, job, seen>>
    <3>1. Alone(r) /\ pc'[r] \in {"begin", "code"}
      BY <1>0, <2>2 DEF Goto, Alone
    <3> QED BY <1>0, <2>0, <2>2, <3>1, QuietSInv
  <2> QED BY <1>2, <2>1, <2>2 DEF StampLogin
<1>3. CASE VerifyCode(r)
  <2>1. /\ pc[r] = "code" /\ Finish(r) /\ UNCHANGED <<users, audit>>
        /\ Issue(SessionFor(u, row, j.proved, TRUE, "login", since))
    BY <1>3 DEF VerifyCode
  <2>2. HasRead(r) /\ row.password = j.proved
    BY <2>1 DEF HasRead, SInv
  <2>3. Alone(r) /\ pc'[r] = "done"
    BY <1>0, <2>1 DEF Finish, Goto, Alone
  <2>4. SessionCurrent(SessionFor(u, row, j.proved, TRUE, "login", since))
    BY <1>0, <2>2, SessionOfSnapshot
  <2> QED BY <2>1, <2>3, <2>4, QuietSInv DEF Issue, HasRead
<1>4. CASE LockUsersTable(r)
  <2>1. Alone(r) /\ pc'[r] = "row" /\ UNCHANGED <<users, audit, sessions>>
    BY <1>0, <1>4 DEF LockUsersTable, Goto, Alone
  <2> QED BY <2>1, QuietSInv DEF HasRead
<1>5. CASE LockUserRow(r)
  <2>1. /\ Alone(r) /\ UNCHANGED <<users, audit, sessions>> /\ pc'[r] = "write"
        /\ job'[r] = j /\ seen'[r] = [row |-> users[u], since |-> Len(audit)]
    BY <1>0, <1>5 DEF LockUserRow, Read, Goto, Alone
  <2>2. Snapshot(job'[r].target, seen'[r].row, seen'[r].since)
    BY <1>0, <2>1
  <2>3. pc'[r] \notin {"stamp", "code"} /\ \A s \in sessions' : s \in sessions \/ SessionCurrent(s)
    BY <2>1
  <2> QED BY <2>1, <2>2, <2>3, QuietSInv
<1>6. CASE WriteUser(r) \/ AppendAudit(r)
  <2>1. /\ Alone(r) /\ UNCHANGED <<users, audit, sessions, job, seen>>
        /\ pc[r] \in {"write", "audit"} /\ pc'[r] \in {"audit", "commit"}
    BY <1>0, <1>6 DEF WriteUser, AppendAudit, Goto, Alone
  <2> QED BY <1>0, <2>1, QuietSInv DEF HasRead
<1>7. CASE CommitUser(r)
  BY <1>7, CommitSInv
<1>8. CASE Reload(r)
  <2>1. /\ Alone(r) /\ UNCHANGED <<users, audit>> /\ pc'[r] = "done"
        /\ Issue(SessionFor(u, users[u], j.patch.password, j.factor, "password", Len(audit)))
    BY <1>0, <1>8 DEF Reload, Finish, Goto, Alone
  <2>2. users[u] \in Row /\ Len(audit) \in Nat
    BY <1>0 DEF TypeOK
  <2>3. SessionCurrent(SessionFor(u, users[u], j.patch.password, j.factor, "password", Len(audit)))
    BY <1>0, <2>2, SessionOfSnapshot
  <2> QED BY <2>1, <2>3, QuietSInv DEF Issue, HasRead
<1> QED BY <1>1, <1>2, <1>3, <1>4, <1>5, <1>6, <1>7, <1>8 DEF Proceed

LEMMA StepSInv == IInv /\ SInv /\ [Next]_vars => SInv'
<1> SUFFICES ASSUME IInv, SInv, [Next]_vars PROVE SInv'
  OBVIOUS
<1>1. CASE UNCHANGED vars
  BY <1>1 DEF vars, SInv, HasRead, Snapshot, SessionCurrent, Unseen, Proved
<1>2. ASSUME NEW r \in Request, Submit(r) PROVE SInv'
  <2>1. /\ Alone(r) /\ UNCHANGED <<users, audit, sessions>>
        /\ pc'[r] \in {"verify", "row", "begin"}
    BY <1>2 DEF Submit, StartLogin, StartPasswordChange, StartMfaChange, StartUpdate,
       StartCreate, Start, Goto, Alone, IInv, TypeOK
  <2> QED BY <2>1, QuietSInv DEF HasRead
<1>3. ASSUME NEW r \in Request, Refuse(r) PROVE SInv'
  <2>1. Alone(r) /\ UNCHANGED <<users, audit, sessions>> /\ pc'[r] = "done"
    BY <1>3 DEF Refuse, Finish, Goto, Alone, IInv, TypeOK
  <2> QED BY <2>1, QuietSInv DEF HasRead
<1>4. ASSUME NEW r \in Request, Proceed(r) PROVE SInv'
  BY <1>3, <1>4, ProceedSInv
<1> QED BY <1>1, <1>2, <1>3, <1>4 DEF Next, Abort, BreakDeadlock

(***************************************************************************)
(* A session is refused as soon as a change of its account commits after   *)
(* the read it was built from, however the changes and the sign-ins        *)
(* interleave.                                                             *)
(***************************************************************************)
THEOREM StaleSessionsAreRefused == Spec => []SessionsSawEveryChange
<1>1. SInv => SessionsSawEveryChange
  BY DEF SInv, SessionsSawEveryChange, SessionCurrent, Accepts, Unseen
<1>2. IInv /\ SInv /\ [Next]_vars => SInv'
  BY StepSInv
<1> QED BY <1>1, <1>2, InitIInv, StepIInv, InitSInv, PTL DEF Spec

(***************************************************************************)
(* A session of a login or of an MFA operation that the gate accepts went  *)
(* to a client that proved the present password and, where the account has *)
(* one, the second factor.                                                 *)
(***************************************************************************)
THEOREM AcceptedSessionsAreProved == Spec => []SessionsAreProved
<1>1. SInv => SessionsAreProved
  BY DEF SInv, SessionsAreProved, SessionCurrent, Accepts
<1>2. IInv /\ SInv /\ [Next]_vars => SInv'
  BY StepSInv
<1> QED BY <1>1, <1>2, InitIInv, StepIInv, InitSInv, PTL DEF Spec
-----------------------------------------------------------------------------
(***************************************************************************)
(* The trail replayed.  "outcome" gives the value a field of the account   *)
(* has after each event that concerns it.                                  *)
(***************************************************************************)
Concerning(trail, u, outcome) ==
  {n \in 1..Len(trail) : trail[n][2] = u /\ trail[n][1] \in DOMAIN outcome}

Replays(trail, u, outcome, value, initial) ==
  \/ Concerning(trail, u, outcome) = {} /\ value = initial
  \/ \E n \in Concerning(trail, u, outcome) :
       /\ \A m \in Concerning(trail, u, outcome) : m <= n
       /\ value = outcome[trail[n][1]]

\* The value after one more event, if there is one.
Outcome(given, event, outcome, value) ==
  IF given /\ event \in DOMAIN outcome THEN outcome[event] ELSE value

Recorded(given, event, v) == IF given THEN << <<event, v>> >> ELSE << >>

Trail == Seq(EventType \X User)

LEMMA ReplayOne ==
  ASSUME NEW trail \in Trail, NEW u \in User, NEW v \in User,
         NEW outcome, NEW value, NEW initial,
         Replays(trail, u, outcome, value, initial),
         NEW given \in BOOLEAN, NEW event \in EventType
  PROVE  /\ trail \o Recorded(given, event, v) \in Trail
         /\ Replays(trail \o Recorded(given, event, v), u, outcome,
                    Outcome(given /\ u = v, event, outcome, value), initial)
<1> DEFINE more == trail \o Recorded(given, event, v)
<1>1. CASE ~given
  <2>1. more = trail
    BY <1>1, ConcatEmptySeq DEF Recorded, Trail
  <2> QED BY <1>1, <2>1 DEF Outcome
<1>2. CASE given
  <2> DEFINE l == Len(trail)
  <2>1. << <<event, v>> >> \in Trail /\ Len(<< <<event, v>> >>) = 1
    BY DEF Trail
  <2>2. /\ more \in Trail /\ Len(more) = l + 1 /\ l \in Nat
        /\ \A n \in 1..l : more[n] = trail[n]
        /\ more[l + 1] = <<event, v>>
    BY <1>2, <2>1, ConcatProperties DEF Recorded, Trail
  <2> HIDE DEF more, l
  <2>3. CASE u = v /\ event \in DOMAIN outcome
    <3>1. l + 1 \in Concerning(more, u, outcome)
      BY <2>2, <2>3 DEF Concerning
    <3>2. \A m \in Concerning(more, u, outcome) : m <= l + 1
      BY <2>2 DEF Concerning
    <3>3. Outcome(given /\ u = v, event, outcome, value) = outcome[more[l + 1][1]]
      BY <1>2, <2>2, <2>3 DEF Outcome
    <3> QED BY <2>2, <3>1, <3>2, <3>3 DEF Replays, more
  <2>4. CASE ~(u = v /\ event \in DOMAIN outcome)
    <3>1. Concerning(more, u, outcome) = Concerning(trail, u, outcome)
      BY <2>2, <2>4 DEF Concerning, l
    <3>2. Outcome(given /\ u = v, event, outcome, value) = value
      BY <2>4 DEF Outcome
    <3>3. \A n \in Concerning(trail, u, outcome) : more[n] = trail[n]
      BY <2>2 DEF Concerning, l
    <3>4. Replays(more, u, outcome, value, initial)
      BY <3>1, <3>3 DEF Replays
    <3> QED BY <2>2, <3>2, <3>4 DEF more
  <2> QED BY <2>3, <2>4
<1> QED BY <1>1, <1>2

\* The events of updateUser, one after the other.
AfterUpdate(j, row, mine, outcome, value) ==
  Outcome(ResetsMfa(j, row) /\ mine, "mfa_reset", outcome,
    Outcome(SetsPassword(j) /\ j.op = "update" /\ mine, "password_reset", outcome,
      Outcome(SetsPassword(j) /\ j.op = "password" /\ mine, "password_change", outcome,
        Outcome(Restores(j, row) /\ mine, "restore", outcome,
          Outcome(Disables(j, row) /\ mine, "disable", outcome, value)))))

After(j, row, mine, outcome, value) ==
  CASE j.op = "create"     -> Outcome(mine, "create", outcome, value)
    [] j.op = "enableMfa"  -> Outcome(mine, "mfa_enable", outcome, value)
    [] j.op = "disableMfa" -> Outcome(mine, "mfa_disable", outcome, value)
    [] OTHER               -> AfterUpdate(j, row, mine, outcome, value)

LEMMA ReplayEvents ==
  ASSUME NEW trail \in Trail, NEW u \in User, NEW j \in Job, NEW row \in Row,
         NEW outcome, NEW value, NEW initial,
         Replays(trail, u, outcome, value, initial)
  PROVE  Replays(trail \o Events(j, row), u, outcome,
                 After(j, row, u = j.target, outcome, value), initial)
<1> DEFINE v == j.target
           mine == u = v
<1>0. v \in User
  BY DEF Job
<1>1. ASSUME j.op \in {"create", "enableMfa", "disableMfa"}
      PROVE  Replays(trail \o Events(j, row), u, outcome, After(j, row, mine, outcome, value), initial)
  <2>1. ASSUME NEW event \in EventType, Events(j, row) = << <<event, v>> >>,
               After(j, row, mine, outcome, value) = Outcome(mine, event, outcome, value)
        PROVE  Replays(trail \o Events(j, row), u, outcome,
                       After(j, row, mine, outcome, value), initial)
    <3>1. /\ Recorded(TRUE, event, v) = << <<event, v>> >>
          /\ Outcome(TRUE /\ u = v, event, outcome, value) = Outcome(mine, event, outcome, value)
      BY DEF Recorded, Outcome
    <3>2. Replays(trail \o Recorded(TRUE, event, v), u, outcome,
                  Outcome(TRUE /\ u = v, event, outcome, value), initial)
      BY <1>0, ReplayOne
    <3> QED BY <2>1, <3>1, <3>2
  <2>2. CASE j.op = "create"
    BY <2>1, <2>2 DEF Events, After, EventType
  <2>3. CASE j.op = "enableMfa"
    BY <2>1, <2>3 DEF Events, After, EventType
  <2>4. CASE j.op = "disableMfa"
    BY <2>1, <2>4 DEF Events, After, EventType
  <2> QED BY <1>1, <2>2, <2>3, <2>4
<1>2. ASSUME j.op \notin {"create", "enableMfa", "disableMfa"}
      PROVE  Replays(trail \o Events(j, row), u, outcome, After(j, row, mine, outcome, value), initial)
  <2> DEFINE
        c1 == Disables(j, row)
        c2 == Restores(j, row)
        c3 == SetsPassword(j) /\ j.op = "password"
        c4 == SetsPassword(j) /\ j.op = "update"
        c5 == ResetsMfa(j, row)
        e1 == Recorded(c1, "disable", v)
        e2 == Recorded(c2, "restore", v)
        e3 == Recorded(c3, "password_change", v)
        e4 == Recorded(c4, "password_reset", v)
        e5 == Recorded(c5, "mfa_reset", v)
        v1 == Outcome(c1 /\ mine, "disable", outcome, value)
        v2 == Outcome(c2 /\ mine, "restore", outcome, v1)
        v3 == Outcome(c3 /\ mine, "password_change", outcome, v2)
        v4 == Outcome(c4 /\ mine, "password_reset", outcome, v3)
        v5 == Outcome(c5 /\ mine, "mfa_reset", outcome, v4)
  <2>0. c1 \in BOOLEAN /\ c2 \in BOOLEAN /\ c3 \in BOOLEAN /\ c4 \in BOOLEAN /\ c5 \in BOOLEAN
    BY DEF Disables, Restores, SetsPassword, ResetsMfa, Row
  <2>1. Events(j, row) = e1 \o e2 \o e3 \o e4 \o e5
    BY <1>2 DEF Events, Recorded
  <2>2. After(j, row, mine, outcome, value) = v5
    BY <1>2 DEF After, AfterUpdate
  <2> HIDE DEF c1, c2, c3, c4, c5, v1, v2, v3, v4, v5, mine
  <2>3. trail \o e1 \in Trail /\ Replays(trail \o e1, u, outcome, v1, initial)
    BY <1>0, <2>0, ReplayOne DEF EventType, v1, mine
  <2>4. /\ (trail \o e1) \o e2 \in Trail
        /\ Replays((trail \o e1) \o e2, u, outcome, v2, initial)
    <3> HIDE DEF e1
    <3> QED BY <1>0, <2>0, <2>3, ReplayOne DEF EventType, v2, mine
  <2>5. /\ ((trail \o e1) \o e2) \o e3 \in Trail
        /\ Replays(((trail \o e1) \o e2) \o e3, u, outcome, v3, initial)
    <3> HIDE DEF e1, e2
    <3> QED BY <1>0, <2>0, <2>4, ReplayOne DEF EventType, v3, mine
  <2>6. /\ (((trail \o e1) \o e2) \o e3) \o e4 \in Trail
        /\ Replays((((trail \o e1) \o e2) \o e3) \o e4, u, outcome, v4, initial)
    <3> HIDE DEF e1, e2, e3
    <3> QED BY <1>0, <2>0, <2>5, ReplayOne DEF EventType, v4, mine
  <2>7. Replays(((((trail \o e1) \o e2) \o e3) \o e4) \o e5, u, outcome, v5, initial)
    <3> HIDE DEF e1, e2, e3, e4
    <3> QED BY <1>0, <2>0, <2>6, ReplayOne DEF EventType, v5, mine
  <2>8. e1 \in Trail /\ e2 \in Trail /\ e3 \in Trail /\ e4 \in Trail /\ e5 \in Trail
    <3>1. ASSUME NEW given \in BOOLEAN, NEW event \in EventType
          PROVE  Recorded(given, event, v) \in Trail
      <4>1. << <<event, v>> >> \in Trail /\ << >> \in Trail
        BY <1>0 DEF Trail
      <4> QED BY <4>1 DEF Recorded
    <3> QED BY <2>0, <3>1 DEF EventType
  <2> HIDE DEF e1, e2, e3, e4, e5
  <2>9. ((((trail \o e1) \o e2) \o e3) \o e4) \o e5
           = trail \o ((((e1 \o e2) \o e3) \o e4) \o e5)
    <3> DEFINE e12 == e1 \o e2
               e13 == e12 \o e3
               e14 == e13 \o e4
    <3>0. e12 \in Trail /\ e13 \in Trail /\ e14 \in Trail
      <4>1. \A x, y \in Trail : x \o y \in Trail
        BY DEF Trail
      <4> QED BY <2>8, <4>1
    <3>1. e12 = e1 \o e2 /\ e13 = e12 \o e3 /\ e14 = e13 \o e4
      OBVIOUS
    <3> HIDE DEF e12, e13, e14
    <3>2. ASSUME NEW x \in Trail, NEW y \in Trail, NEW z \in Trail
          PROVE  (x \o y) \o z = x \o (y \o z)
      BY ONLY ConcatAssociative, x \in Trail, y \in Trail, z \in Trail DEF Trail
    <3>3. (trail \o e1) \o e2 = trail \o (e1 \o e2)
      BY <2>8, <3>2
    <3>4. (trail \o e12) \o e3 = trail \o (e12 \o e3)
      <4>1. e12 \in Trail /\ e3 \in Trail
        BY <2>8, <3>0
      <4> QED BY ONLY <4>1, <3>2, trail \in Trail
    <3>5. (trail \o e13) \o e4 = trail \o (e13 \o e4)
      <4>1. e13 \in Trail /\ e4 \in Trail
        BY <2>8, <3>0
      <4> QED BY ONLY <4>1, <3>2, trail \in Trail
    <3>6. (trail \o e14) \o e5 = trail \o (e14 \o e5)
      <4>1. e14 \in Trail /\ e5 \in Trail
        BY <2>8, <3>0
      <4> QED BY ONLY <4>1, <3>2, trail \in Trail
    <3> QED BY <3>1, <3>3, <3>4, <3>5, <3>6
  <2> QED BY <2>1, <2>2, <2>7, <2>9
<1> QED BY <1>1, <1>2

\* The fields the trail explains, and what each event makes of them.
StatusOutcome == [create |-> "active", restore |-> "active", disable |-> "disabled"]
MfaOutcome == [create |-> FALSE, mfa_enable |-> TRUE, mfa_disable |-> FALSE,
               mfa_reset |-> FALSE]
MustChangeOutcome == [create |-> TRUE, password_reset |-> TRUE, password_change |-> FALSE]

LEMMA AfterIsNextRow ==
  ASSUME NEW j \in Job, NEW row \in Row, RowAllows(j, row)
  PROVE  /\ After(j, row, TRUE, StatusOutcome, row.status) = NextRow(j, row).status
         /\ After(j, row, TRUE, MfaOutcome, row.mfa) = NextRow(j, row).mfa
         /\ After(j, row, TRUE, MustChangeOutcome, row.mustChange) = NextRow(j, row).mustChange
<1>0. /\ DOMAIN StatusOutcome = {"create", "restore", "disable"}
      /\ DOMAIN MfaOutcome = {"create", "mfa_enable", "mfa_disable", "mfa_reset"}
      /\ DOMAIN MustChangeOutcome = {"create", "password_reset", "password_change"}
  BY DEF StatusOutcome, MfaOutcome, MustChangeOutcome
<1>1. CASE j.op = "create"
  BY <1>0, <1>1 DEF After, Outcome, NextRow, StatusOutcome, MfaOutcome, MustChangeOutcome
<1>2. CASE j.op = "enableMfa"
  <2>1. After(j, row, TRUE, StatusOutcome, row.status) = NextRow(j, row).status
    BY <1>0, <1>2 DEF After, Outcome, NextRow, StatusOutcome, Row, Disables, Restores
  <2>2. After(j, row, TRUE, MfaOutcome, row.mfa) = NextRow(j, row).mfa
    <3>1. NextRow(j, row).mfa /\ MfaOutcome["mfa_enable"]
      <4>1. NextRow(j, row).mfa
        <5>1. NextRow(j, row).mfa = CASE j.op = "enableMfa" -> TRUE
                 [] j.op = "disableMfa" \/ ResetsMfa(j, row) -> FALSE
                 [] OTHER -> row.mfa
          BY <1>2 DEF NextRow, Row
        <5>2. (CASE j.op = "enableMfa" -> TRUE
                 [] j.op = "disableMfa" \/ ResetsMfa(j, row) -> FALSE
                 [] OTHER -> row.mfa) = TRUE
          BY <1>2 DEF ResetsMfa
        <5> QED BY <5>1, <5>2
      <4>2. MfaOutcome.mfa_enable
        BY DEF MfaOutcome
      <4> QED BY <4>1, <4>2
    <3>2. After(j, row, TRUE, MfaOutcome, row.mfa) = MfaOutcome["mfa_enable"]
      BY <1>0, <1>2 DEF After, Outcome
    <3> QED BY <3>1, <3>2
  <2>3. After(j, row, TRUE, MustChangeOutcome, row.mustChange) = NextRow(j, row).mustChange
    BY <1>0, <1>2 DEF After, Outcome, NextRow, MustChangeOutcome, Row, SetsPassword
  <2> QED BY <2>1, <2>2, <2>3
<1>3. CASE j.op = "disableMfa"
  <2>1. After(j, row, TRUE, StatusOutcome, row.status) = NextRow(j, row).status
    BY <1>0, <1>3 DEF After, Outcome, NextRow, StatusOutcome, Row, Disables, Restores
  <2>2. After(j, row, TRUE, MfaOutcome, row.mfa) = NextRow(j, row).mfa
    BY <1>0, <1>3 DEF After, Outcome, NextRow, MfaOutcome, Row
  <2>3. After(j, row, TRUE, MustChangeOutcome, row.mustChange) = NextRow(j, row).mustChange
    BY <1>0, <1>3 DEF After, Outcome, NextRow, MustChangeOutcome, Row, SetsPassword
  <2> QED BY <2>1, <2>2, <2>3
<1>4. CASE j.op \in {"update", "password"}
  <2>1. After(j, row, TRUE, StatusOutcome, row.status) = NextRow(j, row).status
    BY <1>0, <1>4 DEF After, AfterUpdate, Outcome, NextRow, StatusOutcome, Row, Disables, Restores
  <2>2. After(j, row, TRUE, MfaOutcome, row.mfa) = NextRow(j, row).mfa
    BY <1>0, <1>4 DEF After, AfterUpdate, Outcome, NextRow, MfaOutcome, Row
  <2>3. After(j, row, TRUE, MustChangeOutcome, row.mustChange) = NextRow(j, row).mustChange
    BY <1>0, <1>4 DEF After, AfterUpdate, Outcome, NextRow, MustChangeOutcome, Row
  <2> QED BY <2>1, <2>2, <2>3
<1> QED BY <1>1, <1>2, <1>3, <1>4 DEF RowAllows

LEMMA AfterElsewhere ==
  ASSUME NEW j, NEW row, NEW outcome, NEW value
  PROVE  After(j, row, FALSE, outcome, value) = value
BY DEF After, AfterUpdate, Outcome

EInv ==
  \A u \in User :
    /\ Replays(audit, u, StatusOutcome, users[u].status, InitialUsers[u].status)
    /\ Replays(audit, u, MfaOutcome, users[u].mfa, InitialUsers[u].mfa)
    /\ Replays(audit, u, MustChangeOutcome, users[u].mustChange, InitialUsers[u].mustChange)

LEMMA InitEInv == Init => EInv
<1> SUFFICES ASSUME Init PROVE EInv
  OBVIOUS
<1>1. \A u, outcome : Concerning(audit, u, outcome) = {}
  BY DEF Init, Concerning
<1> QED BY <1>1 DEF Init, EInv, Replays

LEMMA StepEInv == IInv /\ EInv /\ [Next]_vars => EInv'
<1> SUFFICES ASSUME IInv, EInv, [Next]_vars PROVE EInv'
  OBVIOUS
<1>1. CASE UNCHANGED <<users, audit>>
  BY <1>1 DEF EInv, Replays, Concerning
<1>2. ASSUME NEW r \in Request, CommitUser(r) PROVE EInv'
  <2> DEFINE j == job[r]
             row == users[j.target]
  <2>1. /\ j \in Job /\ j.target \in User /\ row \in Row /\ audit \in Trail
        /\ users \in [User -> Row]
    BY DEF IInv, TypeOK, Job, Trail
  <2>2. /\ seen[r].row = row /\ RowAllows(j, row)
        /\ users' = [users EXCEPT ![j.target] = NextRow(j, row)]
    BY <1>2, CommitEffect
  <2>3. audit' = audit \o Events(j, row)
    BY <1>2, <2>2 DEF CommitUser
  <2> HIDE DEF j, row
  <2>4. ASSUME NEW u \in User, NEW outcome, NEW value, NEW initial,
               Replays(audit, u, outcome, value, initial)
        PROVE  Replays(audit', u, outcome, After(j, row, u = j.target, outcome, value), initial)
    BY <2>1, <2>3, <2>4, ReplayEvents
  <2>5. ASSUME NEW u \in User
        PROVE  /\ Replays(audit', u, StatusOutcome, users'[u].status, InitialUsers[u].status)
               /\ Replays(audit', u, MfaOutcome, users'[u].mfa, InitialUsers[u].mfa)
               /\ Replays(audit', u, MustChangeOutcome, users'[u].mustChange,
                          InitialUsers[u].mustChange)
    <3>1. /\ After(j, row, u = j.target, StatusOutcome, users[u].status) = users'[u].status
          /\ After(j, row, u = j.target, MfaOutcome, users[u].mfa) = users'[u].mfa
          /\ After(j, row, u = j.target, MustChangeOutcome, users[u].mustChange)
               = users'[u].mustChange
      <4>1. CASE u = j.target
        <5>1. users[u] = row /\ users'[u] = NextRow(j, row) /\ (u = j.target) = TRUE
          BY <2>1, <2>2, <4>1 DEF row
        <5> QED BY <2>1, <2>2, <5>1, AfterIsNextRow
      <4>2. CASE u # j.target
        <5>1. users'[u] = users[u] /\ (u = j.target) = FALSE
          BY <2>1, <2>2, <4>2
        <5>2. \A outcome, value : After(j, row, FALSE, outcome, value) = value
          BY AfterElsewhere
        <5> QED BY <5>1, <5>2
      <4> QED BY <4>1, <4>2
    <3> QED BY <2>4, <3>1 DEF EInv
  <2> QED BY <2>5 DEF EInv, Replays, Concerning
<1>3. ASSUME NEW r \in Request,
             Submit(r) \/ Refuse(r) \/ VerifyPassword(r) \/ StampLogin(r) \/ VerifyCode(r)
               \/ LockUsersTable(r) \/ LockUserRow(r) \/ WriteUser(r) \/ AppendAudit(r) \/ Reload(r)
      PROVE  UNCHANGED <<users, audit>>
  BY <1>3 DEF Submit, StartLogin, StartPasswordChange, StartMfaChange, StartUpdate, StartCreate,
     Start, Refuse, VerifyPassword, StampLogin, VerifyCode, LockUsersTable, LockUserRow,
     WriteUser, AppendAudit, Reload
<1> QED BY <1>1, <1>2, <1>3 DEF Next, Proceed, Abort, BreakDeadlock, vars

\* The last event concerning a field gives its value.
LEMMA ReplayedByLastEvent ==
  ASSUME audit \in Trail, NEW u, NEW outcome, NEW value, NEW initial,
         "none" \notin DOMAIN outcome, Replays(audit, u, outcome, value, initial)
  PROVE  LET event == LastEvent(u, DOMAIN outcome) IN
         value = IF event = "none" THEN initial ELSE outcome[event]
<1> DEFINE at == {n \in DOMAIN audit : audit[n][2] = u /\ audit[n][1] \in DOMAIN outcome}
<1>1. at = Concerning(audit, u, outcome) /\ at \in SUBSET Nat
  BY DEF Concerning, Trail
<1>2. CASE at = {} /\ value = initial
  BY <1>2 DEF LastEvent
<1>3. ASSUME NEW n \in at, \A m \in at : m <= n, value = outcome[audit[n][1]]
      PROVE  LET event == LastEvent(u, DOMAIN outcome) IN
             value = IF event = "none" THEN initial ELSE outcome[event]
  <2>1. (CHOOSE k \in at : \A m \in at : m <= k) = n
    <3> HIDE DEF at
    <3>1. \A k \in at : (\A m \in at : m <= k) => k = n
      BY <1>1, <1>3
    <3> QED BY <1>3, <3>1
  <2>2. LastEvent(u, DOMAIN outcome) = audit[n][1]
    BY <1>3, <2>1 DEF LastEvent
  <2> QED BY <1>3, <2>2
<1> QED BY <1>1, <1>2, <1>3 DEF Replays

(***************************************************************************)
(* The audit trail explains the accounts: replayed in order, the events of *)
(* an account give its enabled state, its second factor and whether its    *)
(* password is temporary, whatever changes interleave, combine or fail.    *)
(***************************************************************************)
THEOREM AuditTrailExplainsAccounts == Spec => []AuditExplainsAccounts
<1>1. TypeOK /\ EInv => AuditExplainsAccounts
  <2> SUFFICES ASSUME TypeOK, EInv, NEW u \in User
               PROVE  LET Replayed(events, value, initial) ==
                            LET event == LastEvent(u, DOMAIN events) IN
                            value = IF event = "none" THEN initial ELSE events[event]
                      IN /\ Replayed(StatusOutcome, users[u].status, InitialUsers[u].status)
                         /\ Replayed(MfaOutcome, users[u].mfa, InitialUsers[u].mfa)
                         /\ Replayed(MustChangeOutcome, users[u].mustChange,
                                     InitialUsers[u].mustChange)
    BY DEF AuditExplainsAccounts, StatusOutcome, MfaOutcome, MustChangeOutcome
  <2>1. /\ "none" \notin DOMAIN StatusOutcome /\ "none" \notin DOMAIN MfaOutcome
        /\ "none" \notin DOMAIN MustChangeOutcome
    BY DEF StatusOutcome, MfaOutcome, MustChangeOutcome
  <2>2. audit \in Trail
    BY DEF TypeOK, Trail
  <2> QED BY <2>1, <2>2, ReplayedByLastEvent DEF EInv
<1>2. IInv /\ EInv /\ [Next]_vars => EInv'
  BY StepEInv
<1>3. IInv => TypeOK
  BY DEF IInv
<1> QED BY <1>1, <1>2, <1>3, InitIInv, StepIInv, InitEInv, PTL DEF Spec
=============================================================================
