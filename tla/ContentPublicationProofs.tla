---------------------- MODULE ContentPublicationProofs ----------------------
(***************************************************************************)
(* For every set of accounts, requests and patches: the types, the chain   *)
(* of history, the approval of public content, and what the audit trail    *)
(* tells of it.                                                            *)
(***************************************************************************)
EXTENDS ContentPublication, TLAPS

-----------------------------------------------------------------------------
(* The inductive invariant *)

\* A request that has read the row holds its lock, and the row is what it read.
LocksHeld ==
  \A r \in Request : pc[r] = "write" =>
    /\ seen[r] = content
    /\ \A q \in Request : pc[q] = "write" => q = r

\* What the handler has established of a submitted request.
JobsPermitted ==
  \A r \in Request : pc[r] \in {"lock", "write"} =>
    /\ job[r] \in Job
    /\ job[r].restores \in DOMAIN history \cup {0}
    /\ job[r].approver \in Privileged \cup {Same}
    /\ job[r].patch.published # Same /\ job[r].patch.published => job[r].approver # Same

\* Every version a rollback may restore.
VersionsApproved == \A n \in DOMAIN history : Approved(history[n].previous)

IInv == /\ TypeOK /\ LocksHeld /\ JobsPermitted
        /\ HistoryIsConnected
        /\ PublicContentIsApproved /\ VersionsApproved

-----------------------------------------------------------------------------
(* The snapshots a transaction builds *)

LEMMA PatchedType ==
  ASSUME NEW row \in Content, NEW j \in Job
  PROVE  TypeOK => Patched(row, j) \in Content
<1> SUFFICES ASSUME TypeOK PROVE Patched(row, j) \in Content
  OBVIOUS
<1>1. j.patch \in Patch /\ j.approver \in Actor \cup {Same}
  BY DEF Job
<1>2. /\ Given(j.patch.published, row.published) \in BOOLEAN
      /\ Given(j.patch.blocker, row.blocker) \in BOOLEAN
      /\ Given(j.patch.note, row.note) \in BOOLEAN
      /\ Given(j.patch.summary, row.summary) \in Text
      /\ Given(j.approver, row.approvedBy) \in Actor \cup {Seeder, Nobody}
  BY <1>1 DEF Given, Patch, Content
<1>3. Now \in Nat
  BY DEF TypeOK, Now
<1>4. j.patch.status # Same => j.patch.status \in Status
  BY <1>1 DEF Patch
<1> QED BY <1>2, <1>3, <1>4 DEF Patched, Content, Status

LEMMA RestoredType ==
  ASSUME TypeOK, NEW j \in Job, j.restores \in DOMAIN history
  PROVE  Restored(j) \in Content
<1>1. history[j.restores] \in Snapshots
  BY DEF TypeOK
<1>2. history[j.restores].previous \in Content
  BY <1>1 DEF Snapshots
<1> QED BY <1>2 DEF Restored, Content

LEMMA NextContentType ==
  ASSUME TypeOK, NEW row \in Content, NEW j \in Job, j.restores \in DOMAIN history \cup {0}
  PROVE  NextContent(row, j) \in Content
BY PatchedType, RestoredType DEF NextContent

LEMMA NextContentApproved ==
  ASSUME TypeOK, VersionsApproved, NEW row \in Content, NEW j \in Job, Approved(row),
         j.restores \in DOMAIN history \cup {0},
         j.approver \in Privileged \cup {Same},
         j.patch.published # Same /\ j.patch.published => j.approver # Same,
         Valid(NextContent(row, j))
  PROVE  Approved(NextContent(row, j))
<1> DEFINE next == NextContent(row, j)
<1> SUFFICES ASSUME next.published PROVE next.approvedBy \in Privileged \cup {Seeder}
  BY DEF Approved, Valid
<1>1. CASE j.restores = 0
  <2>1. next = Patched(row, j)
    BY <1>1 DEF NextContent
  <2>2. Given(j.patch.published, row.published)
    BY <2>1 DEF Patched
  <2>3. next.approvedBy = Given(j.approver, row.approvedBy)
    BY <2>1, <2>2 DEF Patched
  <2>4. CASE j.approver # Same
    BY <2>3, <2>4 DEF Given
  <2>5. CASE j.approver = Same
    <3>1. row.published
      BY <2>2, <2>5 DEF Given
    <3> QED BY <3>1, <2>3, <2>5 DEF Given, Approved
  <2> QED BY <2>4, <2>5
<1>2. CASE j.restores # 0
  <2>1. next = Restored(j) /\ j.restores \in DOMAIN history
    BY <1>2 DEF NextContent
  <2>2. history[j.restores].previous \in Content
    <3>1. history[j.restores] \in Snapshots
      BY <2>1 DEF TypeOK
    <3> QED BY <3>1 DEF Snapshots
  <2>3. history[j.restores].previous.published
    BY <2>1, <2>2 DEF Restored, Content
  <2> QED BY <2>1, <2>3 DEF Restored, VersionsApproved, Approved
<1> QED BY <1>1, <1>2

LEMMA EventsOfType ==
  ASSUME NEW row, NEW next, NEW j \in Job
  PROVE  EventsOf(row, next, j) \in Seq(Event)
<1>1. j.restores \in Nat
  BY DEF Job
<1>2. \A type \in {"content_publish", "content_unpublish", "content_rollback"}, n \in Nat :
        << [type |-> type, restores |-> n] >> \in Seq(Event)
  BY DEF Event
<1> QED BY <1>1, <1>2 DEF EventsOf

-----------------------------------------------------------------------------
(* What a handler passes on *)

LEMMA PatchJob ==
  ASSUME TypeOK, NEW actor \in Actor, NEW patch \in Patches, Permits(actor, content, patch),
         NEW j, j = [actor |-> actor, patch |-> patch, restores |-> 0,
                     approver |-> IF MutatesLive(content, patch) THEN actor ELSE Same]
  PROVE  /\ j \in Job
         /\ j.approver \in Privileged \cup {Same}
         /\ j.patch.published # Same /\ j.patch.published => j.approver # Same
<1>1. patch \in Patch
  BY PatchesAssumption
<1>2. MutatesLive(content, patch) => actor \in Privileged
  BY ActorAssumption DEF Permits, MutatesLive, ControlsPublication, Privileged
<1>3. patch.published # Same /\ patch.published => patch.published = TRUE
  BY <1>1 DEF Patch
<1>4. actor # Same
  BY ActorAssumption
<1> QED BY <1>1, <1>2, <1>3, <1>4 DEF Job, MutatesLive

LEMMA RollbackJob ==
  ASSUME TypeOK, NEW actor \in Privileged, NEW h \in DOMAIN history,
         NEW j, j = [actor |-> actor, patch |-> NoChange, approver |-> Same, restores |-> h]
  PROVE  /\ j \in Job /\ j.restores = h
         /\ j.approver = Same /\ j.patch.published = Same
<1>1. h \in Nat
  BY DEF TypeOK
<1>2. NoChange \in Patch
  BY DEF NoChange, Patch
<1> QED BY <1>1, <1>2, ActorAssumption DEF Job, Privileged, NoChange

-----------------------------------------------------------------------------
(* The steps *)

LEMMA InitIInv == Init => IInv
<1> SUFFICES ASSUME Init PROVE IInv
  OBVIOUS
<1>1. TypeOK
  BY InitialContentAssumption DEF Init, TypeOK
<1>2. PublicContentIsApproved
  BY InitialContentAssumption DEF Init, PublicContentIsApproved, Approved, Valid
<1>3. LocksHeld /\ JobsPermitted /\ VersionsApproved /\ HistoryIsConnected
  BY DEF Init, LocksHeld, JobsPermitted, VersionsApproved, HistoryIsConnected
<1> QED BY <1>1, <1>2, <1>3 DEF IInv

LEMMA SubmitIInv ==
  ASSUME IInv, NEW r \in Request, NEW j \in Job, Submit(r, j),
         j.restores \in DOMAIN history \cup {0},
         j.approver \in Privileged \cup {Same},
         j.patch.published # Same /\ j.patch.published => j.approver # Same
  PROVE  IInv'
<1> USE DEF IInv, Submit
<1>1. TypeOK'
  BY DEF TypeOK
<1>2. LocksHeld'
  BY DEF TypeOK, LocksHeld
<1>3. JobsPermitted'
  BY DEF TypeOK, JobsPermitted
<1>4. HistoryIsConnected' /\ PublicContentIsApproved' /\ VersionsApproved'
  BY DEF HistoryIsConnected, PublicContentIsApproved, VersionsApproved
<1> QED BY <1>1, <1>2, <1>3, <1>4

LEMMA LockIInv ==
  ASSUME IInv, NEW r \in Request, LockContentRow(r)
  PROVE  IInv'
<1> USE DEF IInv, LockContentRow
<1>1. TypeOK'
  BY DEF TypeOK
<1>2. LocksHeld'
  BY DEF TypeOK, LocksHeld, LockOwners
<1>3. JobsPermitted'
  BY DEF TypeOK, JobsPermitted
<1>4. HistoryIsConnected' /\ PublicContentIsApproved' /\ VersionsApproved'
  BY DEF HistoryIsConnected, PublicContentIsApproved, VersionsApproved
<1> QED BY <1>1, <1>2, <1>3, <1>4

LEMMA RefuseIInv ==
  ASSUME IInv, NEW r \in Request, Refuse(r)
  PROVE  IInv'
<1> USE DEF IInv, Refuse
<1>1. TypeOK'
  BY DEF TypeOK
<1>2. LocksHeld' /\ JobsPermitted'
  BY DEF TypeOK, LocksHeld, JobsPermitted
<1>3. HistoryIsConnected' /\ PublicContentIsApproved' /\ VersionsApproved'
  BY DEF HistoryIsConnected, PublicContentIsApproved, VersionsApproved
<1> QED BY <1>1, <1>2, <1>3

LEMMA WriteIInv ==
  ASSUME IInv, NEW r \in Request, WriteContent(r)
  PROVE  IInv'
<1> DEFINE j == job[r]
           next == NextContent(seen[r], j)
           change == [previous |-> seen[r], next |-> next]
<1>1. /\ pc[r] = "write" /\ pc' = [pc EXCEPT ![r] = "done"]
      /\ UNCHANGED <<job, seen>>
  BY DEF WriteContent
<1>2. /\ j \in Job /\ j.restores \in DOMAIN history \cup {0}
      /\ j.approver \in Privileged \cup {Same}
      /\ j.patch.published # Same /\ j.patch.published => j.approver # Same
  BY <1>1 DEF IInv, JobsPermitted
<1>3. seen[r] = content /\ \A q \in Request : pc[q] = "write" => q = r
  BY <1>1 DEF IInv, LocksHeld
<1>4. CASE Valid(next) /\ next # seen[r]
  <2>1. /\ content' = next /\ history' = Append(history, change)
        /\ audit' = audit \o EventsOf(seen[r], next, j)
    BY <1>4 DEF WriteContent
  <2>2. next \in Content
    BY <1>2, NextContentType DEF IInv, TypeOK
  <2>3. history \in Seq(Snapshots) /\ change \in Snapshots
    BY <2>2 DEF IInv, TypeOK, Snapshots
  <2>4. /\ Len(history') = Len(history) + 1 /\ history'[Len(history) + 1] = change
        /\ \A n \in 1 .. Len(history) : history'[n] = history[n]
        /\ DOMAIN history = 1 .. Len(history) /\ DOMAIN history' = 1 .. Len(history) + 1
        /\ Len(history) \in Nat
    BY <2>1, <2>3
  <2>5. Approved(next)
    BY <1>2, <1>3, <1>4, NextContentApproved DEF IInv, TypeOK, PublicContentIsApproved
  <2>6. TypeOK'
    <3>1. audit' \in Seq(Event)
      BY <1>2, <2>1, EventsOfType DEF IInv, TypeOK
    <3>2. history' \in Seq(Snapshots)
      BY <2>1, <2>3
    <3> QED BY <1>1, <2>1, <2>2, <3>1, <3>2 DEF IInv, TypeOK
  <2>7. LocksHeld'
    BY <1>1, <1>3 DEF IInv, TypeOK, LocksHeld
  <2>8. JobsPermitted'
    BY <1>1, <2>4 DEF IInv, TypeOK, JobsPermitted
  <2>9. HistoryIsConnected'
    <3>1. change.previous = IF history = << >> THEN InitialContent
                            ELSE history[Len(history)].next
      BY <1>3 DEF IInv, HistoryIsConnected
    <3>2. history = << >> <=> Len(history) = 0
      BY <2>3
    <3>3. ASSUME NEW n \in DOMAIN history'
          PROVE  history'[n].previous = IF n = 1 THEN InitialContent ELSE history'[n - 1].next
      <4>1. CASE n = Len(history) + 1
        BY <2>4, <3>1, <3>2, <4>1
      <4>2. CASE n \in 1 .. Len(history)
        BY <2>4, <4>2 DEF IInv, HistoryIsConnected
      <4> QED BY <2>4, <4>1, <4>2
    <3>4. content' = history'[Len(history')].next /\ history' # << >>
      BY <2>1, <2>3, <2>4
    <3> QED BY <3>3, <3>4 DEF HistoryIsConnected
  <2>10. PublicContentIsApproved'
    BY <2>1, <2>5 DEF PublicContentIsApproved
  <2>11. VersionsApproved'
    <3>1. Approved(change.previous)
      BY <1>3 DEF IInv, PublicContentIsApproved
    <3> QED BY <2>4, <3>1 DEF IInv, VersionsApproved
  <2> QED BY <2>6, <2>7, <2>8, <2>9, <2>10, <2>11 DEF IInv
<1>5. CASE ~(Valid(next) /\ next # seen[r])
  <2>1. Refuse(r)
    BY <1>1, <1>5 DEF WriteContent, Refuse
  <2> QED BY <2>1, RefuseIInv
<1> QED BY <1>4, <1>5

LEMMA NextIInv == IInv /\ [Next]_vars => IInv'
<1> SUFFICES ASSUME IInv, [Next]_vars PROVE IInv'
  OBVIOUS
<1>1. ASSUME NEW r \in Request, PatchContent(r) PROVE IInv'
  <2>1. PICK actor \in Actor, patch \in Patches :
          /\ Permits(actor, content, patch)
          /\ Submit(r, [actor |-> actor, patch |-> patch, restores |-> 0,
                        approver |-> IF MutatesLive(content, patch) THEN actor ELSE Same])
    BY <1>1 DEF PatchContent
  <2> QED BY <2>1, PatchJob, SubmitIInv DEF IInv
<1>2. ASSUME NEW r \in Request, RollbackContent(r) PROVE IInv'
  <2>1. PICK actor \in Privileged, h \in DOMAIN history :
          Submit(r, [actor |-> actor, patch |-> NoChange, approver |-> Same, restores |-> h])
    BY <1>2 DEF RollbackContent
  <2> QED BY <2>1, RollbackJob, SubmitIInv DEF IInv
<1>3. ASSUME NEW r \in Request, Abort(r) PROVE IInv'
  BY <1>3, RefuseIInv DEF Abort
<1>4. ASSUME UNCHANGED vars PROVE IInv'
  BY <1>4 DEF vars, IInv, TypeOK, LocksHeld, JobsPermitted, HistoryIsConnected,
              PublicContentIsApproved, VersionsApproved
<1> QED BY <1>1, <1>2, <1>3, <1>4, LockIInv, WriteIInv DEF Next

LEMMA Invariance == Spec => []IInv
<1> QED BY InitIInv, NextIInv, PTL DEF Spec

-----------------------------------------------------------------------------
(***************************************************************************)
(* Every variable has its type: what updateContent and rollbackContent     *)
(* write is a record, whatever patch or snapshot it is built from.         *)
(***************************************************************************)
THEOREM ContentTyped == Spec => []TypeOK
<1>1. IInv => TypeOK
  BY DEF IInv
<1> QED BY <1>1, Invariance, PTL

(***************************************************************************)
(* The versions of a record form one chain: FOR UPDATE keeps two           *)
(* transactions from starting from the same version.                       *)
(***************************************************************************)
THEOREM HistoryConnected == Spec => []HistoryIsConnected
<1>1. IInv => HistoryIsConnected
  BY DEF IInv
<1> QED BY <1>1, Invariance, PTL

(***************************************************************************)
(* Public content has the approval of an administrator with a second       *)
(* factor, an approval note and no blocker, whatever record the PATCH      *)
(* handler decided on and whichever version a rollback restores.           *)
(***************************************************************************)
THEOREM PublicContentApproved == Spec => []PublicContentIsApproved
<1>1. IInv => PublicContentIsApproved
  BY DEF IInv
<1> QED BY <1>1, Invariance, PTL
-----------------------------------------------------------------------------
(* The audit trail *)

\* The last event tells the truth, and what it restored stays in the history.
Explained ==
  /\ AuditExplainsPublication
  /\ audit # << >> /\ audit[Len(audit)].type = "content_rollback"
       => audit[Len(audit)].restores \in DOMAIN history

\* An appended history row leaves the explanation of an unchanged trail alone.
LEMMA ExplainedLater ==
  ASSUME TypeOK, Explained, audit' = audit, content'.published = content.published,
         Len(history') >= Len(history), DOMAIN history' = 1 .. Len(history'),
         \A n \in DOMAIN history : history'[n] = history[n]
  PROVE  Explained'
<1>1. audit # << >> => audit[Len(audit)] \in Event
  BY DEF TypeOK
<1>2. DOMAIN history \subseteq DOMAIN history'
  BY DEF TypeOK
<1> QED BY <1>1, <1>2 DEF Explained, AuditExplainsPublication, Event

LEMMA WriteExplained ==
  ASSUME IInv, Explained, NEW r \in Request, WriteContent(r)
  PROVE  Explained'
<1> DEFINE j == job[r]
           row == seen[r]
           next == NextContent(row, j)
           change == [previous |-> row, next |-> next]
           events == EventsOf(row, next, j)
<1>0. TypeOK
  BY DEF IInv
<1>1. CASE ~(Valid(next) /\ next # row)
  <2>1. UNCHANGED <<content, history, audit>>
    BY <1>1 DEF WriteContent
  <2> QED BY <1>0, <2>1, ExplainedLater DEF TypeOK
<1>2. CASE Valid(next) /\ next # row
  <2>1. pc[r] = "write" /\ content' = next /\ history' = Append(history, change)
        /\ audit' = audit \o events
    BY <1>2 DEF WriteContent
  <2>2. /\ j \in Job /\ j.restores \in DOMAIN history \cup {0} /\ row = content
        /\ row \in Content
    BY <1>0, <2>1 DEF IInv, JobsPermitted, LocksHeld, TypeOK
  <2>3. next \in Content
    BY <1>0, <2>2, NextContentType
  <2>4. history \in Seq(Snapshots) /\ change \in Snapshots /\ audit \in Seq(Event)
    BY <1>0, <2>2, <2>3 DEF TypeOK, Snapshots
  <2>5. /\ \A n \in 1 .. Len(history) : history'[n] = history[n]
        /\ DOMAIN history = 1 .. Len(history) /\ DOMAIN history' = 1 .. Len(history')
        /\ Len(history) \in Nat /\ Len(history') = Len(history) + 1
    BY <2>1, <2>4
  <2> HIDE DEF change
  <2>6. ASSUME NEW e \in Event, events = <<e>>
        PROVE  audit' # << >> /\ audit'[Len(audit')] = e
    BY <2>1, <2>4, <2>6
  <2>7. CASE j.restores # 0
    <3> DEFINE e == [type |-> "content_rollback", restores |-> j.restores]
    <3>1. e \in Event /\ events = <<e>>
      BY <2>2, <2>7 DEF EventsOf, Event, Job
    <3>2. audit' # << >> /\ audit'[Len(audit')] = e
      BY <2>6, <3>1
    <3>3. /\ j.restores \in 1 .. Len(history)
          /\ history'[j.restores] = history[j.restores]
          /\ j.restores \in DOMAIN history'
      BY <2>2, <2>5, <2>7
    <3>4. content'.published = history[j.restores].previous.published
      <4>1. history[j.restores] \in Snapshots
        BY <2>4, <3>3
      <4>2. history[j.restores].previous \in Content
        BY <4>1 DEF Snapshots
      <4>3. content' = Restored(j)
        BY <2>1, <2>7 DEF NextContent
      <4> QED BY <4>2, <4>3 DEF Restored, Content
    <3> QED BY <3>2, <3>3, <3>4 DEF Explained, AuditExplainsPublication
  <2>8. CASE j.restores = 0 /\ ApprovalOf(next) # ApprovalOf(row)
    <3> DEFINE e == [type |-> IF next.published THEN "content_publish" ELSE "content_unpublish",
                     restores |-> 0]
    <3>1. e \in Event /\ events = <<e>>
      BY <2>8 DEF EventsOf, Event
    <3>2. audit' # << >> /\ audit'[Len(audit')] = e
      BY <2>6, <3>1
    <3>3. next.published \in BOOLEAN
      BY <2>3 DEF Content
    <3> HIDE DEF next
    <3>4. CASE next.published
      <4>1. audit'[Len(audit')].type = "content_publish" /\ content'.published = TRUE
        BY <2>1, <3>2, <3>3, <3>4
      <4> QED BY <3>2, <4>1 DEF Explained, AuditExplainsPublication
    <3>5. CASE ~next.published
      <4>1. audit'[Len(audit')].type = "content_unpublish" /\ content'.published = FALSE
        BY <2>1, <3>2, <3>3, <3>5
      <4> QED BY <3>2, <4>1 DEF Explained, AuditExplainsPublication
    <3> QED BY <3>4, <3>5
  <2>9. CASE j.restores = 0 /\ ApprovalOf(next) = ApprovalOf(row)
    <3>1. events = << >>
      BY <2>9 DEF EventsOf
    <3>2. audit' = audit
      BY <2>1, <2>4, <3>1
    <3>3. content'.published = content.published
      BY <2>1, <2>2, <2>9 DEF ApprovalOf
    <3> QED BY <1>0, <2>5, <3>2, <3>3, ExplainedLater
  <2> QED BY <2>7, <2>8, <2>9
<1> QED BY <1>1, <1>2

LEMMA NextExplained == IInv /\ Explained /\ [Next]_vars => Explained'
<1> SUFFICES ASSUME IInv, Explained, [Next]_vars PROVE Explained'
  OBVIOUS
<1>1. CASE UNCHANGED <<content, history, audit>>
  BY <1>1, ExplainedLater DEF IInv, TypeOK
<1>2. ASSUME NEW r \in Request,
             PatchContent(r) \/ RollbackContent(r) \/ LockContentRow(r) \/ Abort(r)
      PROVE  UNCHANGED <<content, history, audit>>
  BY <1>2 DEF PatchContent, RollbackContent, Submit, LockContentRow, Abort, Refuse
<1> QED BY <1>1, <1>2, WriteExplained DEF Next, vars

(***************************************************************************)
(* The audit trail alone tells whether the record is public, whatever      *)
(* requests interleave, fail or are refused.                               *)
(***************************************************************************)
THEOREM AuditTrailExplainsPublication == Spec => []AuditExplainsPublication
<1>1. Init => Explained
  BY DEF Init, Explained, AuditExplainsPublication
<1>2. Explained => AuditExplainsPublication
  BY DEF Explained
<1>3. IInv /\ Explained /\ [Next]_vars => Explained'
  BY NextExplained
<1> QED BY <1>1, <1>2, <1>3, InitIInv, NextIInv, PTL DEF Spec
=============================================================================
