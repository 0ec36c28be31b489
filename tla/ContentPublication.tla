------------------------- MODULE ContentPublication -------------------------
(***************************************************************************)
(* One content record of the editorial workspace and the requests that     *)
(* change it: PATCH /api/admin/content/:id and its rollback.               *)
(*                                                                         *)
(* A PATCH handler first reads the record outside any transaction to       *)
(* decide what the actor may do; updateContent then reads it again, FOR    *)
(* UPDATE, and merges the patch into what it finds.  A rollback decides    *)
(* from the actor alone and restores the snapshot of a history row.        *)
(*                                                                         *)
(* Of a record's fields the model keeps those that publication depends on. *)
(* The statuses needs-sources and ready-to-publish behave like draft, and  *)
(* published_at is set and cleared with published.                         *)
(***************************************************************************)
EXTENDS Naturals, Sequences

CONSTANTS
  Actor,           \* the signed-in accounts
  Admins,          \* those with the role admin; the others are editors
  Verified,        \* those with a second factor
  Text,            \* public summaries
  Request,         \* the requests of a behaviour
  Patches,         \* bound: the patches they may carry
  InitialContent,  \* the record when the behaviour starts
  Seeder,          \* the approver named by seeded and migrated records
  Nobody, Same     \* no approver; a field the patch leaves out

VARIABLES
  content,   \* the committed row of admin_content
  history,   \* its committed rows of admin_content_history, in order
  audit,     \* its committed audit events, in order
  pc,        \* pc[r]: the next await of request r
  job,       \* job[r]: what request r asks for
  seen       \* seen[r]: the row r read FOR UPDATE

vars == <<content, history, audit, pc, job, seen>>

Status == {"draft", "in-review", "published"}

Content == [status : Status, published : BOOLEAN, blocker : BOOLEAN, summary : Text,
            approvedBy : Actor \cup {Seeder, Nobody},
            approvedAt : Nat,          \* 0 when there is no approval
            note : BOOLEAN]            \* publish_approval_note is present

Patch == [status : Status \cup {Same}, published : BOOLEAN \cup {Same},
          blocker : BOOLEAN \cup {Same}, summary : Text \cup {Same},
          note : BOOLEAN \cup {Same}]

\* What a handler passes on to the store.
Job == [actor : Actor, patch : Patch, approver : Actor \cup {Same},
        restores : Nat]                \* the history row to roll back; 0 for a PATCH

Event == [type : {"content_publish", "content_unpublish", "content_rollback"},
          restores : Nat]

\* validateContentSnapshotForPersistence, and the checks of updateContent.
Valid(row) ==
  /\ row.published <=> row.status = "published"
  /\ row.published => ~row.blocker /\ row.approvedBy # Nobody /\ row.note

ASSUME ActorAssumption ==
  /\ Admins \subseteq Actor /\ Verified \subseteq Actor
  /\ Seeder \notin Actor /\ Nobody \notin Actor \cup {Seeder}
  /\ Same \notin Actor \cup Text /\ Same \notin BOOLEAN

ASSUME InitialContentAssumption ==
  /\ InitialContent \in Content /\ Valid(InitialContent)
  /\ InitialContent.approvedBy \in {Seeder, Nobody}

ASSUME PatchesAssumption == Patches \subseteq Patch

Snapshots == [previous : Content, next : Content]

TypeOK ==
  /\ content \in Content
  /\ history \in Seq(Snapshots)
  /\ audit \in Seq(Event)
  /\ pc \in [Request -> {"new", "lock", "write", "done"}]
  /\ job \in [Request -> Job \cup {Nobody}]
  /\ seen \in [Request -> Content]

Init ==
  /\ content = InitialContent
  /\ history = << >>
  /\ audit = << >>
  /\ pc = [r \in Request |-> "new"]
  /\ job = [r \in Request |-> Nobody]
  /\ seen = [r \in Request |-> InitialContent]
-----------------------------------------------------------------------------
(****************************** The handlers ****************************)

Privileged == Admins \cap Verified

\* publicationControlRequested (a client that names an approver is refused)
ControlsPublication(patch) ==
  patch.published # Same \/ patch.status = "published" \/ patch.note # Same

\* liveContentMutationRequested
MutatesLive(row, patch) ==
  row.published \/ patch.published = TRUE \/ patch.status = "published"

\* Mutant: the second factor is not asked for.
PermitsAnyAdmin(actor, row, patch) ==
  actor \notin Admins => ~ControlsPublication(patch) /\ ~row.published

\* The 403 and 400 answers of the PATCH handler.
Permits(actor, row, patch) ==
  /\ actor \in Admins /\ MutatesLive(row, patch) => actor \in Verified
  /\ actor \notin Admins => ~ControlsPublication(patch) /\ ~row.published

Submit(r, j) ==
  /\ pc[r] = "new"
  /\ job' = [job EXCEPT ![r] = j]
  /\ pc' = [pc EXCEPT ![r] = "lock"]
  /\ UNCHANGED <<content, history, audit, seen>>

\* PATCH /content/:id: the decision is taken on the record as listContent
\* returns it now.
PatchContent(r) ==
  \E actor \in Actor, patch \in Patches :
    /\ Permits(actor, content, patch)
    /\ Submit(r, [actor |-> actor, patch |-> patch, restores |-> 0,
                  approver |-> IF MutatesLive(content, patch) THEN actor ELSE Same])

NoChange == [status |-> Same, published |-> Same, blocker |-> Same, summary |-> Same, note |-> Same]

\* POST /content/:id/rollback
RollbackContent(r) ==
  \E actor \in Privileged, h \in DOMAIN history :
    Submit(r, [actor |-> actor, patch |-> NoChange, approver |-> Same, restores |-> h])
-----------------------------------------------------------------------------
(****************************** The store *******************************)

\* Mutant: getContentRow does not lock the row.
LockOwnersNone == {}

LockOwners == {r \in Request : pc[r] = "write"}

\* getContentRow(id, client, true): SELECT ... FOR UPDATE
LockContentRow(r) ==
  /\ pc[r] = "lock"
  /\ LockOwners = {}
  /\ seen' = [seen EXCEPT ![r] = content]
  /\ pc' = [pc EXCEPT ![r] = "write"]
  /\ UNCHANGED <<content, history, audit, job>>

\* The transaction ends without effect: an error, a lost connection.
Refuse(r) ==
  /\ pc' = [pc EXCEPT ![r] = "done"]
  /\ UNCHANGED <<content, history, audit, job, seen>>

\* A field the patch leaves out keeps its value.
Given(field, current) == IF field = Same THEN current ELSE field

Now == Len(history) + 1

\* The snapshot updateContent builds from the row it read and the patch.
Patched(row, j) ==
  LET published == Given(j.patch.published, row.published)
      approver == IF published THEN Given(j.approver, row.approvedBy) ELSE Nobody
      approvalChanged == j.approver # Same \/ j.patch.note # Same
  IN [status |-> IF j.patch.status # Same THEN j.patch.status
                 ELSE IF published THEN "published"
                 ELSE IF row.status = "published" THEN "in-review" ELSE row.status,
      published |-> published,
      blocker |-> Given(j.patch.blocker, row.blocker),
      summary |-> Given(j.patch.summary, row.summary),
      approvedBy |-> approver,
      approvedAt |-> IF approver = Nobody THEN 0
                     ELSE IF approvalChanged \/ row.approvedAt = 0 THEN Now ELSE row.approvedAt,
      note |-> published /\ Given(j.patch.note, row.note)]

\* snapshotToContentUpdateValues of the snapshot before that change
Restored(j) ==
  LET snapshot == history[j.restores].previous IN
  IF snapshot.published THEN snapshot
  ELSE [snapshot EXCEPT !.approvedBy = Nobody, !.approvedAt = 0, !.note = FALSE]

NextContent(row, j) == IF j.restores = 0 THEN Patched(row, j) ELSE Restored(j)

ApprovalOf(row) == <<row.published, row.approvedBy, row.approvedAt, row.note>>

\* Mutant: only the first publication is recorded.
EventsOfFirst(row, next, j) ==
  IF j.restores # 0 THEN << [type |-> "content_rollback", restores |-> j.restores] >>
  ELSE IF next.published /\ ~row.published
  THEN << [type |-> "content_publish", restores |-> 0] >>
  ELSE << >>

\* The audit event of a transaction, if it has one.
EventsOf(row, next, j) ==
  IF j.restores # 0 THEN << [type |-> "content_rollback", restores |-> j.restores] >>
  ELSE IF ApprovalOf(next) # ApprovalOf(row)
  THEN << [type |-> IF next.published THEN "content_publish" ELSE "content_unpublish",
           restores |-> 0] >>
  ELSE << >>

\* updateContent, rollbackContent: UPDATE, history, audit and COMMIT.
WriteContent(r) ==
  LET j == job[r]
      row == seen[r]
      next == NextContent(row, j) IN
  /\ pc[r] = "write"
  /\ pc' = [pc EXCEPT ![r] = "done"]
  /\ IF Valid(next) /\ next # row
     THEN /\ content' = next
          /\ history' = Append(history, [previous |-> row, next |-> next])
          /\ audit' = audit \o EventsOf(row, next, j)
     ELSE UNCHANGED <<content, history, audit>>
  /\ UNCHANGED <<job, seen>>

Abort(r) == pc[r] \in {"lock", "write"} /\ Refuse(r)

Next == \E r \in Request :
          \/ PatchContent(r) \/ RollbackContent(r)
          \/ LockContentRow(r) \/ WriteContent(r) \/ Abort(r)

Spec == Init /\ [][Next]_vars
-----------------------------------------------------------------------------
(******************************* Properties *****************************)

(***************************************************************************)
(* The history is one chain from the seeded record to the present one:     *)
(* every change starts from what the change before it left, so no change   *)
(* is lost and every version can be restored.                              *)
(***************************************************************************)
HistoryIsConnected ==
  /\ \A n \in DOMAIN history :
       history[n].previous = IF n = 1 THEN InitialContent ELSE history[n - 1].next
  /\ content = IF history = << >> THEN InitialContent ELSE history[Len(history)].next

Approved(row) ==
  row.published => /\ row.approvedBy \in Privileged \cup {Seeder}
                   /\ row.note /\ ~row.blocker

(***************************************************************************)
(* A record is public only with the approval of an administrator who has a *)
(* second factor (or of the seed), an approval note and no blocker, also   *)
(* after rollbacks and whatever requests were decided on an older record.  *)
(***************************************************************************)
PublicContentIsApproved == Approved(content)

(***************************************************************************)
(* The audit trail alone tells whether the record is public: the last      *)
(* event says published, unpublished, or which version was restored.       *)
(***************************************************************************)
AuditExplainsPublication ==
  content.published =
    IF audit = << >> THEN InitialContent.published
    ELSE LET last == audit[Len(audit)] IN
         CASE last.type = "content_publish"   -> TRUE
           [] last.type = "content_unpublish" -> FALSE
           [] last.type = "content_rollback"  -> history[last.restores].previous.published

(***************************************************************************)
(* docs/security-audit.md: "Publish, unpublish, roll back, or modify live  *)
(* content" is denied to editors and to administrators without MFA.        *)
(***************************************************************************)
LiveChangesArePrivileged ==
  [][content.published /\ content' # content
       => \E r \in Request : /\ pc[r] = "write" /\ pc'[r] = "done"
                             /\ job[r].actor \in Privileged]_vars
=============================================================================
