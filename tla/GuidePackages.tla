---------------------------- MODULE GuidePackages ----------------------------
(***************************************************************************)
(* The guide package of one election and the requests that draft, review,  *)
(* publish and unpublish it.                                               *)
(*                                                                         *)
(* A handler reads the row (getGuidePackage), then the content records the *)
(* diagnostics are computed from (listContent), decides, and hands a patch *)
(* to updateGuidePackage, which reads the row again, FOR UPDATE, merges    *)
(* the patch into it and validates the result.                             *)
(*                                                                         *)
(* The model keeps the fields the workflow depends on.  Notes and times    *)
(* are present or absent; publish_with_warnings behaves like publish and   *)
(* do_not_publish like needs_revision.                                     *)
(***************************************************************************)
EXTENDS Naturals, Sequences

CONSTANTS
  Actor,            \* the signed-in accounts
  Privileged,       \* the administrators with a second factor
  Request,          \* the requests of a behaviour
  Reviews,          \* bound: the bodies of PATCH requests
  InitialPackages,  \* bound: the row, or its absence, when the behaviour starts
  Importer,         \* the reviewer named by an imported snapshot
  Nobody, NoPackage, Same

VARIABLES
  package,      \* the committed row, or NoPackage
  checksPass,   \* no item of the publish checklist fails
  audit,        \* the types of its audit events, in order
  pc,           \* pc[r]: the next await of request r
  job,          \* job[r]: what request r asks for
  seen          \* seen[r]: the row as r last read it

vars == <<package, checksPass, audit, pc, job, seen>>

Status == {"draft", "in_review", "ready_to_publish", "published"}
Recommendation == {"none", "publish", "needs_revision"}

Package == [status : Status, reviewer : Actor \cup {Importer, Nobody},
            recommendation : Recommendation, notes : BOOLEAN,
            reviewed : BOOLEAN,      \* reviewed_at is present
            published : BOOLEAN]     \* published_at is present

\* What updateGuidePackage is asked to change: Same is a field left out.
Patch == [status : Status \cup {Same}, reviewer : Actor \cup {Nobody, Same},
          recommendation : Recommendation \cup {Same}, notes : BOOLEAN \cup {Same},
          reviewed : BOOLEAN \cup {Same}, published : BOOLEAN \cup {Same}]

Job == [op : {"create", "patch", "publish", "unpublish"}, actor : Actor, patch : Patch]

\* The body of a PATCH; the status published has its own request.
Review == [status : (Status \ {"published"}) \cup {Same},
           recommendation : Recommendation \cup {Same}, notes : BOOLEAN \cup {Same}]

\* Mutant: a published_at may stay behind.
ValidAnyTime(row) ==
  row.status \in {"ready_to_publish", "published"} =>
    row.reviewer # Nobody /\ row.notes /\ row.reviewed /\ row.recommendation = "publish"

\* Mutant: the recommendation is left to the handlers.
ValidAnyRecommendation(row) ==
  /\ row.status \in {"ready_to_publish", "published"} =>
       row.reviewer # Nobody /\ row.notes /\ row.reviewed
  /\ row.published <=> row.status = "published"

\* validateGuidePackagePersistenceState
Valid(row) ==
  /\ row.status \in {"ready_to_publish", "published"} =>
       row.reviewer # Nobody /\ row.notes /\ row.reviewed /\ row.recommendation = "publish"
  /\ row.published <=> row.status = "published"

ASSUME NamesAssumption ==
  /\ Privileged \subseteq Actor /\ Nobody \notin Actor /\ Same \notin Actor
  /\ Same \notin BOOLEAN /\ Same \notin Status \cup Recommendation /\ Same # Nobody
  /\ NoPackage \notin Package

ASSUME ReviewsAssumption == Reviews \subseteq Review

ASSUME InitialPackagesAssumption ==
  InitialPackages \subseteq {row \in Package : Valid(row)} \cup {NoPackage}

TypeOK ==
  /\ package \in Package \cup {NoPackage}
  /\ checksPass \in BOOLEAN
  /\ audit \in Seq({"publish", "unpublish"})
  /\ pc \in [Request -> {"new", "decide", "recheck", "insert", "lock", "write", "done"}]
  /\ job \in [Request -> Job \cup {Nobody}]
  /\ seen \in [Request -> Package \cup {NoPackage}]

Init ==
  /\ package \in InitialPackages
  /\ checksPass \in BOOLEAN
  /\ audit = << >>
  /\ pc = [r \in Request |-> "new"]
  /\ job = [r \in Request |-> Nobody]
  /\ seen = [r \in Request |-> NoPackage]
-----------------------------------------------------------------------------
(****************************** The handlers ****************************)

\* The coverage snapshot and the content records decide the checklist; other
\* requests change them at any time.
ContentChanges ==
  /\ checksPass' = ~checksPass
  /\ UNCHANGED <<package, audit, pc, job, seen>>

NoChange == [status |-> Same, reviewer |-> Same, recommendation |-> Same, notes |-> Same,
             reviewed |-> Same, published |-> Same]

\* The handler's first await: the row as getGuidePackage returns it now.
Submit(r, j) ==
  /\ pc[r] = "new"
  /\ job' = [job EXCEPT ![r] = j]
  /\ seen' = [seen EXCEPT ![r] = package]
  /\ pc' = [pc EXCEPT ![r] = "decide"]
  /\ UNCHANGED <<package, checksPass, audit>>

\* POST /packages (createGuidePackageDraft)
CreatePackage(r) ==
  \E actor \in Actor : Submit(r, [op |-> "create", actor |-> actor, patch |-> NoChange])

\* The reviewer is whoever sends notes or a recommendation; a recommendation
\* taken back clears the reviewer and the review time.
ReviewPatch(review, actor) ==
  LET changed == review.notes # Same \/ review.recommendation # Same
      cleared == review.recommendation = "none"
  IN [status |-> review.status, recommendation |-> review.recommendation,
      notes |-> review.notes,
      reviewer |-> IF ~changed THEN Same ELSE IF cleared THEN Nobody ELSE actor,
      reviewed |-> IF ~changed THEN Same ELSE ~cleared,
      published |-> Same]

\* PATCH /packages/:id
PatchPackage(r) ==
  \E actor \in Actor, review \in Reviews :
    Submit(r, [op |-> "patch", actor |-> actor, patch |-> ReviewPatch(review, actor)])

\* POST /packages/:id/publish
PublishPackage(r) ==
  \E actor \in Privileged :
    Submit(r, [op |-> "publish", actor |-> actor,
               patch |-> [NoChange EXCEPT !.status = "published", !.published = TRUE]])

\* POST /packages/:id/unpublish, with its reason
UnpublishPackage(r) ==
  \E actor \in Privileged :
    Submit(r, [op |-> "unpublish", actor |-> actor,
               patch |-> [status |-> "in_review", reviewer |-> actor,
                          recommendation |-> "needs_revision", notes |-> TRUE,
                          reviewed |-> TRUE, published |-> FALSE]])

\* diagnostics.readyToPublish, of the row read and the content as it is now
ReadyToPublish(row) ==
  checksPass /\ row.reviewer # Nobody /\ row.recommendation = "publish"

\* The 400, 404 and 409 answers of the four handlers.
Permits(j, row) ==
  \/ j.op = "create" /\ row = NoPackage
  \/ /\ j.op = "patch" /\ row # NoPackage /\ row.status # "published"
     /\ j.patch.status = "ready_to_publish" => ReadyToPublish(row)
  \/ /\ j.op = "publish" /\ row # NoPackage
     /\ row.status = "ready_to_publish" /\ ReadyToPublish(row)
  \/ j.op = "unpublish" /\ row # NoPackage /\ row.status = "published"

\* The second await, listContent, and the decision.
Decide(r) ==
  /\ pc[r] = "decide"
  /\ Permits(job[r], seen[r])
  /\ pc' = [pc EXCEPT ![r] = IF job[r].op = "create" THEN "recheck" ELSE "lock"]
  /\ UNCHANGED <<package, checksPass, audit, job, seen>>

Answer(r) ==
  /\ pc' = [pc EXCEPT ![r] = "done"]
  /\ job' = [job EXCEPT ![r] = Nobody]
  /\ seen' = [seen EXCEPT ![r] = NoPackage]

\* A refused request, an error or a transaction rolled back.
Fail(r) ==
  /\ pc[r] \in {"decide", "recheck", "insert", "lock", "write"}
  /\ Answer(r)
  /\ UNCHANGED <<package, checksPass, audit>>
-----------------------------------------------------------------------------
(****************************** The store *******************************)

\* createGuidePackage reads the row once more before its transaction.
RecheckPackage(r) ==
  /\ pc[r] = "recheck" /\ package = NoPackage
  /\ pc' = [pc EXCEPT ![r] = "insert"]
  /\ UNCHANGED <<package, checksPass, audit, job, seen>>

Draft == [status |-> "draft", reviewer |-> Nobody, recommendation |-> "none", notes |-> FALSE,
          reviewed |-> FALSE, published |-> FALSE]

\* INSERT: a second row for the election breaks the primary key (Fail).
InsertPackage(r) ==
  /\ pc[r] = "insert" /\ package = NoPackage
  /\ package' = Draft
  /\ Answer(r)
  /\ UNCHANGED <<checksPass, audit>>

\* Mutant: getGuidePackageRow does not lock the row.
LockOwnersNone == {}

LockOwners == {r \in Request : pc[r] = "write"}

\* getGuidePackageRow(id, client, true): SELECT ... FOR UPDATE
LockPackageRow(r) ==
  /\ pc[r] = "lock"
  /\ LockOwners = {} /\ package # NoPackage
  /\ seen' = [seen EXCEPT ![r] = package]
  /\ pc' = [pc EXCEPT ![r] = "write"]
  /\ UNCHANGED <<package, checksPass, audit, job>>

\* A field the patch leaves out keeps its value.
Merged(row, patch) ==
  [field \in DOMAIN row |-> IF patch[field] = Same THEN row[field] ELSE patch[field]]

\* The audit event of a transaction, if it has one.
EventsOf(row, next) ==
  IF row.status # "published" /\ next.status = "published" THEN <<"publish">>
  ELSE IF row.status = "published" /\ next.status # "published" THEN <<"unpublish">>
  ELSE << >>

\* updateGuidePackage: UPDATE, audit and COMMIT.
WritePackage(r) ==
  LET next == Merged(seen[r], job[r].patch) IN
  /\ pc[r] = "write" /\ Valid(next)
  /\ package' = next
  /\ audit' = audit \o EventsOf(seen[r], next)
  /\ Answer(r)
  /\ UNCHANGED checksPass

Next ==
  \/ ContentChanges
  \/ \E r \in Request :
       \/ CreatePackage(r) \/ PatchPackage(r) \/ PublishPackage(r) \/ UnpublishPackage(r)
       \/ Decide(r) \/ Fail(r)
       \/ RecheckPackage(r) \/ InsertPackage(r)
       \/ LockPackageRow(r) \/ WritePackage(r)

Spec == Init /\ [][Next]_vars
-----------------------------------------------------------------------------
(******************************* Properties *****************************)

Live == package # NoPackage /\ package.status = "published"

(***************************************************************************)
(* A live guide has the sign-off of a named reviewer: notes, a review time *)
(* and a recommendation to publish, also when the review changed between   *)
(* the decision to publish and the publication.                            *)
(***************************************************************************)
LiveIsSignedOff ==
  Live => /\ package.reviewer # Nobody /\ package.recommendation = "publish"
          /\ package.notes /\ package.reviewed /\ package.published

(***************************************************************************)
(* The audit trail gains an event exactly when the package goes live or    *)
(* leaves, so that two publications never follow each other in it.         *)
(***************************************************************************)
AuditRecordsPublication ==
  [][audit' = IF Live' = Live THEN audit
              ELSE Append(audit, IF Live' THEN "publish" ELSE "unpublish")]_vars

(***************************************************************************)
(* A live guide leaves the site only through an unpublish request of an    *)
(* administrator with a second factor, which sends it back to review: no   *)
(* creation and no PATCH decided before it was published removes it.       *)
(***************************************************************************)
LeavesLiveByUnpublish ==
  [][Live /\ ~Live' =>
       /\ \E r \in Request : /\ pc[r] = "write" /\ pc'[r] = "done"
                             /\ job[r].op = "unpublish" /\ job[r].actor \in Privileged
       /\ package' # NoPackage /\ package'.status = "in_review"
       /\ package'.recommendation = "needs_revision"]_vars
=============================================================================
