------------------------- MODULE GuidePackagesProofs -------------------------
(***************************************************************************)
(* For every set of accounts, requests and reviews: the types, the         *)
(* sign-off of a live guide, and how a guide goes live and leaves.         *)
(***************************************************************************)
EXTENDS GuidePackages, TLAPS

-----------------------------------------------------------------------------
(* The inductive invariant *)

\* A request that has read the row holds its lock, and the row is what it read.
LocksHeld ==
  \A r \in Request : pc[r] = "write" =>
    /\ seen[r] = package /\ package # NoPackage
    /\ \A q \in Request : pc[q] = "write" => q = r

\* What each operation may ask of the store; only unpublish takes published_at
\* away.
JobsWellFormed ==
  \A r \in Request : pc[r] \in {"decide", "recheck", "insert", "lock", "write"} =>
    /\ job[r] \in Job
    /\ job[r].op # "unpublish" => job[r].patch.published \in {TRUE, Same}
    /\ job[r].op = "unpublish" => /\ job[r].actor \in Privileged
                                  /\ job[r].patch.status = "in_review"
                                  /\ job[r].patch.recommendation = "needs_revision"

RowValid == package # NoPackage => Valid(package)

IInv == TypeOK /\ LocksHeld /\ JobsWellFormed /\ RowValid

-----------------------------------------------------------------------------
(* The row a transaction writes *)

LEMMA MergedType ==
  ASSUME NEW row \in Package, NEW patch \in Patch
  PROVE  /\ Merged(row, patch) \in Package
         /\ \A field \in DOMAIN row :
              Merged(row, patch)[field] =
                IF patch[field] = Same THEN row[field] ELSE patch[field]
<1>1. DOMAIN row = {"status", "reviewer", "recommendation", "notes", "reviewed", "published"}
  BY DEF Package
<1> DEFINE next == Merged(row, patch)
<1>2. \A field \in DOMAIN row :
        next[field] = IF patch[field] = Same THEN row[field] ELSE patch[field]
  BY DEF Merged
<1>3. next = [status |-> next.status, reviewer |-> next.reviewer,
              recommendation |-> next.recommendation, notes |-> next.notes,
              reviewed |-> next.reviewed, published |-> next.published]
  BY <1>1 DEF Merged
<1>4. /\ next.status \in Status /\ next.reviewer \in Actor \cup {Importer, Nobody}
      /\ next.recommendation \in Recommendation /\ next.notes \in BOOLEAN
      /\ next.reviewed \in BOOLEAN /\ next.published \in BOOLEAN
  BY <1>1, <1>2 DEF Package, Patch
<1>5. next \in Package
  BY <1>3, <1>4 DEF Package
<1> QED BY <1>2, <1>5

\* What a job keeps of published_at decides whether a live package stays live.
LEMMA StaysLive ==
  ASSUME NEW row \in Package, NEW patch \in Patch, Valid(row), Valid(Merged(row, patch)),
         row.status = "published", patch.published \in {TRUE, Same}
  PROVE  Merged(row, patch).status = "published"
<1>1. "published" \in DOMAIN row
  BY DEF Package
<1>2. row.published = TRUE
  BY DEF Valid, Package
<1>3. Merged(row, patch).published = TRUE
  <2>1. Merged(row, patch)["published"] =
          IF patch["published"] = Same THEN row["published"] ELSE patch["published"]
    BY <1>1, MergedType
  <2> QED BY <1>2, <2>1
<1> QED BY <1>3 DEF Valid

LEMMA EventsOfType ==
  ASSUME NEW row, NEW next
  PROVE  EventsOf(row, next) \in Seq({"publish", "unpublish"})
<1>1. /\ << >> \in Seq({"publish", "unpublish"})
      /\ <<"publish">> \in Seq({"publish", "unpublish"})
      /\ <<"unpublish">> \in Seq({"publish", "unpublish"})
  OBVIOUS
<1> QED BY <1>1 DEF EventsOf

-----------------------------------------------------------------------------
(* What a handler passes on *)

LEMMA CreateJob ==
  ASSUME NEW actor \in Actor,
         NEW j, j = [op |-> "create", actor |-> actor, patch |-> NoChange]
  PROVE  j \in Job /\ j.op = "create" /\ j.patch.published = Same
BY DEF Job, Patch, NoChange

LEMMA PatchJob ==
  ASSUME NEW actor \in Actor, NEW review \in Reviews,
         NEW j, j = [op |-> "patch", actor |-> actor, patch |-> ReviewPatch(review, actor)]
  PROVE  j \in Job /\ j.op = "patch" /\ j.patch.published = Same
<1> DEFINE changed == review.notes # Same \/ review.recommendation # Same
           cleared == review.recommendation = "none"
           reviewer == IF ~changed THEN Same ELSE IF cleared THEN Nobody ELSE actor
           reviewed == IF ~changed THEN Same ELSE ~cleared
<1>1. review \in Review
  BY ReviewsAssumption
<1>2. ReviewPatch(review, actor) =
        [status |-> review.status, reviewer |-> reviewer,
         recommendation |-> review.recommendation, notes |-> review.notes,
         reviewed |-> reviewed, published |-> Same]
  BY DEF ReviewPatch
<1>3. reviewer \in Actor \cup {Nobody, Same}
  OBVIOUS
<1>4. cleared \in BOOLEAN /\ changed \in BOOLEAN
  OBVIOUS
<1>5. reviewed \in BOOLEAN \cup {Same}
  BY <1>4
<1>6. /\ review.status \in Status \cup {Same}
      /\ review.recommendation \in Recommendation \cup {Same}
      /\ review.notes \in BOOLEAN \cup {Same}
  BY <1>1 DEF Review
<1>7. ReviewPatch(review, actor) \in Patch
  <2> HIDE DEF reviewer, reviewed
  <2> QED BY <1>2, <1>3, <1>5, <1>6 DEF Patch
<1>8. ReviewPatch(review, actor).published = Same
  BY <1>2
<1> QED BY <1>7, <1>8 DEF Job

LEMMA PublishJob ==
  ASSUME NEW actor \in Privileged,
         NEW j, j = [op |-> "publish", actor |-> actor,
                     patch |-> [NoChange EXCEPT !.status = "published", !.published = TRUE]]
  PROVE  j \in Job /\ j.op = "publish" /\ j.patch.published = TRUE
BY NamesAssumption DEF Job, Patch, NoChange, Status

LEMMA UnpublishJob ==
  ASSUME NEW actor \in Privileged,
         NEW j, j = [op |-> "unpublish", actor |-> actor,
                     patch |-> [status |-> "in_review", reviewer |-> actor,
                                recommendation |-> "needs_revision", notes |-> TRUE,
                                reviewed |-> TRUE, published |-> FALSE]]
  PROVE  /\ j \in Job /\ j.op = "unpublish" /\ j.actor \in Privileged
         /\ j.patch.status = "in_review" /\ j.patch.recommendation = "needs_revision"
BY NamesAssumption DEF Job, Patch, Status, Recommendation

-----------------------------------------------------------------------------
(* The steps *)

LEMMA InitIInv == Init => IInv
<1> SUFFICES ASSUME Init PROVE IInv
  OBVIOUS
<1>1. TypeOK
  BY InitialPackagesAssumption DEF Init, TypeOK
<1>2. RowValid
  BY InitialPackagesAssumption DEF Init, RowValid
<1>3. LocksHeld /\ JobsWellFormed
  BY DEF Init, LocksHeld, JobsWellFormed
<1> QED BY <1>1, <1>2, <1>3 DEF IInv

LEMMA SubmitIInv ==
  ASSUME IInv, NEW r \in Request, NEW j \in Job, Submit(r, j),
         j.op # "unpublish" => j.patch.published \in {TRUE, Same},
         j.op = "unpublish" => /\ j.actor \in Privileged
                               /\ j.patch.status = "in_review"
                               /\ j.patch.recommendation = "needs_revision"
  PROVE  IInv'
<1> USE DEF IInv, Submit
<1>1. TypeOK'
  BY DEF TypeOK
<1>2. LocksHeld' /\ RowValid'
  BY DEF TypeOK, LocksHeld, RowValid
<1>3. JobsWellFormed'
  BY DEF TypeOK, JobsWellFormed
<1> QED BY <1>1, <1>2, <1>3

LEMMA DecideIInv ==
  ASSUME IInv, NEW r \in Request, Decide(r)
  PROVE  IInv'
<1> USE DEF IInv, Decide
<1>1. TypeOK'
  BY DEF TypeOK
<1>2. LocksHeld' /\ RowValid'
  BY DEF TypeOK, LocksHeld, RowValid
<1>3. JobsWellFormed'
  BY DEF TypeOK, JobsWellFormed
<1> QED BY <1>1, <1>2, <1>3

LEMMA RecheckIInv ==
  ASSUME IInv, NEW r \in Request, RecheckPackage(r)
  PROVE  IInv'
<1> USE DEF IInv, RecheckPackage
<1>1. TypeOK'
  BY DEF TypeOK
<1>2. LocksHeld' /\ RowValid'
  BY DEF TypeOK, LocksHeld, RowValid
<1>3. JobsWellFormed'
  BY DEF TypeOK, JobsWellFormed
<1> QED BY <1>1, <1>2, <1>3

\* An answered request has no part in the invariant any more.
LEMMA AnswerKeeps ==
  ASSUME IInv, NEW r \in Request, Answer(r)
  PROVE  /\ pc' \in [Request -> {"new", "decide", "recheck", "insert", "lock", "write", "done"}]
         /\ job' \in [Request -> Job \cup {Nobody}]
         /\ seen' \in [Request -> Package \cup {NoPackage}]
         /\ \A q \in Request : q # r => pc'[q] = pc[q] /\ job'[q] = job[q] /\ seen'[q] = seen[q]
         /\ pc'[r] = "done"
         /\ JobsWellFormed'
<1>1. /\ pc' \in [Request -> {"new", "decide", "recheck", "insert", "lock", "write", "done"}]
      /\ job' \in [Request -> Job \cup {Nobody}]
      /\ seen' \in [Request -> Package \cup {NoPackage}]
      /\ \A q \in Request : q # r => pc'[q] = pc[q] /\ job'[q] = job[q] /\ seen'[q] = seen[q]
      /\ pc'[r] = "done"
  BY DEF Answer, IInv, TypeOK
<1>2. JobsWellFormed'
  <2> SUFFICES ASSUME NEW q \in Request,
                      pc'[q] \in {"decide", "recheck", "insert", "lock", "write"}
               PROVE  /\ job'[q] \in Job
                      /\ job'[q].op # "unpublish" => job'[q].patch.published \in {TRUE, Same}
                      /\ job'[q].op = "unpublish" =>
                           /\ job'[q].actor \in Privileged
                           /\ job'[q].patch.status = "in_review"
                           /\ job'[q].patch.recommendation = "needs_revision"
    BY DEF JobsWellFormed
  <2>1. q # r
    BY <1>1
  <2> QED BY <1>1, <2>1 DEF IInv, JobsWellFormed
<1> QED BY <1>1, <1>2

LEMMA FailIInv ==
  ASSUME IInv, NEW r \in Request, Fail(r)
  PROVE  IInv'
<1>1. Answer(r) /\ UNCHANGED <<package, checksPass, audit>>
  BY DEF Fail
<1>2. TypeOK' /\ RowValid'
  BY <1>1, AnswerKeeps DEF IInv, TypeOK, RowValid
<1>3. LocksHeld'
  <2> SUFFICES ASSUME NEW q \in Request, pc'[q] = "write"
               PROVE  /\ seen'[q] = package' /\ package' # NoPackage
                      /\ \A p \in Request : pc'[p] = "write" => p = q
    BY DEF LocksHeld
  <2>1. q # r
    BY <1>1, AnswerKeeps
  <2> QED BY <1>1, <2>1, AnswerKeeps DEF IInv, LocksHeld
<1> QED BY <1>1, <1>2, <1>3, AnswerKeeps DEF IInv

LEMMA InsertIInv ==
  ASSUME IInv, NEW r \in Request, InsertPackage(r)
  PROVE  IInv'
<1>1. Answer(r) /\ package = NoPackage /\ package' = Draft /\ UNCHANGED <<checksPass, audit>>
  BY DEF InsertPackage
<1>2. Draft \in Package /\ Valid(Draft)
  BY DEF Draft, Package, Valid, Status, Recommendation
<1>3. TypeOK' /\ RowValid'
  BY <1>1, <1>2, AnswerKeeps DEF IInv, TypeOK, RowValid
<1>4. \A q \in Request : pc'[q] # "write"
  BY <1>1, AnswerKeeps DEF IInv, LocksHeld
<1> QED BY <1>1, <1>3, <1>4, AnswerKeeps DEF IInv, LocksHeld

LEMMA LockIInv ==
  ASSUME IInv, NEW r \in Request, LockPackageRow(r)
  PROVE  IInv'
<1> USE DEF IInv, LockPackageRow
<1>1. TypeOK'
  BY DEF TypeOK
<1>2. LocksHeld'
  BY DEF TypeOK, LocksHeld, LockOwners
<1>3. JobsWellFormed' /\ RowValid'
  BY DEF TypeOK, JobsWellFormed, RowValid
<1> QED BY <1>1, <1>2, <1>3

\* The row a transaction merges its patch into, and the row it writes.
LEMMA WriteFacts ==
  ASSUME IInv, NEW r \in Request, WritePackage(r)
  PROVE  /\ package \in Package /\ Valid(package) /\ seen[r] = package
         /\ job[r] \in Job
         /\ package' = Merged(package, job[r].patch)
         /\ package' \in Package /\ Valid(package')
         /\ audit' = audit \o EventsOf(package, package')
<1>1. /\ pc[r] = "write" /\ Valid(Merged(seen[r], job[r].patch))
      /\ package' = Merged(seen[r], job[r].patch)
      /\ audit' = audit \o EventsOf(seen[r], package')
  BY DEF WritePackage
<1>2. seen[r] = package /\ package \in Package /\ Valid(package)
  BY <1>1 DEF IInv, TypeOK, LocksHeld, RowValid
<1>3. job[r] \in Job
  BY <1>1 DEF IInv, JobsWellFormed
<1>4. Merged(package, job[r].patch) \in Package
  BY <1>2, <1>3, MergedType DEF Job
<1> QED BY <1>1, <1>2, <1>3, <1>4

LEMMA WriteIInv ==
  ASSUME IInv, NEW r \in Request, WritePackage(r)
  PROVE  IInv'
<1>1. Answer(r) /\ pc[r] = "write" /\ UNCHANGED checksPass
  BY DEF WritePackage
<1>2. audit' \in Seq({"publish", "unpublish"})
  <2>1. \A s, t \in Seq({"publish", "unpublish"}) : s \o t \in Seq({"publish", "unpublish"})
    OBVIOUS
  <2>2. audit \in Seq({"publish", "unpublish"})
    BY DEF IInv, TypeOK
  <2> QED BY <2>1, <2>2, WriteFacts, EventsOfType
<1>3. TypeOK' /\ RowValid'
  BY <1>1, <1>2, WriteFacts, AnswerKeeps DEF IInv, TypeOK, RowValid
<1>4. \A q \in Request : pc'[q] # "write"
  BY <1>1, AnswerKeeps DEF IInv, LocksHeld
<1> QED BY <1>1, <1>3, <1>4, AnswerKeeps DEF IInv, LocksHeld

LEMMA NextIInv == IInv /\ [Next]_vars => IInv'
<1> SUFFICES ASSUME IInv, [Next]_vars PROVE IInv'
  OBVIOUS
<1>1. ASSUME ContentChanges PROVE IInv'
  BY <1>1 DEF ContentChanges, IInv, TypeOK, LocksHeld, JobsWellFormed, RowValid
<1>2. ASSUME NEW r \in Request, CreatePackage(r) PROVE IInv'
  BY <1>2, CreateJob, SubmitIInv DEF CreatePackage
<1>3. ASSUME NEW r \in Request, PatchPackage(r) PROVE IInv'
  BY <1>3, PatchJob, SubmitIInv DEF PatchPackage
<1>4. ASSUME NEW r \in Request, PublishPackage(r) PROVE IInv'
  BY <1>4, PublishJob, SubmitIInv DEF PublishPackage
<1>5. ASSUME NEW r \in Request, UnpublishPackage(r) PROVE IInv'
  BY <1>5, UnpublishJob, SubmitIInv DEF UnpublishPackage
<1>6. ASSUME UNCHANGED vars PROVE IInv'
  BY <1>6 DEF vars, IInv, TypeOK, LocksHeld, JobsWellFormed, RowValid
<1> QED BY <1>1, <1>2, <1>3, <1>4, <1>5, <1>6,
           DecideIInv, FailIInv, RecheckIInv, InsertIInv, LockIInv, WriteIInv DEF Next

LEMMA Invariance == Spec => []IInv
<1> QED BY InitIInv, NextIInv, PTL DEF Spec

\* Only a new row or a merged one changes the package or its audit trail.
LEMMA RowSteps ==
  ASSUME IInv, [Next]_vars
  PROVE  \/ UNCHANGED <<package, audit>>
         \/ package = NoPackage /\ package' = Draft /\ UNCHANGED audit
         \/ \E r \in Request : WritePackage(r)
BY DEF Next, ContentChanges, CreatePackage, PatchPackage, PublishPackage, UnpublishPackage,
       Submit, Decide, Fail, RecheckPackage, InsertPackage, LockPackageRow, vars

-----------------------------------------------------------------------------
(***************************************************************************)
(* Every variable has its type, whatever row a patch is merged into.       *)
(***************************************************************************)
THEOREM PackagesTyped == Spec => []TypeOK
<1>1. IInv => TypeOK
  BY DEF IInv
<1> QED BY <1>1, Invariance, PTL

(***************************************************************************)
(* A live guide has a reviewer's sign-off, however old the row was that    *)
(* the publish handler decided on.                                         *)
(***************************************************************************)
THEOREM LiveSignedOff == Spec => []LiveIsSignedOff
<1>1. IInv => LiveIsSignedOff
  BY DEF IInv, RowValid, Valid, LiveIsSignedOff, Live
<1> QED BY <1>1, Invariance, PTL

(***************************************************************************)
(* The audit trail gains an event exactly when the package goes live or    *)
(* leaves: the row lock makes the row that was read the row replaced.      *)
(***************************************************************************)
THEOREM PublicationRecorded == Spec => AuditRecordsPublication
<1> DEFINE Recorded == audit' = IF Live' = Live THEN audit
                                ELSE Append(audit, IF Live' THEN "publish" ELSE "unpublish")
<1>1. ASSUME IInv, [Next]_vars PROVE [Recorded]_vars
  <2>1. CASE UNCHANGED <<package, audit>>
    BY <2>1 DEF Live
  <2>2. CASE package = NoPackage /\ package' = Draft /\ UNCHANGED audit
    BY <2>2 DEF Live, Draft
  <2>3. ASSUME NEW r \in Request, WritePackage(r) PROVE Recorded
    <3>1. package \in Package /\ package' \in Package
      BY <1>1, <2>3, WriteFacts
    <3>2. Live = (package.status = "published") /\ Live' = (package'.status = "published")
      BY <3>1, NamesAssumption DEF Live
    <3>3. audit \in Seq({"publish", "unpublish"})
      BY <1>1 DEF IInv, TypeOK
    <3>4. audit' = audit \o EventsOf(package, package')
      BY <1>1, <2>3, WriteFacts
    <3>5. CASE package.status # "published" /\ package'.status = "published"
      <4>1. audit' = audit \o <<"publish">>
        BY <3>4, <3>5 DEF EventsOf
      <4>2. Live' # Live /\ Live'
        BY <3>2, <3>5
      <4>3. audit \o <<"publish">> = Append(audit, "publish")
        BY <3>3
      <4> QED BY <4>1, <4>2, <4>3
    <3>6. CASE package.status = "published" /\ package'.status # "published"
      <4>1. audit' = audit \o <<"unpublish">>
        BY <3>4, <3>6 DEF EventsOf
      <4>2. Live' # Live /\ ~Live'
        BY <3>2, <3>6
      <4>3. audit \o <<"unpublish">> = Append(audit, "unpublish")
        BY <3>3
      <4> QED BY <4>1, <4>2, <4>3
    <3>7. CASE (package.status = "published") = (package'.status = "published")
      BY <3>2, <3>3, <3>4, <3>7 DEF EventsOf
    <3> QED BY <3>5, <3>6, <3>7
  <2> QED BY <1>1, <2>1, <2>2, <2>3, RowSteps
<1> QED BY <1>1, Invariance, PTL DEF Spec, AuditRecordsPublication

(***************************************************************************)
(* A live guide leaves the site only by the unpublish request of an        *)
(* administrator with a second factor: every other patch keeps the         *)
(* publication time, and a row that has one must stay published.           *)
(***************************************************************************)
THEOREM LeavesByUnpublish == Spec => LeavesLiveByUnpublish
<1> DEFINE Leaves ==
      Live /\ ~Live' =>
        /\ \E r \in Request : /\ pc[r] = "write" /\ pc'[r] = "done"
                              /\ job[r].op = "unpublish" /\ job[r].actor \in Privileged
        /\ package' # NoPackage /\ package'.status = "in_review"
        /\ package'.recommendation = "needs_revision"
<1>1. ASSUME IInv, [Next]_vars PROVE [Leaves]_vars
  <2>1. CASE UNCHANGED <<package, audit>>
    BY <2>1 DEF Live
  <2>2. CASE package = NoPackage /\ package' = Draft /\ UNCHANGED audit
    BY <2>2 DEF Live
  <2>3. ASSUME NEW r \in Request, WritePackage(r), Live, ~Live' PROVE Leaves
    <3>1. /\ package \in Package /\ Valid(package) /\ job[r] \in Job
          /\ package' = Merged(package, job[r].patch)
          /\ package' \in Package /\ Valid(package')
      BY <1>1, <2>3, WriteFacts
    <3>2. package.status = "published" /\ package'.status # "published"
      BY <2>3, <3>1, NamesAssumption DEF Live
    <3>3. pc[r] = "write" /\ pc'[r] = "done"
      BY <1>1, <2>3, AnswerKeeps DEF WritePackage
    <3>4. job[r].op = "unpublish"
      <4>1. job[r].patch.published \notin {TRUE, Same}
        BY <3>1, <3>2, StaysLive DEF Job
      <4> QED BY <1>1, <3>3, <4>1 DEF IInv, JobsWellFormed
    <3>5. /\ job[r].actor \in Privileged /\ job[r].patch.status = "in_review"
          /\ job[r].patch.recommendation = "needs_revision"
      BY <1>1, <3>3, <3>4 DEF IInv, JobsWellFormed
    <3>6. /\ "status" \in DOMAIN package /\ "recommendation" \in DOMAIN package
          /\ "in_review" # Same /\ "needs_revision" # Same
      BY <3>1, NamesAssumption DEF Package, Status, Recommendation
    <3>7. package'.status = "in_review" /\ package'.recommendation = "needs_revision"
      BY <3>1, <3>5, <3>6, MergedType DEF Job
    <3> QED BY <3>1, <3>3, <3>4, <3>5, <3>7, NamesAssumption
  <2> QED BY <1>1, <2>1, <2>2, <2>3, RowSteps
<1> QED BY <1>1, Invariance, PTL DEF Spec, LeavesLiveByUnpublish
=============================================================================
