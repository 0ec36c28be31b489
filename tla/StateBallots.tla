---------------------------- MODULE StateBallots ----------------------------
(***************************************************************************)
(* The retained records of one official ballot source: the API's lookups   *)
(* (createStateBallotRepository) and the passes of the automation worker   *)
(* (manage-state-ballot-automation, refreshApprovedCandidateData), which   *)
(* share one snapshot file and one file of pending evidence.  The          *)
(* repository of the API lives as long as its process, that of a pass as   *)
(* long as the pass.  The refresh command does what the lookup of a pass   *)
(* does, without lock or receipt, and is left out.                         *)
(*                                                                         *)
(* The source is automatic and its publisher may have no records yet.  A   *)
(* file is replaced as a whole, with one rename, and what follows the      *)
(* rename in the process is part of that step.  What a lookup answers is   *)
(* reduced to whether it found records.                                    *)
(*                                                                         *)
(* AuditTrailProofs extends this module and AuditTrail, whose names it     *)
(* therefore avoids.                                                       *)
(***************************************************************************)
EXTENDS Naturals

CONSTANTS
  Server,       \* the process of the API
  Request,      \* its lookups of the source, at a time
  Worker,       \* processes of the automation worker, at a time
  Formats,      \* the formats the source may have
  Ttl,          \* ttlMs
  Retry,        \* the five minutes a failure is cached
  ElectionDay,  \* electionDate: from then on nothing is awaited
  ElectionEnd,  \* two days later: from then on nothing is fetched
  MaxTime,      \* bound: the last tick
  None

\* bulk: the API only reads what workers stored; retains: a collection that
\* cannot be stored is not used.
Format == [bulk : BOOLEAN, retains : BOOLEAN]

Process == {Server} \cup Worker
Job == Request \cup Worker
ProcessOf(j) == IF j \in Request THEN Server ELSE j

\* Zero stands for a time that is not recorded.
Time == 1 .. MaxTime
Times == Time \cup {0}

\* The snapshot file; by: the process that stored it (history).
Snapshot == [retrieved : Time, by : Process]

ASSUME StateBallotsAssumption ==
  /\ Formats \subseteq Format
  /\ {Ttl, Retry, ElectionDay, ElectionEnd, MaxTime} \subseteq Nat \ {0} /\ ElectionDay < ElectionEnd
  /\ Request \cap Worker = {} /\ Server \notin Worker
  /\ None \notin Request \cup Worker \cup Times \cup Snapshot

\* An entry of awaitingRecords: the pending evidence, and until when it holds.
Pending == [until : 0 .. ElectionDay, receipt : Times]
NotPending == [until |-> 0, receipt |-> 0]

\* How a load ends: whether it answers with records, whether it stored them,
\* and whether an observation of the source names a failure.
Outcome == [found : BOOLEAN, imported : BOOLEAN, failed : BOOLEAN]
Found == [found |-> TRUE, imported |-> FALSE, failed |-> FALSE]
Imported == [Found EXCEPT !.imported = TRUE]
Nothing == [Found EXCEPT !.found = FALSE]
Failed(found) == [found |-> found, imported |-> FALSE, failed |-> TRUE]

VARIABLES
  now,       \* Date.now()
  format,    \* the format of the source
  file,      \* the stored snapshot, or None
  sidecar,   \* the .pending file: when the empty export was captured
  run,       \* the receipt automation-run.json: its lastImportAt
  lock,      \* the worker that made automation.lock, or None
  cached,    \* until when the API answers from its cache
  awaiting,  \* awaiting[p]: what the repository of p waits for records on
  loading,   \* pending in the code: the request whose load the API's lookups share, or None
  job,       \* job[j]: the next step of a lookup or worker
  accepted,  \* history: when the first snapshot was stored
  saved,     \* history: workers that stored a snapshot in the pass under way
  spared     \* history: until when the API has promised to spare the publisher

ballotVars == <<now, format, file, sidecar, run, lock, cached, awaiting, loading, job, accepted, saved, spared>>
disk == <<file, sidecar, run, lock>>
memory == <<cached, awaiting>>
history == <<accepted, saved, spared>>

LoadSteps == {"read", "receipt", "fetch", "save", "check", "hold"}
PassSteps == {"previous", "begin", "collect", "inspect", "report", "sleep", "stop", "unlock"}

JobState ==
  [at : {"new", "archive", "wait"} \cup LoadSteps \cup PassSteps,
   stored : BOOLEAN,           \* whether the load found a snapshot, though an old one
   captured : Times,           \* capturedAt of what the load fetched
   outcome : Outcome,          \* how the lookup of a pass ended
   watch : BOOLEAN,            \* --watch
   run : Times,                \* lastImportAt of the receipt the pass works on
   last : Times \cup {None}]   \* that of lastRun, the last finished pass

NoJob == [at |-> "new", stored |-> FALSE, captured |-> 0, outcome |-> Nothing,
          watch |-> FALSE, run |-> 0, last |-> None]

\* Every job, worker and file has the values the code gives it; pending
\* evidence is not relied on after the day before the election.
BallotTypeOK ==
  /\ now \in Time /\ format \in Formats
  /\ file \in Snapshot \cup {None} /\ sidecar \in Times
  /\ run \in Times /\ lock \in Worker \cup {None}
  /\ cached \in 0 .. MaxTime + Ttl + Retry
  /\ awaiting \in [Process -> Pending]
  /\ loading \in Request \cup {None}
  /\ job \in [Job -> JobState]
  /\ accepted \in Times /\ saved \subseteq Worker /\ spared \in 0 .. MaxTime + Ttl + Retry

BallotInit ==
  /\ now = 1
  /\ format \in Formats
  /\ file = None /\ sidecar = 0 /\ run = 0 /\ lock = None
  /\ cached = 0 /\ awaiting = [p \in Process |-> NotPending]
  /\ loading = None
  /\ job = [j \in Job |-> NoJob]
  /\ accepted = 0 /\ saved = {} /\ spared = 0

Goto(j, step) == job' = [job EXCEPT ![j].at = step]

\* Who has ended may come again, as a new request or a new process.
End(j) == job' = [job EXCEPT ![j] = NoJob]

\* The promise of the load settles: everybody who waits for it is answered.
\* The cache of a pass is not asked again.
Answer(j, outcome, until, evidence) ==
  /\ job' = [k \in Job |->
               IF k = j /\ j \in Worker
                 THEN [job[j] EXCEPT !.at = "inspect", !.outcome = outcome, !.stored = FALSE, !.captured = 0]
               ELSE IF k = j \/ (j \in Request /\ job[k].at = "wait") THEN NoJob
               ELSE job[k]]
  /\ loading' = IF j \in Request THEN None ELSE loading
  /\ cached' = IF j \in Request THEN until ELSE cached
  /\ awaiting' = [awaiting EXCEPT ![ProcessOf(j)] = evidence]

\* What is awaited stays as it is.
Evidence(j) == awaiting[ProcessOf(j)]
-----------------------------------------------------------------------------
(******************************* Lookups ********************************)

\* Mutants: lookups do not share a load; they share it until it was fetched.
SharesNothing == FALSE
SharesFetch == loading # None /\ job[loading].at \in {"read", "receipt", "fetch"}

Shares == loading # None

\* getSnapshot of the API, for a source that is named.
Lookup(r) ==
  /\ job[r].at = "new"
  /\ IF now >= ElectionEnd THEN Goto(r, "archive") /\ UNCHANGED loading
     ELSE IF cached > now THEN End(r) /\ UNCHANGED loading
     ELSE IF Shares THEN Goto(r, "wait") /\ UNCHANGED loading
     ELSE Goto(r, "read") /\ loading' = r
  /\ UNCHANGED <<now, format, disk, memory, history>>

\* After the election the retained snapshot is read and nothing is cached.
ReadArchive(r) ==
  /\ job[r].at = "archive"
  /\ End(r)
  /\ UNCHANGED <<now, format, disk, memory, loading, history>>

\* A bulk publication is not collected by the API.
ReadsOnly(j) == format.bulk /\ j \in Request

Current(snapshot) == snapshot.retrieved + Ttl > now

\* The snapshot file: good enough, missing, or too old.
Read(j) ==
  /\ job[j].at = "read"
  /\ IF file = None THEN Goto(j, "receipt") /\ UNCHANGED <<memory, loading>>
     ELSE IF ReadsOnly(j) THEN Answer(j, Found, cached, NotPending)
     ELSE IF Current(file) THEN Answer(j, Found, file.retrieved + Ttl, Evidence(j))
     ELSE /\ job' = [job EXCEPT ![j].at = "fetch", ![j].stored = TRUE]
          /\ UNCHANGED <<memory, loading>>
  /\ UNCHANGED <<now, format, disk, history>>

\* Mutant: pending evidence outlives the day of the election.
PendingLong(t) == t + Ttl

\* pendingExpiry.
PendingUntil(t) == IF t + Ttl < ElectionDay THEN t + Ttl ELSE ElectionDay

Awaiting(t) == [until |-> PendingUntil(t), receipt |-> t]

\* rememberPending.
Remember(j, t) == Answer(j, Nothing, PendingUntil(t), Awaiting(t))

\* No snapshot: pending evidence may say that there is nothing to fetch yet.
ReadReceipt(j) ==
  /\ job[j].at = "receipt"
  /\ LET holds == sidecar > 0 /\ PendingUntil(sidecar) > now IN
     IF ReadsOnly(j) THEN Answer(j, Nothing, cached, IF holds THEN Awaiting(sidecar) ELSE Evidence(j))
     ELSE IF holds THEN Remember(j, sidecar)
     ELSE Goto(j, "fetch") /\ UNCHANGED <<memory, loading>>
  /\ UNCHANGED <<now, format, disk, history>>

\* A failure is cached for five minutes.  Some formats fall back on the old
\* snapshot, for which the pass fails as well: bulk publications, which the
\* API does not collect, and oklahoma-html, whose empty exports are failures
\* and which is not one of the formats of this module.
Unavailable(j) == Answer(j, Failed(FALSE), now + Retry, NotPending)

\* A file that cannot be read, or is not of this source.
FailToRead(j) ==
  /\ job[j].at \in {"read", "receipt"}
  /\ Unavailable(j)
  /\ UNCHANGED <<now, format, disk, history>>
-----------------------------------------------------------------------------
(************************ Fetching and storing **************************)

\* Records, or an export without any that is not expected to have some.
Fetch(j) ==
  /\ job[j].at = "fetch"
  /\ \/ job' = [job EXCEPT ![j].at = "save", ![j].captured = now]
     \/ /\ ~job[j].stored /\ now < ElectionDay
        /\ job' = [job EXCEPT ![j].at = "check", ![j].captured = now]
  /\ UNCHANGED <<now, format, disk, memory, loading, history>>

\* No answer, an answer that is not understood, or an empty one for a source
\* that had records or whose election is due.
FailToFetch(j) ==
  /\ job[j].at = "fetch"
  /\ Unavailable(j)
  /\ spared' = IF j \in Request THEN now + Retry ELSE spared
  /\ UNCHANGED <<now, format, disk, accepted, saved>>

\* Records were collected: they are cached for the lifetime of the source.
Collected(j, outcome) ==
  /\ Answer(j, outcome, now + Ttl, NotPending)
  /\ spared' = IF j \in Request THEN now + Ttl ELSE spared

\* storage.write.
Save(j) ==
  /\ job[j].at = "save"
  /\ file' = [retrieved |-> job[j].captured, by |-> ProcessOf(j)]
  /\ Collected(j, Imported)
  /\ accepted' = IF accepted = 0 THEN now ELSE accepted
  /\ saved' = saved \cup ({j} \cap Worker)
  /\ UNCHANGED <<now, format, sidecar, run, lock>>

FailToSave(j) ==
  /\ job[j].at = "save"
  /\ IF format.retains
     THEN Answer(j, Failed(job[j].stored), cached, Evidence(j)) /\ UNCHANGED spared
     ELSE Collected(j, Failed(TRUE))
  /\ UNCHANGED <<now, format, disk, accepted, saved>>

\* The receipt of pending evidence was refused or cannot be written.
PendingFails(j) == Answer(j, Failed(FALSE), cached, Evidence(j))

\* Mutant: what was stored since is not looked at.
CheckNothing(j) ==
  /\ job[j].at = "check"
  /\ Goto(j, "hold")
  /\ UNCHANGED <<now, format, disk, memory, loading, history>>

\* writePending: an empty report cannot replace accepted candidate data.
Check(j) ==
  /\ job[j].at = "check"
  /\ IF file # None THEN PendingFails(j) ELSE Goto(j, "hold") /\ UNCHANGED <<memory, loading>>
  /\ UNCHANGED <<now, format, disk, history>>

\* The evidence is stored, and remembered unless it expired meanwhile.
Hold(j) ==
  /\ job[j].at = "hold"
  /\ sidecar' = job[j].captured
  /\ IF PendingUntil(job[j].captured) > now
     THEN Remember(j, job[j].captured)
     ELSE Unavailable(j)
  /\ UNCHANGED <<now, format, file, run, lock, history>>

FailToHold(j) ==
  /\ job[j].at \in {"check", "hold"}
  /\ PendingFails(j)
  /\ UNCHANGED <<now, format, disk, history>>

Load(j) ==
  \/ Read(j) \/ ReadReceipt(j) \/ FailToRead(j)
  \/ Fetch(j) \/ FailToFetch(j) \/ Save(j) \/ FailToSave(j)
  \/ Check(j) \/ Hold(j) \/ FailToHold(j)
-----------------------------------------------------------------------------
(***************************** The worker *******************************)

\* open(lockPath, "wx"); a worker that finds the file just ends.
Start(w) ==
  /\ job[w].at = "new" /\ lock = None
  /\ lock' = w
  /\ \E watch \in BOOLEAN : job' = [job EXCEPT ![w].at = "previous", ![w].watch = watch]
  /\ UNCHANGED <<now, format, file, sidecar, run, memory, loading, history>>

\* Mutant: a new receipt starts without the clock of the previous one.
NoClock == 0

\* What a new receipt takes over from the previous one.
CarriedClock == run

\* readAutomationRun.
ReadPrevious(w) ==
  /\ job[w].at = "previous"
  /\ job' = [job EXCEPT ![w].at = "begin", ![w].run = CarriedClock]
  /\ saved' = saved \ {w}
  /\ UNCHANGED <<now, format, disk, memory, loading, accepted, spared>>

\* writeAutomationRun.
Record(clock) ==
  /\ run' = clock
  /\ UNCHANGED <<now, format, file, sidecar, lock, memory, loading, history>>

Begin(w) ==
  /\ job[w].at = "begin"
  /\ Record(job[w].run)
  /\ Goto(w, "collect")

\* The pass over the source; one whose election is over is left out.
Collect(w) ==
  /\ job[w].at = "collect"
  /\ Goto(w, IF now >= ElectionEnd THEN "report" ELSE "read")
  /\ UNCHANGED <<now, format, disk, memory, loading, history>>

\* inspectSources, which reads the file again, and the result of the pass.
Inspect(w) ==
  /\ job[w].at = "inspect"
  /\ \E unreadable \in BOOLEAN :
       LET load == job[w].outcome
           failed == \/ ~load.found /\ awaiting[w].until <= now
                     \/ load.failed \/ unreadable
       IN job' = [job EXCEPT ![w].at = "report", ![w].outcome = Nothing,
                    ![w].run = IF load.imported /\ ~failed THEN now ELSE @]
  /\ awaiting' = [awaiting EXCEPT ![w] = NotPending]
  /\ UNCHANGED <<now, format, disk, cached, loading, history>>

Report(w) ==
  /\ job[w].at = "report"
  /\ Record(job[w].run)
  /\ IF job[w].watch
     THEN job' = [job EXCEPT ![w].at = "sleep", ![w].run = 0, ![w].last = job[w].run]
     ELSE Goto(w, "unlock")

\* The interval has passed, which may be less than a tick; or a signal stops
\* the worker, or the receipt with nextRunAt cannot be written.
Wake(w) ==
  /\ job[w].at = "sleep"
  /\ Goto(w, "previous") \/ Goto(w, "stop")
  /\ UNCHANGED <<now, format, disk, memory, loading, history>>

Stop(w) ==
  /\ job[w].at = "stop"
  /\ Record(job[w].last)
  /\ Goto(w, "unlock")

Unlock(w) ==
  /\ job[w].at = "unlock"
  /\ lock' = None
  /\ End(w)
  /\ UNCHANGED <<now, format, file, sidecar, run, memory, loading, history>>

\* The receipt cannot be read or written; the last one leaves the lock behind.
FailToRecord(w) ==
  /\ \/ job[w].at \in {"previous", "begin", "report"}
        /\ job' = [job EXCEPT ![w].at = IF job[w].last = None THEN "unlock" ELSE "stop", ![w].run = 0]
     \/ job[w].at = "stop" /\ End(w)
  /\ UNCHANGED <<now, format, disk, memory, loading, history>>

Work(w) ==
  \/ Start(w) \/ ReadPrevious(w) \/ Begin(w) \/ Collect(w) \/ Inspect(w)
  \/ Report(w) \/ Wake(w) \/ Stop(w) \/ Unlock(w) \/ FailToRecord(w)
-----------------------------------------------------------------------------
(******************************** Faults ********************************)

Running(j) == job[j].at # "new"

\* A worker is killed: its lock stays.
Kill(w) ==
  /\ Running(w)
  /\ End(w)
  /\ awaiting' = [awaiting EXCEPT ![w] = NotPending]
  /\ UNCHANGED <<now, format, disk, cached, loading, history>>

\* The API is stopped and started again, with an empty memory.
Restart ==
  /\ cached' = 0 /\ awaiting' = [awaiting EXCEPT ![Server] = NotPending]
  /\ loading' = None
  /\ job' = [j \in Job |-> IF j \in Request THEN NoJob ELSE job[j]]
  /\ spared' = 0
  /\ UNCHANGED <<now, format, disk, accepted, saved>>

\* The operator reviews a retained lock: its worker does not run any more.
OwnerRecovers ==
  /\ lock # None /\ ~Running(lock)
  /\ lock' = None
  /\ UNCHANGED <<now, format, file, sidecar, run, memory, loading, job, history>>

Tick ==
  /\ now < MaxTime
  /\ now' = now + 1
  /\ UNCHANGED <<format, disk, memory, loading, job, history>>
-----------------------------------------------------------------------------
BallotNext ==
  \/ \E r \in Request : Lookup(r) \/ ReadArchive(r)
  \/ \E j \in Job : Load(j)
  \/ \E w \in Worker : Work(w) \/ Kill(w)
  \/ Restart \/ OwnerRecovers \/ Tick

BallotSpec == BallotInit /\ [][BallotNext]_ballotVars
-----------------------------------------------------------------------------
(****************************** Properties ******************************)

(***************************************************************************)
(* "An empty report cannot replace accepted candidate data": evidence that *)
(* there are no records yet, on disk or remembered by any process that     *)
(* still relies on it, is older than the first records that were accepted, *)
(* whoever accepted them while the empty export was on its way.            *)
(***************************************************************************)
EmptyNeverReplaces ==
  accepted > 0 =>
    /\ sidecar <= accepted
    /\ \A p \in Process : awaiting[p].until > now => awaiting[p].receipt <= accepted

(***************************************************************************)
(* docs/state-ballot-sources.md: fetches are "cached for four hours.       *)
(* Concurrent lookups share a pending fetch.  Failed/invalid fetches are   *)
(* cached for five minutes, then retried".  However many lookups come, the *)
(* API starts a fetch only after that time and while it has no other.      *)
(***************************************************************************)
FetchesAreSpared ==
  [][\A r \in Request : job[r].at # "fetch" /\ job'[r].at = "fetch" =>
       /\ now >= spared
       /\ \A k \in Request \ {r} : job[k].at \notin {"fetch", "save", "check", "hold"}]_ballotVars

(***************************************************************************)
(* Nothing compares what is stored with what replaces it, and two          *)
(* processes may overtake each other; but a process alone, whatever its    *)
(* lookups, passes and restarts, never replaces its own evidence by older. *)
(***************************************************************************)
OlderOnlyFromElsewhere ==
  [][file # None /\ file' # file /\ file'.retrieved < file.retrieved => file'.by # file.by]_ballotVars

(***************************************************************************)
(* docs/admin-operations.md: "Last successful collection/import clocks     *)
(* advance only after a fresh successful durable import".  Whatever was    *)
(* killed, failed or stopped between two passes, the clock of the receipt  *)
(* never goes back, and who advances it stored a snapshot in this pass.    *)
(***************************************************************************)
ImportClockIsBacked ==
  [][/\ run' >= run
     /\ run' > run =>
          \E w \in saved : lock = w /\ job[w].at = "report"]_ballotVars
=============================================================================
