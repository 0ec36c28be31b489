------------------------ MODULE DirectoryCollection ------------------------
(***************************************************************************)
(* The retained directories of officeholders and judges: the commands that *)
(* collect one from its publisher or import one from a file, the exclusive *)
(* lock they share, the receipt of the last collection, and the accepted   *)
(* envelope with its predecessor.  The county offices and the two courts   *)
(* (Guarded) and the county commission (not Guarded) follow one protocol   *)
(* with two guards of difference.                                          *)
(*                                                                         *)
(* A command is a process that may be killed at any step: the lock stays   *)
(* behind until an operator removes it.  A file is replaced as a whole.    *)
(***************************************************************************)
EXTENDS Naturals

CONSTANTS
  Command,   \* the commands that are run
  Scope,     \* inventories, by schemaVersion; the scope a collection asks for
  Guarded,   \* whether older evidence and interrupted runs are guarded
  Interval,  \* minimumRefreshIntervalMs
  MaxTime,   \* bound: the last tick
  None

Time == 0 .. MaxTime

\* A snapshot of the officeholders, as it was when its retrieval began.
Snapshot == [retrieved : Time, scope : Scope]

\* The receipt of a collection, automation-run.json.
Receipt == [status : {"running", "succeeded", "failed"}, started : Time]

ASSUME DirectoryAssumption ==
  /\ Scope \subseteq Nat /\ Guarded \in BOOLEAN
  /\ Interval \in Nat /\ MaxTime \in Nat
  /\ None \notin Nat /\ None \notin Command /\ None \notin Snapshot /\ None \notin Receipt

VARIABLES
  now,       \* Date.now()
  lock,      \* the command whose token the lock file holds, "blank" or None
  envelope,  \* the accepted snapshot, or None
  previous,  \* the file of its predecessor, or None
  run,       \* the receipt of the last collection, or None
  work,      \* work[c]: the next step of command c and what it has read
  replaced,  \* history: the snapshot that the accepted one replaced
  visited    \* history: when the last collection that made requests started

vars == <<now, lock, envelope, previous, run, work, replaced, visited>>
files == <<envelope, previous, run>>
history == <<replaced, visited>>

CollectSteps == {"current", "receipt", "begin", "request", "report", "fail"}
StoreSteps == {"check", "backup", "replace", "unlock"}

Work ==
  [at : CollectSteps \cup StoreSteps \cup {"new", "over"},
   collects : BOOLEAN,               \* else the command imports
   started : Time \cup {None},       \* startedAt of the collection
   scope : Scope \cup {None},        \* what it collects or imports
   snapshot : Snapshot \cup {None},  \* what it is to store
   accepted : Snapshot \cup {None}]  \* what it read to keep as predecessor

Idle(at) == [at |-> at, collects |-> FALSE, started |-> None, scope |-> None,
             snapshot |-> None, accepted |-> None]

TypeOK ==
  /\ now \in Time
  /\ lock \in Command \cup {"blank", None}
  /\ {envelope, previous, replaced} \subseteq Snapshot \cup {None}
  /\ run \in Receipt \cup {None}
  /\ work \in [Command -> Work]
  /\ \A c \in Command : work[c].at \in CollectSteps => work[c].collects
  /\ visited \in Time \cup {None}

Init ==
  /\ now = 0
  /\ lock = None
  /\ envelope = None /\ previous = None /\ run = None
  /\ work = [c \in Command |-> Idle("new")]
  /\ replaced = None /\ visited = None

Goto(c, step) == work' = [work EXCEPT ![c].at = step]
End(c) == work' = [work EXCEPT ![c] = Idle("over")]
-----------------------------------------------------------------------------
(****************************** The lock ********************************)

Collector(s) == [Idle("current") EXCEPT !.collects = TRUE, !.scope = s]
Importer(snapshot) == [Idle("check") EXCEPT !.scope = snapshot.scope, !.snapshot = snapshot]

\* open(path, "wx"), then the token: a collection, or the import of a file
\* whose snapshot is valid, that is, not of the future.
Lock(c) ==
  /\ work[c].at = "new" /\ lock = None
  /\ lock' = c
  /\ \E w \in {Collector(s) : s \in Scope}
             \cup {Importer(snapshot) : snapshot \in {t \in Snapshot : t.retrieved <= now}} :
       work' = [work EXCEPT ![c] = w]
  /\ UNCHANGED <<now, files, history>>

\* EEXIST: another command has the lock, or left it behind.
FindLocked(c) ==
  /\ work[c].at = "new" /\ lock # None
  /\ End(c)
  /\ UNCHANGED <<now, lock, files, history>>

\* The token cannot be written: the lock file is not this command's to remove.
FailToMark(c) ==
  /\ work[c].at = "new" /\ lock = None
  /\ lock' = "blank"
  /\ End(c)
  /\ UNCHANGED <<now, files, history>>

Unlock(c) ==
  /\ work[c].at = "unlock"
  /\ lock' = IF lock = c THEN None ELSE lock
  /\ End(c)
  /\ UNCHANGED <<now, files, history>>
-----------------------------------------------------------------------------
(***************************** Collection *******************************)

Recent(t) == t + Interval > now

\* A recent snapshot is not collected again, nor in a smaller scope.
ReadCurrent(c) ==
  /\ work[c].at = "current"
  /\ IF envelope # None /\ (Recent(envelope.retrieved) \/ envelope.scope > work[c].scope)
     THEN Goto(c, "unlock")
     ELSE Goto(c, "receipt")
  /\ UNCHANGED <<now, lock, files, history>>

\* Mutant: a run that was cut short does not count.
BackoffFailed == {"failed"}

\* The outcomes of the last collection after which the next one waits.
Backoff == IF Guarded THEN {"failed", "running"} ELSE {"failed"}

ReadReceipt(c) ==
  /\ work[c].at = "receipt"
  /\ IF run # None /\ run.status \in Backoff /\ Recent(run.started)
     THEN Goto(c, "unlock")
     ELSE work' = [work EXCEPT ![c].at = "begin", ![c].started = now]
  /\ UNCHANGED <<now, lock, files, history>>

\* writeAutomationRun.
Record(c, step, status, next) ==
  /\ work[c].at = step
  /\ run' = [status |-> status, started |-> work[c].started]
  /\ Goto(c, next)
  /\ UNCHANGED <<now, lock, envelope, previous, history>>

Begin(c) == Record(c, "begin", "running", "request")

\* The requests to the publisher; retrievedAt is when the first was answered.
Request(c) ==
  /\ work[c].at = "request"
  /\ visited' = work[c].started
  /\ \/ work' = [work EXCEPT ![c].at = "check",
                             ![c].snapshot = [retrieved |-> now, scope |-> work[c].scope]]
     \/ Goto(c, "fail")
  /\ UNCHANGED <<now, lock, files, replaced>>

Report(c) == Record(c, "report", "succeeded", "unlock")
ReportFailure(c) == Record(c, "fail", "failed", "unlock")
-----------------------------------------------------------------------------
(***************** Storing what was collected or imported ****************)

\* Where an error leads: a collection records it, an import just ends.
Failed(c) == IF work[c].collects THEN "fail" ELSE "unlock"

\* Mutant: older evidence is refused only from the same inventory.
RefusesSameScope(current, snapshot) ==
  current.scope = snapshot.scope /\ current.retrieved > snapshot.retrieved

\* Older evidence, or a smaller inventory, than what is accepted.
Refuses(current, snapshot) ==
  Guarded /\ (current.scope > snapshot.scope \/ current.retrieved > snapshot.retrieved)

Check(c) ==
  /\ work[c].at = "check"
  /\ IF envelope # None /\ Refuses(envelope, work[c].snapshot)
     THEN Goto(c, Failed(c))
     ELSE work' = [work EXCEPT ![c].at = IF envelope = None THEN "replace" ELSE "backup",
                               ![c].accepted = envelope]
  /\ UNCHANGED <<now, lock, files, history>>

\* Mutant: a predecessor that is there already is kept.
BackupOnce(c) ==
  /\ work[c].at = "backup"
  /\ previous' = IF previous = None THEN work[c].accepted ELSE previous
  /\ Goto(c, "replace")
  /\ UNCHANGED <<now, lock, envelope, run, history>>

Backup(c) ==
  /\ work[c].at = "backup"
  /\ previous' = work[c].accepted
  /\ Goto(c, "replace")
  /\ UNCHANGED <<now, lock, envelope, run, history>>

Replace(c) ==
  /\ work[c].at = "replace"
  /\ envelope' = work[c].snapshot
  /\ replaced' = envelope
  /\ Goto(c, IF work[c].collects THEN "report" ELSE "unlock")
  /\ UNCHANGED <<now, lock, previous, run, visited>>
-----------------------------------------------------------------------------
(******************************** Faults ********************************)

\* A file cannot be read or written; before the receipt, nothing is recorded.
Fail(c) ==
  /\ \/ work[c].at \in {"current", "receipt", "begin", "fail"} /\ Goto(c, "unlock")
     \/ work[c].at \in {"check", "backup", "replace", "report"} /\ Goto(c, Failed(c))
  /\ UNCHANGED <<now, lock, files, history>>

Running(c) == work[c].at \in CollectSteps \cup StoreSteps

Kill(c) ==
  /\ Running(c)
  /\ End(c)
  /\ UNCHANGED <<now, lock, files, history>>

\* The operator removes a lock whose command does not run any more.
OwnerRecovers ==
  /\ lock # None /\ \A c \in Command : lock = c => ~Running(c)
  /\ lock' = None
  /\ UNCHANGED <<now, files, work, history>>

Tick ==
  /\ now < MaxTime
  /\ now' = now + 1
  /\ UNCHANGED <<lock, files, work, history>>
-----------------------------------------------------------------------------
Run(c) ==
  \/ Lock(c) \/ FindLocked(c) \/ FailToMark(c) \/ Unlock(c)
  \/ ReadCurrent(c) \/ ReadReceipt(c) \/ Begin(c) \/ Request(c) \/ Report(c) \/ ReportFailure(c)
  \/ Check(c) \/ Backup(c) \/ Replace(c)
  \/ Fail(c) \/ Kill(c)

Next == (\E c \in Command : Run(c)) \/ OwnerRecovers \/ Tick

Spec == Init /\ [][Next]_vars
-----------------------------------------------------------------------------
(****************************** Properties ******************************)

(***************************************************************************)
(* docs/fulton-magistrate-court.md: a minimum refresh interval and         *)
(* "interrupted-run backoff".  Whatever fails, is killed or is imported in *)
(* between, two collections that reach the publisher start an interval     *)
(* apart.  (Where Guarded does not hold, it takes one killed collection    *)
(* and a removed lock to break this.)                                      *)
(***************************************************************************)
PublisherIsSpared ==
  [][\A c \in Command : Request(c) /\ visited # None => work[c].started >= visited + Interval]_vars

(***************************************************************************)
(* "Older evidence cannot replace a newer accepted snapshot", nor a        *)
(* smaller inventory a larger one: the check is made on what is replaced.  *)
(***************************************************************************)
NeverGoesBack ==
  [][envelope # None => /\ envelope' # None
                        /\ envelope'.retrieved >= envelope.retrieved
                        /\ envelope'.scope >= envelope.scope]_vars

(***************************************************************************)
(* A receipt that reports a success is about records that are stored: what *)
(* is accepted is at least as recent as the collection.                    *)
(***************************************************************************)
SuccessIsStored ==
  run # None /\ run.status = "succeeded" => envelope # None /\ envelope.retrieved >= run.started

(***************************************************************************)
(* "The exact preceding envelope is retained": the file of the predecessor *)
(* holds what the accepted envelope replaced, or, when a replacement was   *)
(* cut short after the copy, the accepted envelope itself; never anything  *)
(* older.                                                                  *)
(***************************************************************************)
PredecessorIsKept == previous \in {replaced, envelope}
=============================================================================
