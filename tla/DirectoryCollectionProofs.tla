--------------------- MODULE DirectoryCollectionProofs ---------------------
(***************************************************************************)
(* Proofs about DirectoryCollection, for every set of commands and every   *)
(* interval: a directory never goes back, keeps its predecessor, tells the *)
(* truth about what it collected and spares its publisher.                 *)
(***************************************************************************)
EXTENDS DirectoryCollection, TLAPS

-----------------------------------------------------------------------------
(************************* The inductive invariant ***********************)

\* A command that runs has the lock, so no other one runs.
Owned == \A c \in Command : Running(c) => lock = c

Storing == {"check", "backup", "replace"}
Started == {"begin", "request", "report", "fail"} \cup Storing

\* What is known of a command from the step it is at.
Knows(c) ==
  LET w == work[c] IN
  /\ w.at \in {"current", "receipt", "begin", "request"} => w.scope \in Scope
  /\ w.at \in Storing => w.snapshot \in Snapshot
  /\ w.collects /\ w.at \in Started => w.started \in Time /\ w.started <= now

\* What a command knows of the last collection: it may visit the publisher.
Waited(c) ==
  LET w == work[c] IN
  /\ w.at = "receipt" /\ envelope # None => ~Recent(envelope.retrieved)
  /\ Guarded /\ w.at \in {"begin", "request"} /\ visited # None => visited + Interval <= w.started
  /\ w.at = "request" => run # None /\ run.started = w.started
  /\ w.collects /\ w.at \in Started /\ visited # None => visited <= w.started

\* What it knows of the snapshot it stores.
Stores(c) ==
  LET w == work[c] IN
  /\ w.collects /\ w.at \in Storing => w.snapshot.retrieved >= w.started
  /\ w.at \in {"backup", "replace"} => w.accepted = envelope
  /\ w.at = "replace" => previous = envelope
  /\ w.at \in {"backup", "replace"} /\ envelope # None => ~Refuses(envelope, w.snapshot)
  /\ w.at = "report" /\ Guarded => envelope # None /\ envelope.retrieved >= w.started

\* What the files say together.
Agree ==
  /\ envelope = None => previous = None /\ replaced = None
  /\ PredecessorIsKept
  /\ Guarded => SuccessIsStored
  /\ visited # None => run # None /\ visited <= run.started /\ visited <= now

IInv ==
  /\ TypeOK /\ Owned /\ Agree
  /\ \A c \in Command : Knows(c) /\ Waited(c) /\ Stores(c)
-----------------------------------------------------------------------------
LEMMA SnapshotFields ==
  ASSUME NEW s \in Snapshot
  PROVE  s.retrieved \in Time /\ s.scope \in Scope /\ s.retrieved \in Nat /\ s.scope \in Nat
<1>1. s.retrieved \in Time /\ s.scope \in Scope
  BY DEF Snapshot
<1>2. Time \subseteq Nat
  BY DEF Time
<1>3. Scope \subseteq Nat
  BY DirectoryAssumption
<1> QED BY <1>1, <1>2, <1>3

\* None is no snapshot that is compared, no receipt and no time.
LEMMA WorkFields ==
  ASSUME TypeOK, NEW c \in Command
  PROVE  /\ work[c] \in Work
         /\ work[c].at \in CollectSteps \cup StoreSteps \cup {"new", "over"}
         /\ work[c].collects \in BOOLEAN
         /\ work[c].started \in Time \cup {None}
         /\ work[c].scope \in Scope \cup {None}
         /\ work[c].snapshot \in Snapshot \cup {None}
         /\ work[c].accepted \in Snapshot \cup {None}
<1>1. work[c] \in Work
  BY DEF TypeOK
<1> QED BY <1>1 DEF Work

\* While a command runs, the others do not.
LEMMA Alone ==
  ASSUME Owned, NEW c \in Command, Running(c), NEW d \in Command, d # c
  PROVE  ~Running(d)
BY DEF Owned

\* Of a command that does not run, nothing is known or needed.
LEMMA IdleKnows ==
  ASSUME NEW c \in Command, ~Running(c)
  PROVE  Knows(c) /\ Waited(c) /\ Stores(c)
BY DEF Running, CollectSteps, StoreSteps, Knows, Waited, Stores, Storing, Started

LEMMA SharedFields ==
  ASSUME TypeOK
  PROVE  /\ now \in Nat /\ Interval \in Nat /\ Time \subseteq Nat
         /\ envelope # None => envelope \in Snapshot /\ envelope.retrieved \in Nat /\ envelope.scope \in Nat
         /\ run # None => run \in Receipt /\ run.started \in Nat
         /\ visited # None => visited \in Nat
         /\ None \notin Snapshot /\ None \notin Receipt /\ None \notin Nat /\ None \notin Command
<1>1. Time \subseteq Nat
  BY DEF Time
<1>2. /\ Interval \in Nat /\ None \notin Snapshot /\ None \notin Receipt /\ None \notin Nat
      /\ None \notin Command
  BY DirectoryAssumption
<1>3. envelope # None => envelope \in Snapshot
  BY DEF TypeOK
<1>4. run # None => run \in Receipt /\ run.started \in Time
  BY DEF TypeOK, Receipt
<1>5. now \in Time /\ (visited # None => visited \in Time)
  BY DEF TypeOK
<1> QED BY <1>1, <1>2, <1>3, <1>4, <1>5, SnapshotFields

\* A command moves, and the others stay where they are.
LEMMA Moves ==
  ASSUME TypeOK, NEW c \in Command,
         NEW p \in CollectSteps \cup StoreSteps \cup {"new", "over"}, Goto(c, p)
  PROVE  /\ work' \in [Command -> Work]
         /\ work'[c] = [work[c] EXCEPT !.at = p]
         /\ work'[c].at = p /\ work'[c].collects = work[c].collects
         /\ work'[c].started = work[c].started /\ work'[c].scope = work[c].scope
         /\ work'[c].snapshot = work[c].snapshot /\ work'[c].accepted = work[c].accepted
         /\ \A d \in Command \ {c} : work'[d] = work[d]
<1>1. work \in [Command -> Work] /\ work[c] \in Work
  BY DEF TypeOK
<1>2. work' = [work EXCEPT ![c].at = p]
  BY DEF Goto
<1>3. [work[c] EXCEPT !.at = p] \in Work
  BY <1>1 DEF Work
<1> QED BY <1>1, <1>2, <1>3 DEF Work

\* A command ends.
LEMMA Ends ==
  ASSUME TypeOK, NEW c \in Command, End(c)
  PROVE  /\ work' \in [Command -> Work] /\ ~Running(c)' /\ work'[c].at = "over"
         /\ \A d \in Command \ {c} : work'[d] = work[d]
<1>1. work \in [Command -> Work] /\ work' = [work EXCEPT ![c] = Idle("over")]
  BY DEF TypeOK, End
<1>2. Idle("over") \in Work /\ Idle("over").at = "over"
  BY DEF Idle, Work
<1> QED BY <1>1, <1>2 DEF Running, CollectSteps, StoreSteps

\* The step of a command that runs: what is left to show of it.
LEMMA RunningStep ==
  ASSUME IInv, NEW c \in Command, Running(c),
         \A d \in Command \ {c} : work'[d] = work[d],
         Running(c)' => lock' = lock,
         TypeOK', Agree', Running(c)' => Knows(c)' /\ Waited(c)' /\ Stores(c)'
  PROVE  IInv'
<1>1. \A d \in Command \ {c} : ~Running(d)'
  BY Alone DEF IInv, Running
<1>2. Owned'
  BY <1>1 DEF IInv, Owned
<1>3. ASSUME NEW d \in Command PROVE Knows(d)' /\ Waited(d)' /\ Stores(d)'
  <2>1. CASE Running(d)'
    BY <1>1, <2>1
  <2>2. CASE ~Running(d)'
    BY <2>2 DEF Running, CollectSteps, StoreSteps, Knows, Waited, Stores, Storing, Started
  <2> QED BY <2>1, <2>2
<1> QED BY <1>2, <1>3 DEF IInv

\* Time goes on, or a command that does not run ends: the rest is as it was.
LEMMA KnowsOn ==
  ASSUME IInv, NEW d \in Command, work'[d] = work[d], UNCHANGED <<files, history>>, now' \in {now, now + 1}
  PROVE  Knows(d)' /\ Waited(d)' /\ Stores(d)'
<1>1. /\ now \in Nat /\ Interval \in Nat /\ Time \subseteq Nat
      /\ envelope # None => envelope.retrieved \in Nat
  BY SharedFields DEF IInv
<1>2. Knows(d) /\ Waited(d) /\ Stores(d)
  BY DEF IInv
<1>3. Knows(d)'
  <2>1. now' \in Nat /\ now <= now'
    BY <1>1
  <2>2. \A t \in Nat : t <= now => t <= now'
    BY <1>1, <2>1
  <2> QED BY <1>1, <1>2, <2>2 DEF Knows
<1>4. Waited(d)'
  BY <1>1, <1>2 DEF Waited, Recent, files, history
<1>5. Stores(d)'
  BY <1>2 DEF Stores, files, history, Refuses
<1> QED BY <1>3, <1>4, <1>5

\* A command that goes to another step, and leaves the files alone.
LEMMA PlainStep ==
  ASSUME IInv, NEW c \in Command, Running(c),
         NEW p \in CollectSteps \cup StoreSteps, Goto(c, p), p \in CollectSteps => work[c].collects,
         UNCHANGED <<now, lock, files, history>>,
         Running(c)' => Knows(c)' /\ Waited(c)' /\ Stores(c)'
  PROVE  IInv'
<1>1. work' \in [Command -> Work] /\ work'[c].at = p /\ work'[c].collects = work[c].collects
      /\ \A d \in Command \ {c} : work'[d] = work[d]
  BY Moves DEF IInv
<1>2. TypeOK'
  BY <1>1 DEF IInv, TypeOK, files, history
<1>3. Agree'
  BY DEF IInv, Agree, PredecessorIsKept, SuccessIsStored, files, history
<1> QED BY <1>1, <1>2, <1>3, RunningStep DEF files, history
-----------------------------------------------------------------------------
(******************* Every step preserves the invariant *******************)

LEMMA InitEstablishes == Init => IInv
<1> SUFFICES ASSUME Init PROVE IInv
  OBVIOUS
<1>1. \A c \in Command : work[c] = Idle("new") /\ work[c].at = "new" /\ ~Running(c)
  BY DEF Init, Idle, Running, CollectSteps, StoreSteps
<1>2. Idle("new") \in Work
  BY DEF Idle, Work
<1>3. 0 \in Time
  BY DirectoryAssumption DEF Time
<1>4. TypeOK
  BY <1>1, <1>2, <1>3 DEF Init, TypeOK, CollectSteps
<1>5. Owned /\ Agree
  BY <1>1 DEF Init, Owned, Agree, PredecessorIsKept, SuccessIsStored
<1>6. \A c \in Command : Knows(c) /\ Waited(c) /\ Stores(c)
  BY <1>1, IdleKnows
<1> QED BY <1>4, <1>5, <1>6 DEF IInv

LEMMA IdleSteps ==
  ASSUME IInv, NEW c \in Command, FindLocked(c) \/ FailToMark(c)
  PROVE  IInv'
<1>1. UNCHANGED <<now, files, history>> /\ End(c) /\ work[c].at = "new"
  BY DEF FindLocked, FailToMark
<1>2. /\ work' \in [Command -> Work] /\ ~Running(c)' /\ work'[c].at = "over"
      /\ \A d \in Command \ {c} : work'[d] = work[d]
  BY <1>1, Ends DEF IInv
<1>3. lock' = lock \/ (lock = None /\ lock' = "blank")
  BY DEF FindLocked, FailToMark
<1>4. TypeOK'
  BY <1>1, <1>2, <1>3 DEF IInv, TypeOK, files, history, CollectSteps
<1>5. Owned'
  <2>1. ASSUME NEW d \in Command, Running(d)' PROVE lock' = d
    <3>1. d # c /\ Running(d)
      BY <1>2, <2>1 DEF Running
    <3>2. lock = d /\ d # None
      BY <3>1, DirectoryAssumption DEF IInv, Owned
    <3> QED BY <1>3, <3>2
  <2> QED BY <2>1 DEF Owned
<1>6. Agree'
  BY <1>1 DEF IInv, Agree, PredecessorIsKept, SuccessIsStored, files, history
<1>7. ASSUME NEW d \in Command PROVE Knows(d)' /\ Waited(d)' /\ Stores(d)'
  <2>1. CASE d = c
    BY <1>2, <2>1 DEF Running, CollectSteps, StoreSteps, Knows, Waited, Stores, Storing, Started
  <2>2. CASE d # c
    BY <1>1, <1>2, <2>2, KnowsOn
  <2> QED BY <2>1, <2>2
<1> QED BY <1>4, <1>5, <1>6, <1>7 DEF IInv

LEMMA LockStep ==
  ASSUME IInv, NEW c \in Command, Lock(c)
  PROVE  IInv'
<1>1. /\ work[c].at = "new" /\ lock = None /\ lock' = c /\ UNCHANGED <<now, files, history>>
      /\ work \in [Command -> Work]
  BY DEF Lock, IInv, TypeOK
<1>2. PICK w \in {Collector(s) : s \in Scope}
                 \cup {Importer(snapshot) : snapshot \in {t \in Snapshot : t.retrieved <= now}} :
        work' = [work EXCEPT ![c] = w]
  BY DEF Lock
<1>3. /\ w \in Work
      /\ \/ w.at = "current" /\ w.collects = TRUE /\ w.scope \in Scope
         \/ w.at = "check" /\ w.collects = FALSE /\ w.snapshot \in Snapshot
  <2>1. CASE w \in {Collector(s) : s \in Scope}
    <3>1. PICK s \in Scope : w = Collector(s)
      BY <2>1
    <3> QED BY <3>1 DEF Collector, Idle, Work, CollectSteps
  <2>2. CASE w \in {Importer(snapshot) : snapshot \in {t \in Snapshot : t.retrieved <= now}}
    <3>1. PICK s \in Snapshot : w = Importer(s)
      BY <2>2
    <3>2. s.scope \in Scope
      BY SnapshotFields
    <3> QED BY <3>1, <3>2 DEF Importer, Idle, Work, StoreSteps
  <2> QED BY <1>2, <2>1, <2>2
<1>4. /\ work' \in [Command -> Work] /\ work'[c] = w
      /\ \A d \in Command \ {c} : work'[d] = work[d]
  BY <1>1, <1>2, <1>3
<1>5. \A d \in Command : ~Running(d)
  BY <1>1, DirectoryAssumption DEF IInv, Owned
<1>6. \A d \in Command \ {c} : ~Running(d)'
  BY <1>4, <1>5 DEF Running
<1>7. TypeOK'
  BY <1>1, <1>3, <1>4 DEF IInv, TypeOK, files, history, CollectSteps
<1>8. Owned'
  BY <1>1, <1>6 DEF Owned
<1>9. Agree'
  BY <1>1 DEF IInv, Agree, PredecessorIsKept, SuccessIsStored, files, history
<1>10. Knows(c)' /\ Waited(c)' /\ Stores(c)'
  BY <1>3, <1>4 DEF Knows, Waited, Stores, Storing, Started
<1>11. ASSUME NEW d \in Command PROVE Knows(d)' /\ Waited(d)' /\ Stores(d)'
  <2>1. CASE d = c
    BY <1>10, <2>1
  <2>2. CASE d # c
    BY <1>6, <2>2 DEF Running, CollectSteps, StoreSteps, Knows, Waited, Stores, Storing, Started
  <2> QED BY <2>1, <2>2
<1> QED BY <1>7, <1>8, <1>9, <1>11 DEF IInv

LEMMA EndSteps ==
  ASSUME IInv, NEW c \in Command, Unlock(c) \/ Kill(c)
  PROVE  IInv'
<1>1. Running(c) /\ End(c) /\ UNCHANGED <<now, files, history>> /\ lock' \in {lock, None}
  BY DEF Unlock, Kill, Running, StoreSteps
<1>2. /\ work' \in [Command -> Work] /\ ~Running(c)' /\ work'[c].at = "over"
      /\ \A d \in Command \ {c} : work'[d] = work[d]
  BY <1>1, Ends DEF IInv
<1>3. TypeOK'
  BY <1>1, <1>2 DEF IInv, TypeOK, files, history, CollectSteps
<1>4. Agree'
  BY <1>1 DEF IInv, Agree, PredecessorIsKept, SuccessIsStored, files, history
<1> QED BY <1>1, <1>2, <1>3, <1>4, RunningStep

LEMMA ReadCurrentStep ==
  ASSUME IInv, NEW c \in Command, ReadCurrent(c)
  PROVE  IInv'
<1>1. /\ work[c].at = "current" /\ work[c].collects /\ Running(c)
      /\ UNCHANGED <<now, lock, files, history>>
  BY DEF ReadCurrent, IInv, TypeOK, Running, CollectSteps
<1>2. Knows(c)
  BY DEF IInv
<1>3. CASE Goto(c, "unlock")
  <2>1. work'[c].at = "unlock"
    BY <1>3, Moves DEF IInv, StoreSteps
  <2>2. Knows(c)' /\ Waited(c)' /\ Stores(c)'
    BY <2>1 DEF Knows, Waited, Stores, Storing, Started
  <2> QED BY <1>1, <1>3, <2>2, PlainStep DEF StoreSteps, CollectSteps
<1>4. CASE Goto(c, "receipt") /\ (envelope # None => ~Recent(envelope.retrieved))
  <2>1. work'[c].at = "receipt" /\ work'[c].scope = work[c].scope
    BY <1>4, Moves DEF IInv, CollectSteps
  <2>2. Knows(c)' /\ Waited(c)' /\ Stores(c)'
    BY <1>1, <1>2, <1>4, <2>1 DEF Knows, Waited, Stores, Storing, Started, Recent, files
  <2> QED BY <1>1, <1>4, <2>2, PlainStep DEF CollectSteps
<1> QED BY <1>3, <1>4 DEF ReadCurrent

\* A collection that begins starts an interval after the last one.
LEMMA WaitIsOver ==
  ASSUME IInv, Guarded, visited # None, envelope # None => ~Recent(envelope.retrieved),
         ~(run # None /\ run.status \in Backoff /\ Recent(run.started))
  PROVE  visited + Interval <= now
<1>1. /\ now \in Nat /\ Interval \in Nat /\ visited \in Nat
      /\ envelope # None => envelope.retrieved \in Nat
  BY SharedFields DEF IInv
<1>2. run # None /\ visited <= run.started /\ run.started \in Nat /\ run \in Receipt
  BY SharedFields DEF IInv, Agree
<1>3. CASE run.status \in Backoff
  BY <1>1, <1>2, <1>3 DEF Recent
<1>4. CASE run.status \notin Backoff
  <2>1. run.status = "succeeded"
    BY <1>2, <1>4 DEF Backoff, Receipt
  <2>2. envelope # None /\ envelope.retrieved >= run.started
    BY <1>2, <2>1 DEF IInv, Agree, SuccessIsStored
  <2> QED BY <1>1, <1>2, <2>2 DEF Recent
<1> QED BY <1>3, <1>4

LEMMA ReadReceiptStep ==
  ASSUME IInv, NEW c \in Command, ReadReceipt(c)
  PROVE  IInv'
<1>1. /\ work[c].at = "receipt" /\ work[c].collects /\ Running(c)
      /\ UNCHANGED <<now, lock, files, history>>
  BY DEF ReadReceipt, IInv, TypeOK, Running, CollectSteps
<1>2. Knows(c) /\ Waited(c)
  BY DEF IInv
<1>3. CASE Goto(c, "unlock")
  <2>1. work'[c].at = "unlock"
    BY <1>3, Moves DEF IInv, StoreSteps
  <2>2. Knows(c)' /\ Waited(c)' /\ Stores(c)'
    BY <2>1 DEF Knows, Waited, Stores, Storing, Started
  <2> QED BY <1>1, <1>3, <2>2, PlainStep DEF StoreSteps, CollectSteps
<1>4. CASE /\ ~(run # None /\ run.status \in Backoff /\ Recent(run.started))
           /\ work' = [work EXCEPT ![c].at = "begin", ![c].started = now]
  <2>1. work \in [Command -> Work] /\ work[c] \in Work /\ now \in Time
    BY DEF IInv, TypeOK
  <2>2. /\ work'[c] = [work[c] EXCEPT !.at = "begin", !.started = now]
        /\ \A d \in Command \ {c} : work'[d] = work[d]
    BY <1>4, <2>1
  <2>3. [work[c] EXCEPT !.at = "begin", !.started = now] \in Work
    BY <2>1 DEF Work, CollectSteps
  <2>4. /\ work' \in [Command -> Work] /\ work'[c].at = "begin" /\ work'[c].started = now
        /\ work'[c].scope = work[c].scope /\ work'[c].collects = work[c].collects
    BY <1>4, <2>1, <2>2, <2>3 DEF Work
  <2>5. TypeOK'
    BY <1>1, <2>2, <2>4 DEF IInv, TypeOK, files, history
  <2>6. Agree'
    BY <1>1 DEF IInv, Agree, PredecessorIsKept, SuccessIsStored, files, history
  <2>7. Guarded /\ visited # None => visited + Interval <= now
    BY <1>1, <1>2, <1>4, WaitIsOver DEF Waited
  <2>8. visited # None => visited <= now
    BY DEF IInv, Agree
  <2>9. Waited(c)'
    BY <1>1, <2>4, <2>7, <2>8 DEF Waited, files, history
  <2>10. now <= now
    BY SharedFields DEF IInv
  <2>11. Knows(c)' /\ Stores(c)'
    BY <1>1, <1>2, <2>1, <2>4, <2>10 DEF Knows, Stores, Storing
  <2> QED BY <1>1, <2>2, <2>4, <2>5, <2>6, <2>9, <2>11, RunningStep
<1> QED BY <1>3, <1>4 DEF ReadReceipt

\* A collection that writes its receipt and goes on: what is left to show.
LEMMA RecordStep ==
  ASSUME IInv, NEW c \in Command, work[c].at \in {"begin", "report", "fail"},
         NEW status \in {"running", "succeeded", "failed"}, NEW p \in {"request", "unlock"},
         p = "request" => work[c].at = "begin",
         Record(c, work[c].at, status, p),
         status = "succeeded" /\ Guarded => envelope # None /\ envelope.retrieved >= work[c].started
  PROVE  IInv'
<1>1. /\ work[c].collects /\ Running(c) /\ Goto(c, p) /\ UNCHANGED <<now, lock, envelope, previous, history>>
      /\ run' = [status |-> status, started |-> work[c].started]
  BY DEF Record, IInv, TypeOK, Running, CollectSteps
<1>2. Knows(c) /\ Waited(c)
  BY DEF IInv
<1>3. work[c].started \in Time
  BY <1>1, <1>2 DEF Knows, Started
<1>4. run' \in Receipt /\ run' # None /\ run'.status = status /\ run'.started = work[c].started
  BY <1>1, <1>3, DirectoryAssumption DEF Receipt
<1>5. /\ work' \in [Command -> Work] /\ work'[c].at = p /\ work'[c].collects = work[c].collects
      /\ work'[c].started = work[c].started /\ work'[c].scope = work[c].scope
      /\ \A d \in Command \ {c} : work'[d] = work[d]
  BY <1>1, Moves DEF IInv, CollectSteps, StoreSteps
<1>6. TypeOK'
  BY <1>1, <1>4, <1>5 DEF IInv, TypeOK, history
<1>7. visited # None => visited <= work[c].started
  BY <1>1, <1>2 DEF Waited, Started
<1>8. Agree'
  BY <1>1, <1>4, <1>7 DEF IInv, Agree, PredecessorIsKept, SuccessIsStored, history
<1>9. Knows(c)' /\ Stores(c)'
  BY <1>1, <1>2, <1>5 DEF Knows, Stores, Storing, Started
<1>10. Waited(c)'
  <2>1. CASE p = "unlock"
    BY <1>5, <2>1 DEF Waited, Started, Storing
  <2>2. CASE p = "request"
    BY <1>1, <1>2, <1>4, <1>5, <1>7, <2>2 DEF Waited, Started, history
  <2> QED BY <2>1, <2>2
<1> QED BY <1>1, <1>5, <1>6, <1>8, <1>9, <1>10, RunningStep

LEMMA RecordSteps ==
  ASSUME IInv, NEW c \in Command, Begin(c) \/ Report(c) \/ ReportFailure(c)
  PROVE  IInv'
<1>1. CASE Begin(c)
  BY <1>1, RecordStep DEF Begin, Record
<1>2. CASE Report(c)
  <2>1. work[c].at = "report" /\ Stores(c)
    BY <1>2 DEF Report, Record, IInv
  <2>2. Guarded => envelope # None /\ envelope.retrieved >= work[c].started
    BY <2>1 DEF Stores
  <2> QED BY <1>2, <2>1, <2>2, RecordStep DEF Report, Record
<1>3. CASE ReportFailure(c)
  BY <1>3, RecordStep DEF ReportFailure, Record
<1> QED BY <1>1, <1>2, <1>3

LEMMA RequestStep ==
  ASSUME IInv, NEW c \in Command, Request(c)
  PROVE  IInv'
<1>1. /\ work[c].at = "request" /\ work[c].collects /\ Running(c)
      /\ visited' = work[c].started /\ UNCHANGED <<now, lock, files, replaced>>
  BY DEF Request, IInv, TypeOK, Running, CollectSteps
<1>2. Knows(c) /\ Waited(c)
  BY DEF IInv
<1>3. /\ work[c].started \in Time /\ work[c].started <= now /\ work[c].scope \in Scope
      /\ run # None /\ run.started = work[c].started
  BY <1>1, <1>2 DEF Knows, Waited, Started
<1>4. work[c].started \in Nat /\ now \in Nat /\ now \in Time
  BY <1>3, SharedFields DEF IInv, TypeOK
<1>5. Agree'
  BY <1>1, <1>3, <1>4 DEF IInv, Agree, PredecessorIsKept, SuccessIsStored, files
<1>6. CASE Goto(c, "fail")
  <2>1. /\ work' \in [Command -> Work] /\ work'[c].at = "fail" /\ work'[c].collects = work[c].collects
        /\ work'[c].started = work[c].started /\ \A d \in Command \ {c} : work'[d] = work[d]
    BY <1>6, Moves DEF IInv, CollectSteps
  <2>2. TypeOK'
    BY <1>1, <1>3, <2>1 DEF IInv, TypeOK, files
  <2>3. Knows(c)' /\ Waited(c)' /\ Stores(c)'
    BY <1>1, <1>3, <1>4, <2>1 DEF Knows, Waited, Stores, Storing, Started
  <2> QED BY <1>1, <1>5, <2>1, <2>2, <2>3, RunningStep
<1>7. CASE work' = [work EXCEPT ![c].at = "check",
                                ![c].snapshot = [retrieved |-> now, scope |-> work[c].scope]]
  <2> DEFINE new == [retrieved |-> now, scope |-> work[c].scope]
  <2>1. new \in Snapshot /\ new.retrieved = now
    BY <1>3, <1>4 DEF Snapshot
  <2>2. work \in [Command -> Work] /\ work[c] \in Work
    BY DEF IInv, TypeOK
  <2>3. /\ work'[c] = [work[c] EXCEPT !.at = "check", !.snapshot = new]
        /\ \A d \in Command \ {c} : work'[d] = work[d]
    BY <1>7, <2>2
  <2>4. [work[c] EXCEPT !.at = "check", !.snapshot = new] \in Work
    BY <2>1, <2>2 DEF Work, StoreSteps
  <2>5. /\ work' \in [Command -> Work] /\ work'[c].at = "check" /\ work'[c].snapshot = new
        /\ work'[c].started = work[c].started /\ work'[c].collects = work[c].collects
    BY <1>7, <2>2, <2>3, <2>4 DEF Work
  <2> HIDE DEF new
  <2>6. TypeOK'
    BY <1>1, <1>3, <2>3, <2>5 DEF IInv, TypeOK, files
  <2>7. Knows(c)' /\ Waited(c)'
    BY <1>1, <1>3, <1>4, <2>1, <2>5 DEF Knows, Waited, Storing, Started
  <2>8. Stores(c)'
    BY <1>3, <1>4, <2>1, <2>5 DEF Stores, Storing
  <2> QED BY <1>1, <1>5, <2>3, <2>5, <2>6, <2>7, <2>8, RunningStep
<1> QED BY <1>6, <1>7 DEF Request

\* What a command knows when an error leads it to the end, or to the report.
LEMMA FailedStep ==
  ASSUME IInv, NEW c \in Command, work[c].at \in Storing \cup {"report"}, Goto(c, Failed(c)),
         UNCHANGED <<now, lock, files, history>>
  PROVE  IInv'
<1>1. Running(c) /\ Failed(c) \in {"fail", "unlock"} /\ (Failed(c) = "fail" => work[c].collects)
  BY DEF Failed, Running, Storing, CollectSteps, StoreSteps
<1>2. /\ work'[c].at = Failed(c) /\ work'[c].started = work[c].started
      /\ work'[c].collects = work[c].collects
  BY <1>1, Moves DEF IInv, CollectSteps, StoreSteps
<1>3. Knows(c) /\ Waited(c)
  BY DEF IInv
<1>4. Failed(c) = "fail" => /\ work[c].started \in Time /\ work[c].started <= now
                            /\ (visited # None => visited <= work[c].started)
  BY <1>1, <1>3 DEF Knows, Waited, Started, Storing
<1>5. Knows(c)' /\ Waited(c)' /\ Stores(c)'
  BY <1>1, <1>2, <1>4 DEF Knows, Waited, Stores, Started, Storing, history
<1> QED BY <1>1, <1>5, PlainStep DEF CollectSteps, StoreSteps

LEMMA CheckStep ==
  ASSUME IInv, NEW c \in Command, Check(c)
  PROVE  IInv'
<1>1. /\ work[c].at = "check" /\ Running(c) /\ UNCHANGED <<now, lock, files, history>>
  BY DEF Check, Running, StoreSteps
<1>2. CASE Goto(c, Failed(c))
  BY <1>1, <1>2, FailedStep DEF Storing
<1>3. CASE /\ ~(envelope # None /\ Refuses(envelope, work[c].snapshot))
           /\ work' = [work EXCEPT ![c].at = IF envelope = None THEN "replace" ELSE "backup",
                                   ![c].accepted = envelope]
  <2> DEFINE p == IF envelope = None THEN "replace" ELSE "backup"
  <2>1. work \in [Command -> Work] /\ work[c] \in Work /\ envelope \in Snapshot \cup {None}
    BY DEF IInv, TypeOK
  <2>2. p \in StoreSteps
    BY DEF StoreSteps
  <2>3. /\ work'[c] = [work[c] EXCEPT !.at = p, !.accepted = envelope]
        /\ \A d \in Command \ {c} : work'[d] = work[d]
    BY <1>3, <2>1
  <2>4. [work[c] EXCEPT !.at = p, !.accepted = envelope] \in Work
    BY <2>1, <2>2 DEF Work
  <2>5. /\ work' \in [Command -> Work] /\ work'[c].at = p /\ work'[c].accepted = envelope
        /\ work'[c].started = work[c].started /\ work'[c].collects = work[c].collects
        /\ work'[c].snapshot = work[c].snapshot
    BY <1>3, <2>1, <2>3, <2>4 DEF Work
  <2>6. p \in {"replace", "backup"} /\ (p = "replace" => envelope = None)
    OBVIOUS
  <2> HIDE DEF p
  <2>7. TypeOK'
    BY <1>1, <2>3, <2>5, <2>6 DEF IInv, TypeOK, files, history, CollectSteps
  <2>8. Agree'
    BY <1>1 DEF IInv, Agree, PredecessorIsKept, SuccessIsStored, files, history
  <2>9. Knows(c) /\ Waited(c) /\ Stores(c) /\ Agree
    BY DEF IInv
  <2>10. Knows(c)' /\ Waited(c)'
    BY <1>1, <2>5, <2>6, <2>9 DEF Knows, Waited, Storing, Started, history
  <2>11. Stores(c)'
    BY <1>1, <1>3, <2>5, <2>6, <2>9 DEF Stores, Storing, Agree, files, Refuses
  <2> QED BY <1>1, <2>3, <2>5, <2>7, <2>8, <2>10, <2>11, RunningStep
<1> QED BY <1>2, <1>3 DEF Check

LEMMA BackupStep ==
  ASSUME IInv, NEW c \in Command, Backup(c)
  PROVE  IInv'
<1>1. /\ work[c].at = "backup" /\ Running(c) /\ Goto(c, "replace") /\ previous' = work[c].accepted
      /\ UNCHANGED <<now, lock, envelope, run, history>>
  BY DEF Backup, Running, StoreSteps
<1>2. Knows(c) /\ Waited(c) /\ Stores(c)
  BY DEF IInv
<1>3. /\ work' \in [Command -> Work] /\ work'[c].at = "replace" /\ work'[c].accepted = work[c].accepted
      /\ work'[c].started = work[c].started /\ work'[c].collects = work[c].collects
      /\ work'[c].snapshot = work[c].snapshot /\ \A d \in Command \ {c} : work'[d] = work[d]
  BY <1>1, Moves DEF IInv, StoreSteps
<1>4. previous' = envelope
  BY <1>1, <1>2 DEF Stores
<1>5. TypeOK'
  BY <1>1, <1>3, <1>4 DEF IInv, TypeOK, history, CollectSteps
<1>6. Agree'
  BY <1>1, <1>4 DEF IInv, Agree, PredecessorIsKept, SuccessIsStored, history
<1>7. Knows(c)' /\ Waited(c)'
  BY <1>1, <1>2, <1>3 DEF Knows, Waited, Storing, Started, history
<1>8. Stores(c)'
  BY <1>1, <1>2, <1>3, <1>4 DEF Stores, Storing, Refuses
<1> QED BY <1>1, <1>3, <1>5, <1>6, <1>7, <1>8, RunningStep

\* What replaces the accepted snapshot is not older and not smaller.
LEMMA ReplacesForward ==
  ASSUME IInv, Guarded, NEW c \in Command, Replace(c), envelope # None
  PROVE  /\ envelope' # None
         /\ envelope'.retrieved >= envelope.retrieved /\ envelope'.scope >= envelope.scope
<1>1. work[c].at = "replace" /\ envelope' = work[c].snapshot /\ Knows(c) /\ Stores(c)
  BY DEF Replace, IInv
<1>2. work[c].snapshot \in Snapshot /\ ~Refuses(envelope, work[c].snapshot)
  BY <1>1 DEF Knows, Stores, Storing
<1>3. /\ envelope \in Snapshot /\ None \notin Snapshot
      /\ envelope.retrieved \in Nat /\ envelope.scope \in Nat
  BY SharedFields DEF IInv
<1>4. work[c].snapshot.retrieved \in Nat /\ work[c].snapshot.scope \in Nat
  BY <1>2, SnapshotFields
<1> QED BY <1>1, <1>2, <1>3, <1>4 DEF Refuses

LEMMA ReplaceStep ==
  ASSUME IInv, NEW c \in Command, Replace(c)
  PROVE  IInv'
<1> DEFINE p == IF work[c].collects THEN "report" ELSE "unlock"
<1>1. /\ work[c].at = "replace" /\ Running(c) /\ Goto(c, p)
      /\ envelope' = work[c].snapshot /\ replaced' = envelope
      /\ UNCHANGED <<now, lock, previous, run, visited>>
  BY DEF Replace, Running, StoreSteps
<1>2. Knows(c) /\ Waited(c) /\ Stores(c) /\ Agree
  BY DEF IInv
<1>3. p \in {"report", "unlock"} /\ (p = "report" => work[c].collects)
  OBVIOUS
<1> HIDE DEF p
<1>4. /\ work' \in [Command -> Work] /\ work'[c].at = p
      /\ work'[c].started = work[c].started /\ work'[c].collects = work[c].collects
      /\ \A d \in Command \ {c} : work'[d] = work[d]
  BY <1>1, <1>3, Moves DEF IInv, StoreSteps, CollectSteps
<1>5. /\ work[c].snapshot \in Snapshot /\ None \notin Snapshot /\ previous = envelope
      /\ work[c].snapshot.retrieved \in Nat
  BY <1>1, <1>2, SnapshotFields, SharedFields DEF IInv, Knows, Stores, Storing
<1>6. TypeOK'
  BY <1>1, <1>3, <1>4, <1>5 DEF IInv, TypeOK, CollectSteps
<1>7. Guarded => SuccessIsStored'
  <2> SUFFICES ASSUME Guarded, run' # None, run'.status = "succeeded"
               PROVE  envelope' # None /\ envelope'.retrieved >= run'.started
    BY DEF SuccessIsStored
  <2>1. run' = run /\ envelope # None /\ envelope.retrieved >= run.started
    BY <1>1, <1>2 DEF Agree, SuccessIsStored
  <2>2. envelope' # None /\ envelope'.retrieved >= envelope.retrieved /\ envelope' = work[c].snapshot
    BY <1>1, <2>1, ReplacesForward
  <2>3. run.started \in Nat /\ envelope.retrieved \in Nat
    BY <2>1, SharedFields DEF IInv
  <2> QED BY <1>5, <2>1, <2>2, <2>3
<1>8. Agree'
  BY <1>1, <1>2, <1>5, <1>7 DEF Agree, PredecessorIsKept
<1>9. Knows(c)' /\ Waited(c)'
  BY <1>1, <1>2, <1>3, <1>4 DEF Knows, Waited, Storing, Started
<1>10. Stores(c)'
  BY <1>1, <1>2, <1>3, <1>4, <1>5 DEF Stores, Storing
<1> QED BY <1>1, <1>4, <1>6, <1>8, <1>9, <1>10, RunningStep

LEMMA FailStep ==
  ASSUME IInv, NEW c \in Command, Fail(c)
  PROVE  IInv'
<1>1. UNCHANGED <<now, lock, files, history>>
  BY DEF Fail
<1>2. CASE work[c].at \in {"current", "receipt", "begin", "fail"} /\ Goto(c, "unlock")
  <2>1. work'[c].at = "unlock" /\ Running(c)
    BY <1>2, Moves DEF IInv, StoreSteps, CollectSteps, Running
  <2>2. Knows(c)' /\ Waited(c)' /\ Stores(c)'
    BY <2>1 DEF Knows, Waited, Stores, Storing, Started
  <2> QED BY <1>1, <1>2, <2>1, <2>2, PlainStep DEF StoreSteps, CollectSteps
<1>3. CASE work[c].at \in {"check", "backup", "replace", "report"} /\ Goto(c, Failed(c))
  BY <1>1, <1>3, FailedStep DEF Storing
<1> QED BY <1>2, <1>3 DEF Fail

LEMMA OwnerStep ==
  ASSUME IInv, OwnerRecovers
  PROVE  IInv'
<1>1. lock' = None /\ UNCHANGED <<now, files, work, history>> /\ \A c \in Command : ~Running(c)
  BY DEF OwnerRecovers, IInv, Owned
<1>2. TypeOK'
  BY <1>1 DEF IInv, TypeOK, files, history
<1>3. Owned'
  BY <1>1 DEF Owned, Running
<1>4. Agree'
  BY <1>1 DEF IInv, Agree, PredecessorIsKept, SuccessIsStored, files, history
<1>5. \A c \in Command : Knows(c)' /\ Waited(c)' /\ Stores(c)'
  BY <1>1, KnowsOn
<1> QED BY <1>2, <1>3, <1>4, <1>5 DEF IInv

LEMMA TickStep ==
  ASSUME IInv, Tick
  PROVE  IInv'
<1>1. now' = now + 1 /\ now < MaxTime /\ UNCHANGED <<lock, files, work, history>>
  BY DEF Tick
<1>2. /\ now \in Nat /\ (visited # None => visited \in Nat) /\ MaxTime \in Nat
      /\ now \in Time /\ now' \in Time
  BY <1>1, DirectoryAssumption, SharedFields DEF IInv, TypeOK, Time
<1>3. TypeOK'
  BY <1>1, <1>2 DEF IInv, TypeOK, files, history
<1>4. Owned'
  BY <1>1 DEF IInv, Owned, Running
<1>5. Agree'
  BY <1>1, <1>2 DEF IInv, Agree, PredecessorIsKept, SuccessIsStored, files, history
<1>6. \A c \in Command : Knows(c)' /\ Waited(c)' /\ Stores(c)'
  BY <1>1, KnowsOn
<1> QED BY <1>3, <1>4, <1>5, <1>6 DEF IInv

LEMMA StutterStep ==
  ASSUME IInv, UNCHANGED vars
  PROVE  IInv'
<1>1. UNCHANGED <<now, lock, files, work, history>>
  BY DEF vars, files, history
<1>2. TypeOK' /\ Owned' /\ Agree'
  BY <1>1 DEF IInv, TypeOK, Owned, Running, Agree, PredecessorIsKept, SuccessIsStored, files, history
<1>3. \A c \in Command : Knows(c)' /\ Waited(c)' /\ Stores(c)'
  BY <1>1, KnowsOn
<1> QED BY <1>2, <1>3 DEF IInv

LEMMA NextPreserves == IInv /\ [Next]_vars => IInv'
<1> SUFFICES ASSUME IInv, [Next]_vars PROVE IInv'
  OBVIOUS
<1>1. ASSUME NEW c \in Command, Run(c) PROVE IInv'
  <2>1. CASE Lock(c)
    BY <2>1, LockStep
  <2>2. CASE FindLocked(c) \/ FailToMark(c)
    BY <2>2, IdleSteps
  <2>3. CASE Unlock(c) \/ Kill(c)
    BY <2>3, EndSteps
  <2>4. CASE ReadCurrent(c)
    BY <2>4, ReadCurrentStep
  <2>5. CASE ReadReceipt(c)
    BY <2>5, ReadReceiptStep
  <2>6. CASE Begin(c) \/ Report(c) \/ ReportFailure(c)
    BY <2>6, RecordSteps
  <2>7. CASE Request(c)
    BY <2>7, RequestStep
  <2>8. CASE Check(c)
    BY <2>8, CheckStep
  <2>9. CASE Backup(c)
    BY <2>9, BackupStep
  <2>10. CASE Replace(c)
    BY <2>10, ReplaceStep
  <2>11. CASE Fail(c)
    BY <2>11, FailStep
  <2> QED BY <1>1, <2>1, <2>2, <2>3, <2>4, <2>5, <2>6, <2>7, <2>8, <2>9, <2>10, <2>11 DEF Run
<1>2. CASE OwnerRecovers
  BY <1>2, OwnerStep
<1>3. CASE Tick
  BY <1>3, TickStep
<1>4. CASE UNCHANGED vars
  BY <1>4, StutterStep
<1> QED BY <1>1, <1>2, <1>3, <1>4 DEF Next

LEMMA Inductive == Spec => []IInv
BY InitEstablishes, NextPreserves, PTL DEF Spec
-----------------------------------------------------------------------------
(******************************* Theorems ********************************)

(***************************************************************************)
(* Every variable keeps its type: a command that imports never reaches a   *)
(* step that writes the receipt of a collection.                           *)
(***************************************************************************)
THEOREM DirectoryTyped == Spec => []TypeOK
<1>1. IInv => TypeOK
  BY DEF IInv
<1> QED BY <1>1, Inductive, PTL

(***************************************************************************)
(* The file of the predecessor never holds anything older than what the    *)
(* accepted snapshot replaced, for the four directories.                   *)
(***************************************************************************)
THEOREM PredecessorKept == Spec => []PredecessorIsKept
<1>1. IInv => PredecessorIsKept
  BY DEF IInv, Agree
<1> QED BY <1>1, Inductive, PTL

(***************************************************************************)
(* In a guarded directory, a receipt of success is about stored records.   *)
(***************************************************************************)
THEOREM SuccessStored ==
  ASSUME Guarded
  PROVE  Spec => []SuccessIsStored
<1>1. IInv => SuccessIsStored
  BY DEF IInv, Agree
<1> QED BY <1>1, Inductive, PTL

(***************************************************************************)
(* In a guarded directory, no step replaces the accepted snapshot by an    *)
(* older one or by a smaller inventory.                                    *)
(***************************************************************************)
THEOREM DirectoryNeverGoesBack ==
  ASSUME Guarded
  PROVE  Spec => NeverGoesBack
<1> DEFINE Forward == envelope # None => /\ envelope' # None
                                        /\ envelope'.retrieved >= envelope.retrieved
                                        /\ envelope'.scope >= envelope.scope
<1>1. ASSUME IInv, [Next]_vars PROVE Forward
  <2>1. ASSUME NEW c \in Command, Replace(c) PROVE Forward
    BY <1>1, <2>1, ReplacesForward
  <2>2. ASSUME envelope' = envelope PROVE Forward
    BY <1>1, <2>2, SharedFields DEF IInv
  <2>3. envelope' = envelope \/ \E c \in Command : Replace(c)
    BY <1>1 DEF Next, Run, Lock, FindLocked, FailToMark, Unlock, ReadCurrent, ReadReceipt, Begin, Report,
       ReportFailure, Record, Request, Check, Backup, Fail, Kill, OwnerRecovers, Tick, vars, files
  <2> QED BY <2>1, <2>2, <2>3
<1>2. IInv /\ [Next]_vars => [Forward]_vars
  BY <1>1
<1> QED BY <1>2, Inductive, PTL DEF Spec, NeverGoesBack

(***************************************************************************)
(* In a guarded directory, two collections that reach the publisher start  *)
(* an interval apart, whatever fails, is killed or is imported in between. *)
(***************************************************************************)
THEOREM PublisherSpared ==
  ASSUME Guarded
  PROVE  Spec => PublisherIsSpared
<1> DEFINE Spared == \A c \in Command :
                       Request(c) /\ visited # None => work[c].started >= visited + Interval
<1>1. ASSUME IInv PROVE Spared
  <2> SUFFICES ASSUME NEW c \in Command, Request(c), visited # None
               PROVE  work[c].started >= visited + Interval
    OBVIOUS
  <2>1. work[c].at = "request" /\ work[c].collects /\ Knows(c) /\ Waited(c)
    BY <1>1 DEF Request, IInv, TypeOK, CollectSteps
  <2>2. work[c].started \in Time /\ visited + Interval <= work[c].started
    BY <2>1 DEF Knows, Waited, Started
  <2>3. work[c].started \in Nat /\ visited \in Nat /\ Interval \in Nat
    BY <1>1, <2>2, SharedFields DEF IInv
  <2> QED BY <2>2, <2>3
<1>2. IInv /\ [Next]_vars => [Spared]_vars
  BY <1>1
<1> QED BY <1>2, Inductive, PTL DEF Spec, PublisherIsSpared
=============================================================================
