---------------------------- MODULE PrivateHandoff ----------------------------
(***************************************************************************)
(* Delivery of private release packets: the runs of the sender             *)
(* (deliverHandoffWithReceipt and deliverHandoff), the requests they send, *)
(* and the receiver that stores packets in its inbox (accept).             *)
(*                                                                         *)
(* A run keeps the identity of a payload in a file, so that a retry uses   *)
(* it again, and the receipt in another.  A request may be lost, late or   *)
(* answered to nobody: an attempt that timed out may still be running.     *)
(*                                                                         *)
(* A directory is seen by every process at once, but it is on the disk     *)
(* only after a synchronisation.  "past" holds what the directory has been *)
(* since then: a process that is killed loses nothing, a loss of power     *)
(* brings back any of these.                                               *)
(***************************************************************************)
EXTENDS Naturals, FiniteSets

CONSTANTS
  Payload,      \* packets, by payloadSha256 (one key, one audience)
  Id,           \* identities, randomUUID
  Run,          \* the runs of the sender
  Attempts,     \* attempts of one run; 3 in deliverHandoff
  MaxActive,    \* requests the receiver admits at a time; 2 in the code
  MaxEntries,   \* maximumEntries of the inbox
  MaxFaults,    \* bound: kills, losses of power and failed removals
  None,         \* no file
  Torn          \* a file that was created, not written

ASSUME ConstantsAssumption ==
  /\ Attempts \in Nat \ {0} /\ MaxActive \in Nat /\ MaxEntries \in Nat /\ MaxFaults \in Nat
  /\ IsFiniteSet(Id)
  /\ {None, Torn} \cap (Payload \cup Id) = {} /\ None # Torn

VARIABLES
  inbox,     \* the inbox directory, as the receiver sees it
  past,      \* what it has been since it was synchronised
  receipts,  \* the receipts directory of the sender
  retained,  \* what it has been since it was synchronised
  point,     \* point[r]: the next step of run r
  packet,    \* packet[r]: the payload and the identity run r delivers, and how
  tried,     \* tried[r]: attempts of run r
  request,   \* request[d]: the request of attempt d and what handles it
  faults     \* faults so far

vars == <<inbox, past, receipts, retained, point, packet, tried, request, faults>>

Inbox == [packets : [Id -> Payload \cup {None}],  \* under their identities
          incoming : Nat,                         \* temporary directories
          lock : BOOLEAN]                         \* .intake.lock

Receipts == [request : [Payload -> Id \cup {None, Torn}],
             receipt : [Id -> Payload \cup {None, Torn}]]

\* A direct run calls deliverHandoff with an identity of its own choice.
Packet == [payload : Payload, id : Id \cup {None}, direct : BOOLEAN]

Attempt == Run \X (1 .. Attempts)

Reporting == {"createReceipt", "writeReceipt", "syncReceipt", "delivered"}
Ended == {"delivered", "failed", "killed"}
RunPoint == {"new", "create", "write", "syncRequest", "findReceipt", "send", "wait"}
            \cup Reporting \cup Ended

Locked == {"look", "confirm", "stage", "rename", "sync", "discard", "unlock"}
Request == [at : {"unsent", "sent", "admitted", "answered", "gone"} \cup Locked,
            answer : {"none", "stored", "retry", "refuse"}]

Unsent == [at |-> "unsent", answer |-> "none"]

TypeOK ==
  /\ inbox \in Inbox /\ inbox \in past /\ past \subseteq Inbox
  /\ receipts \in Receipts /\ receipts \in retained /\ retained \subseteq Receipts
  /\ point \in [Run -> RunPoint]
  /\ packet \in [Run -> Packet]
  /\ \A r \in Run : point[r] \notin {"new", "killed", "failed"} => packet[r].id \in Id
  /\ tried \in [Run -> 0 .. Attempts]
  /\ request \in [Attempt -> Request]
  /\ faults \in 0 .. MaxFaults

Init ==
  /\ inbox = [packets |-> [i \in Id |-> None], incoming |-> 0, lock |-> FALSE]
  /\ past = {inbox}
  /\ receipts = [request |-> [p \in Payload |-> None], receipt |-> [i \in Id |-> None]]
  /\ retained = {receipts}
  /\ point = [r \in Run |-> "new"]
  /\ packet \in [Run -> [payload : Payload, id : {None}, direct : BOOLEAN]]
  /\ tried = [r \in Run |-> 0]
  /\ request = [d \in Attempt |-> Unsent]
  /\ faults = 0

\* A change of the directory that is not synchronised yet.
ChangeInbox(dir) == inbox' = dir /\ past' = past \cup {dir}
SyncInbox == past' = {inbox} /\ UNCHANGED inbox
ChangeReceipts(dir) == receipts' = dir /\ retained' = retained \cup {dir}
SyncRetained == retained' = {receipts} /\ UNCHANGED receipts

sender == <<receipts, retained, point, packet, tried>>
receiver == <<inbox, past>>

Goto(r, p) == point' = [point EXCEPT ![r] = p]
-----------------------------------------------------------------------------
(****************************** The sender ******************************)

\* An identity nobody has drawn.
Fresh == Id \ ({packet[r].id : r \in Run} \cup {receipts.request[p] : p \in Payload})

\* What a run does with the request file it has read.
UseRequest(r, file) ==
  IF file = Torn
  THEN Goto(r, "failed") /\ UNCHANGED packet
  ELSE Goto(r, "findReceipt") /\ packet' = [packet EXCEPT ![r].id = file]

StartRun(r) ==
  /\ point[r] = "new" /\ ~packet[r].direct
  /\ LET file == receipts.request[packet[r].payload] IN
     \/ file # None /\ UseRequest(r, file)
     \/ /\ file = None
        /\ \E i \in Fresh : packet' = [packet EXCEPT ![r].id = i]
        /\ Goto(r, "create")
  /\ UNCHANGED <<receiver, receipts, retained, tried, request, faults>>

\* deliverHandoff alone: the caller gives the identity, a used one perhaps.
StartDirect(r) ==
  /\ point[r] = "new" /\ packet[r].direct
  /\ \E i \in Id : packet' = [packet EXCEPT ![r].id = i]
  /\ Goto(r, "send")
  /\ UNCHANGED <<receiver, receipts, retained, tried, request, faults>>

\* open(requestFile, "wx"): the file is there and empty, or another run's.
CreateRequest(r) ==
  /\ point[r] = "create"
  /\ LET file == receipts.request[packet[r].payload] IN
     \/ /\ file = None
        /\ ChangeReceipts([receipts EXCEPT !.request[packet[r].payload] = Torn])
        /\ Goto(r, "write") /\ UNCHANGED packet
     \/ file # None /\ UseRequest(r, file) /\ UNCHANGED <<receipts, retained>>
  /\ UNCHANGED <<receiver, tried, request, faults>>

WriteRequest(r) ==
  /\ point[r] = "write"
  /\ ChangeReceipts([receipts EXCEPT !.request[packet[r].payload] = packet[r].id])
  /\ Goto(r, "syncRequest")
  /\ UNCHANGED <<receiver, packet, tried, request, faults>>

SyncRequest(r) ==
  /\ point[r] = "syncRequest"
  /\ SyncRetained
  /\ Goto(r, "findReceipt")
  /\ UNCHANGED <<receiver, packet, tried, request, faults>>

FindReceipt(r) ==
  /\ point[r] = "findReceipt"
  /\ LET file == receipts.receipt[packet[r].id] IN
     Goto(r, IF file = None THEN "send"
             ELSE IF file = packet[r].payload THEN "delivered" ELSE "failed")
  /\ UNCHANGED <<receiver, receipts, retained, packet, tried, request, faults>>

Send(r) ==
  /\ point[r] = "send"
  /\ tried' = [tried EXCEPT ![r] = @ + 1]
  /\ request' = [request EXCEPT ![<<r, tried'[r]>>].at = "sent"]
  /\ Goto(r, "wait")
  /\ UNCHANGED <<receiver, receipts, retained, packet, faults>>

\* The pause before the next attempt, or the error of the last one.
Again(r) == IF tried[r] < Attempts THEN "send" ELSE "failed"

GetAnswer(r) ==
  /\ point[r] = "wait" /\ request[<<r, tried[r]>>].at = "answered"
  /\ LET answer == request[<<r, tried[r]>>].answer IN
     Goto(r, IF answer = "retry" THEN Again(r)
             ELSE IF answer = "refuse" THEN "failed"
             ELSE IF packet[r].direct THEN "delivered" ELSE "createReceipt")
  /\ UNCHANGED <<receiver, receipts, retained, packet, tried, request, faults>>

\* AbortSignal.timeout or a network error: the request may be anywhere.
Timeout(r) ==
  /\ point[r] = "wait"
  /\ Goto(r, Again(r))
  /\ UNCHANGED <<receiver, receipts, retained, packet, tried, request, faults>>

CreateReceipt(r) ==
  /\ point[r] = "createReceipt"
  /\ LET file == receipts.receipt[packet[r].id] IN
     \/ /\ file = None
        /\ ChangeReceipts([receipts EXCEPT !.receipt[packet[r].id] = Torn])
        /\ Goto(r, "writeReceipt")
     \/ /\ file # None
        /\ Goto(r, IF file = packet[r].payload THEN "syncReceipt" ELSE "failed")
        /\ UNCHANGED <<receipts, retained>>
  /\ UNCHANGED <<receiver, packet, tried, request, faults>>

WriteReceipt(r) ==
  /\ point[r] = "writeReceipt"
  /\ ChangeReceipts([receipts EXCEPT !.receipt[packet[r].id] = packet[r].payload])
  /\ Goto(r, "syncReceipt")
  /\ UNCHANGED <<receiver, packet, tried, request, faults>>

SyncReceipt(r) ==
  /\ point[r] = "syncReceipt"
  /\ SyncRetained
  /\ Goto(r, "delivered")
  /\ UNCHANGED <<receiver, packet, tried, request, faults>>
-----------------------------------------------------------------------------
(***************************** The receiver *****************************)

Active == {d \in Attempt : request[d].at \in {"admitted"} \cup Locked}
Holding == {d \in Attempt : request[d].at \in Locked}

Id_(d) == packet[d[1]].id
Payload_(d) == packet[d[1]].payload

At(d, p) == request' = [request EXCEPT ![d].at = p]
Answer(d, p, answer) == request' = [request EXCEPT ![d] = [at |-> p, answer |-> answer]]

\* createHandoffReceiver: at most two deliveries at a time, 429 otherwise.
Admit(d) ==
  /\ request[d].at = "sent"
  /\ \/ Cardinality(Active) < MaxActive /\ At(d, "admitted")
     \/ Cardinality(Active) >= MaxActive /\ Answer(d, "answered", "retry")
  /\ UNCHANGED <<receiver, sender, faults>>

\* Mutant: the lock file is opened whether or not it exists.
MayLockAlways == TRUE

\* open(".intake.lock", "wx")
MayLock == ~inbox.lock

Lock(d) ==
  /\ request[d].at = "admitted"
  /\ \/ MayLock /\ ChangeInbox([inbox EXCEPT !.lock = TRUE]) /\ At(d, "look")
     \/ ~MayLock /\ Answer(d, "answered", "retry") /\ UNCHANGED receiver
  /\ UNCHANGED <<sender, faults>>

Entries == Cardinality({i \in Id : inbox.packets[i] # None}) + inbox.incoming

\* The identity is known, used by another payload, or new; 507 when full.
Look(d) ==
  /\ request[d].at = "look"
  /\ LET stored == inbox.packets[Id_(d)] IN
     \/ stored = Payload_(d) /\ At(d, "confirm")
     \/ stored \notin {None, Payload_(d)} /\ Answer(d, "unlock", "refuse")
     \/ stored = None /\ Entries >= MaxEntries /\ Answer(d, "unlock", "refuse")
     \/ stored = None /\ Entries < MaxEntries /\ At(d, "stage")
  /\ UNCHANGED <<receiver, sender, faults>>

\* Mutant: a packet that is seen is taken for durable.
ConfirmUnsynced(d) ==
  /\ request[d].at = "confirm"
  /\ UNCHANGED receiver
  /\ Answer(d, "unlock", "stored")
  /\ UNCHANGED <<sender, faults>>

\* A duplicate: the stored files are verified, then the directory is synced.
Confirm(d) ==
  /\ request[d].at = "confirm"
  /\ SyncInbox
  /\ Answer(d, "unlock", "stored")
  /\ UNCHANGED <<sender, faults>>

\* mkdtemp
Stage(d) ==
  /\ request[d].at = "stage"
  /\ ChangeInbox([inbox EXCEPT !.incoming = @ + 1])
  /\ At(d, "rename")
  /\ UNCHANGED <<sender, faults>>

\* The files are written and synced; the directory takes its name.
Rename(d) ==
  /\ request[d].at = "rename" /\ inbox.packets[Id_(d)] = None
  /\ ChangeInbox([inbox EXCEPT !.packets[Id_(d)] = Payload_(d), !.incoming = @ - 1])
  /\ At(d, "sync")
  /\ UNCHANGED <<sender, faults>>

Sync(d) ==
  /\ request[d].at = "sync"
  /\ SyncInbox
  /\ Answer(d, "unlock", "stored")
  /\ UNCHANGED <<sender, faults>>

\* An error: 503, after the temporary directory is removed.
Fail(d) ==
  /\ \/ request[d].at = "rename" /\ Answer(d, "discard", "retry")
     \/ request[d].at \in {"look", "confirm", "stage", "sync"} /\ Answer(d, "unlock", "retry")
  /\ UNCHANGED <<receiver, sender, faults>>

Discard(d) ==
  /\ request[d].at = "discard"
  /\ ChangeInbox([inbox EXCEPT !.incoming = @ - 1])
  /\ At(d, "unlock")
  /\ UNCHANGED <<sender, faults>>

\* Mutant: a refused packet is answered at once.
UnlockUnlessRefused(d) ==
  /\ request[d].at = "unlock"
  /\ \/ request[d].answer = "refuse" /\ UNCHANGED receiver
     \/ request[d].answer # "refuse" /\ ChangeInbox([inbox EXCEPT !.lock = FALSE])
  /\ At(d, "answered")
  /\ UNCHANGED <<sender, faults>>

\* The lock is unlinked, then the answer is sent.
Unlock(d) ==
  /\ request[d].at = "unlock"
  /\ ChangeInbox([inbox EXCEPT !.lock = FALSE])
  /\ At(d, "answered")
  /\ UNCHANGED <<sender, faults>>
-----------------------------------------------------------------------------
(******************************** Faults ********************************)

Fault == faults < MaxFaults /\ faults' = faults + 1

KillRun(r) ==
  /\ Fault /\ point[r] \notin Ended \cup {"new"}
  /\ Goto(r, "killed")
  /\ UNCHANGED <<receiver, receipts, retained, packet, tried, request>>

SenderLosesPower ==
  /\ Fault
  /\ point' = [r \in Run |-> IF point[r] \in Ended \cup {"new"} THEN point[r] ELSE "killed"]
  /\ receipts' \in retained /\ retained' = {receipts'}
  /\ UNCHANGED <<receiver, packet, tried, request>>

Interrupted ==
  [d \in Attempt |-> IF d \in Active THEN [request[d] EXCEPT !.at = "gone"] ELSE request[d]]

KillReceiver ==
  /\ Fault /\ Active # {}
  /\ request' = Interrupted
  /\ UNCHANGED <<receiver, sender>>

ReceiverLosesPower ==
  /\ Fault
  /\ request' = Interrupted
  /\ inbox' \in past /\ past' = {inbox'}
  /\ UNCHANGED sender

\* rm of the temporary directory throws: the lock is never unlinked.
FailToDiscard(d) ==
  /\ Fault /\ request[d].at = "discard"
  /\ Answer(d, "answered", "retry")
  /\ UNCHANGED <<receiver, sender>>

\* The owner removes what an interrupted delivery left.
OwnerRecovers ==
  /\ Holding = {} /\ (inbox.lock \/ inbox.incoming > 0)
  /\ ChangeInbox([inbox EXCEPT !.lock = FALSE, !.incoming = 0])
  /\ UNCHANGED <<sender, request, faults>>
-----------------------------------------------------------------------------
RunStep(r) ==
  \/ StartRun(r) \/ StartDirect(r) \/ CreateRequest(r) \/ WriteRequest(r) \/ SyncRequest(r)
  \/ FindReceipt(r) \/ Send(r) \/ GetAnswer(r) \/ Timeout(r)
  \/ CreateReceipt(r) \/ WriteReceipt(r) \/ SyncReceipt(r)

Handle(d) ==
  \/ Admit(d) \/ Lock(d) \/ Look(d) \/ Confirm(d) \/ Stage(d) \/ Rename(d) \/ Sync(d)
  \/ Fail(d) \/ Discard(d) \/ Unlock(d) \/ FailToDiscard(d)

Next ==
  \/ \E r \in Run : RunStep(r) \/ KillRun(r)
  \/ \E d \in Attempt : Handle(d)
  \/ SenderLosesPower \/ KillReceiver \/ ReceiverLosesPower \/ OwnerRecovers

Spec == Init /\ [][Next]_vars
-----------------------------------------------------------------------------
(****************************** Properties ******************************)

Durable(i, p) == \A dir \in past : dir.packets[i] = p

Kept == [i \in Id |-> IF \E p \in Payload : Durable(i, p) THEN inbox.packets[i] ELSE None]

Delivered ==
  {<<packet[r].id, packet[r].payload>> : r \in {r \in Run : point[r] = "delivered"}}

Custody == INSTANCE HandoffCustody WITH custody <- Kept, reported <- Delivered

(***************************************************************************)
(* docs/private-release-handoff.md: "A matching durable receipt is         *)
(* required before reporting delivery", "last accepted packets remain      *)
(* intact", "conflicting reuse returns 409".  Whatever is lost, repeated,  *)
(* killed or loses its power, a run reports a delivery only when the inbox *)
(* keeps that payload under that identity for good.                        *)
(***************************************************************************)
ImplementsCustody == Custody!Spec

(***************************************************************************)
(* "The inbox has an exclusive writer lock": one delivery at a time works  *)
(* on the inbox, and no answer, early or late, leaves the lock behind; it  *)
(* takes a crash for that.                                                 *)
(***************************************************************************)
LockHasOneOwner ==
  /\ \A d, e \in Holding : d = e
  /\ Holding # {} => inbox.lock
  /\ faults = 0 /\ inbox.lock => Holding # {}

(***************************************************************************)
(* maximumEntries bounds packets and temporary directories together,       *)
(* whatever runs at once and whatever a loss of power brings back.         *)
(***************************************************************************)
WithinCapacity ==
  \A dir \in past :
    Cardinality({i \in Id : dir.packets[i] # None}) + dir.incoming <= MaxEntries
=============================================================================
