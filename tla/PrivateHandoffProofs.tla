------------------------ MODULE PrivateHandoffProofs ------------------------
(* The inbox has one writer at a time, and a delivery that is reported is   *)
(* kept for good, whatever is lost, repeated, killed or without power.      *)
EXTENDS PrivateHandoff, FiniteSetTheorems, TLAPS

\* The conjuncts of TypeOK about the sender, and those about the receiver.
SenderTyped ==
  /\ receipts \in Receipts /\ receipts \in retained /\ retained \subseteq Receipts
  /\ point \in [Run -> RunPoint]
  /\ packet \in [Run -> Packet]
  /\ \A r \in Run : point[r] \notin {"new", "killed", "failed"} => packet[r].id \in Id
  /\ tried \in [Run -> 0 .. Attempts]

InboxTyped == inbox \in Inbox /\ inbox \in past /\ past \subseteq Inbox

RequestTyped == request \in [Attempt -> Request] /\ faults \in 0 .. MaxFaults

Untried == {"new", "create", "write", "syncRequest", "findReceipt"}

\* A run that waits has tried; one that is about to send may try.
TriesCounted ==
  \A r \in Run : /\ point[r] = "wait" => tried[r] \in 1 .. Attempts
                 /\ point[r] = "send" => tried[r] < Attempts
                 /\ point[r] \in Untried => tried[r] = 0

\* The attempts a run has not come to are not sent.
UnsentLater ==
  \A r \in Run : \A k \in 1 .. Attempts : k > tried[r] => request[<<r, k>>] = Unsent

\* A temporary directory that is used is there.
Staged == \A d \in Attempt : request[d].at \in {"rename", "discard"} => inbox.incoming > 0

TInv == /\ SenderTyped /\ InboxTyped /\ RequestTyped /\ TriesCounted /\ UnsentLater
        /\ LockHasOneOwner /\ Staged
-----------------------------------------------------------------------------
\* TypeOK is the conjunction of its parts.
LEMMA TypedParts == TypeOK <=> SenderTyped /\ InboxTyped /\ RequestTyped
BY DEF TypeOK, SenderTyped, InboxTyped, RequestTyped

\* A run moves, and the others stay where they are.
LEMMA RunMoves ==
  ASSUME SenderTyped, NEW r \in Run, NEW p \in RunPoint, Goto(r, p)
  PROVE  /\ point' \in [Run -> RunPoint] /\ point'[r] = p
         /\ \A q \in Run \ {r} : point'[q] = point[q]
BY DEF SenderTyped, Goto

LEMMA RunPoints ==
  {"new", "create", "write", "syncRequest", "findReceipt", "send", "wait", "createReceipt",
   "writeReceipt", "syncReceipt", "delivered", "failed", "killed"} \subseteq RunPoint
BY DEF RunPoint, Reporting, Ended

\* A run that moves on with the packet it has.
LEMMA RunMovesOn ==
  ASSUME SenderTyped, TriesCounted, NEW r \in Run, NEW p \in RunPoint \ {"new", "wait"}, Goto(r, p),
         point[r] \notin {"new", "killed", "failed"}, p = "send" => tried[r] < Attempts, p \in Untried => tried[r] = 0,
         UNCHANGED <<packet, tried>>,
         receipts' \in Receipts, receipts' \in retained', retained' \subseteq Receipts
  PROVE  SenderTyped' /\ TriesCounted'
<1>1. point' \in [Run -> RunPoint] /\ point'[r] = p /\ \A q \in Run \ {r} : point'[q] = point[q]
  BY RunMoves
<1> QED
  BY <1>1 DEF SenderTyped, TriesCounted, Untried

\* The files of the sender are written one at a time.
LEMMA RequestWritten ==
  ASSUME SenderTyped, NEW p \in Payload, NEW f \in Id \cup {None, Torn},
         ChangeReceipts([receipts EXCEPT !.request[p] = f])
  PROVE  receipts' \in Receipts /\ receipts' \in retained' /\ retained' \subseteq Receipts
<1>1. [receipts.request EXCEPT ![p] = f] \in [Payload -> Id \cup {None, Torn}]
  BY DEF SenderTyped, Receipts
<1>2. [receipts EXCEPT !.request = [receipts.request EXCEPT ![p] = f]] \in Receipts
  BY <1>1 DEF SenderTyped, Receipts
<1> QED
  BY <1>2 DEF SenderTyped, ChangeReceipts

LEMMA ReceiptWritten ==
  ASSUME SenderTyped, NEW i \in Id, NEW g \in Payload \cup {None, Torn},
         ChangeReceipts([receipts EXCEPT !.receipt[i] = g])
  PROVE  receipts' \in Receipts /\ receipts' \in retained' /\ retained' \subseteq Receipts
<1>1. [receipts.receipt EXCEPT ![i] = g] \in [Id -> Payload \cup {None, Torn}]
  BY DEF SenderTyped, Receipts
<1>2. [receipts EXCEPT !.receipt = [receipts.receipt EXCEPT ![i] = g]] \in Receipts
  BY <1>1 DEF SenderTyped, Receipts
<1> QED
  BY <1>2 DEF SenderTyped, ChangeReceipts

\* A run starts to use an identity it has drawn or read.
LEMMA RunTakesIdentity ==
  ASSUME SenderTyped, TriesCounted, NEW r \in Run, NEW p \in RunPoint \ {"new", "wait"}, Goto(r, p),
         NEW i \in Id, packet' = [packet EXCEPT ![r].id = i],
         p = "send" => tried[r] < Attempts, p \in Untried => tried[r] = 0,
         UNCHANGED tried, receipts' \in Receipts, receipts' \in retained', retained' \subseteq Receipts
  PROVE  SenderTyped' /\ TriesCounted'
<1>1. point' \in [Run -> RunPoint] /\ point'[r] = p /\ \A q \in Run \ {r} : point'[q] = point[q]
  BY RunMoves
<1>2. packet' \in [Run -> Packet] /\ packet'[r].id = i /\ \A q \in Run \ {r} : packet'[q] = packet[q]
  BY DEF SenderTyped, Packet
<1> QED
  BY <1>1, <1>2 DEF SenderTyped, TriesCounted, Untried

\* What a run makes of the request file it has read.
LEMMA RequestIsUsed ==
  ASSUME SenderTyped, TriesCounted, NEW r \in Run, NEW f \in Id \cup {Torn}, UseRequest(r, f),
         point[r] \in {"new", "create"}, UNCHANGED <<receipts, retained, tried>>
  PROVE  SenderTyped' /\ TriesCounted'
<1>1. CASE f = Torn
  <2>1. Goto(r, "failed") /\ UNCHANGED packet
    BY <1>1 DEF UseRequest
  <2>2. point' \in [Run -> RunPoint] /\ point'[r] = "failed" /\ \A q \in Run \ {r} : point'[q] = point[q]
    BY <2>1, RunMoves, RunPoints
  <2> QED
    BY <2>1, <2>2 DEF SenderTyped, TriesCounted, Untried
<1>2. CASE f # Torn
  <2>1. Goto(r, "findReceipt") /\ packet' = [packet EXCEPT ![r].id = f] /\ f \in Id
    BY <1>2 DEF UseRequest
  <2> QED
    BY <2>1, RunTakesIdentity, RunPoints DEF SenderTyped, TriesCounted, Untried
<1> QED
  BY <1>1, <1>2

\* Every step of a run keeps the types of the sender.
LEMMA RunStepTyped ==
  ASSUME SenderTyped, TriesCounted, NEW r \in Run, RunStep(r) PROVE SenderTyped' /\ TriesCounted'
<1>0. receipts \in Receipts /\ packet[r].payload \in Payload /\ packet[r] \in Packet
      /\ receipts.request[packet[r].payload] \in Id \cup {None, Torn}
  BY DEF SenderTyped, Packet, Receipts
<1>1. CASE StartRun(r)
  <2>1. CASE receipts.request[packet[r].payload] # None /\ UseRequest(r, receipts.request[packet[r].payload])
    BY <1>0, <1>1, <2>1, RequestIsUsed DEF StartRun
  <2>2. CASE Goto(r, "create") /\ \E i \in Fresh : packet' = [packet EXCEPT ![r].id = i]
    <3>1. PICK i \in Id : packet' = [packet EXCEPT ![r].id = i]
      BY <2>2 DEF Fresh
    <3>2. Goto(r, "create") /\ tried[r] = 0 /\ UNCHANGED <<receipts, retained, tried>>
      BY <1>1, <2>2 DEF StartRun, TriesCounted, Untried
    <3>3. receipts' \in Receipts /\ receipts' \in retained' /\ retained' \subseteq Receipts
      BY <3>2 DEF SenderTyped
    <3>4. "create" \in RunPoint \ {"new", "wait"}
      BY RunPoints
    <3> QED
      BY <3>1, <3>2, <3>3, <3>4, RunTakesIdentity
  <2> QED
    BY <1>1, <2>1, <2>2 DEF StartRun
<1>2. CASE StartDirect(r)
  <2>1. PICK i \in Id : packet' = [packet EXCEPT ![r].id = i]
    BY <1>2 DEF StartDirect
  <2>2. Goto(r, "send") /\ tried[r] = 0 /\ tried[r] < Attempts /\ UNCHANGED <<receipts, retained, tried>>
    BY ConstantsAssumption, <1>2 DEF StartDirect, TriesCounted, Untried
  <2> QED
    BY <2>1, <2>2, RunTakesIdentity, RunPoints DEF SenderTyped, TriesCounted, Untried
<1>3. CASE CreateRequest(r)
  <2>1. CASE receipts.request[packet[r].payload] # None /\ UseRequest(r, receipts.request[packet[r].payload])
             /\ UNCHANGED <<receipts, retained>>
    BY <1>0, <1>3, <2>1, RequestIsUsed DEF CreateRequest
  <2>2. CASE ChangeReceipts([receipts EXCEPT !.request[packet[r].payload] = Torn]) /\ Goto(r, "write") /\ UNCHANGED packet
    <3>1. packet[r].id \in Id
      BY <1>3 DEF CreateRequest, SenderTyped
    <3>2. receipts' \in Receipts /\ receipts' \in retained' /\ retained' \subseteq Receipts
      BY <1>0, <2>2, <3>1, RequestWritten
    <3> QED
      BY <1>3, <2>2, <3>2, RunMovesOn, RunPoints DEF CreateRequest, SenderTyped, TriesCounted, Untried
  <2> QED
    BY <1>3, <2>1, <2>2 DEF CreateRequest
<1>4. CASE WriteRequest(r)
  <2>1. packet[r].id \in Id
    BY <1>4 DEF WriteRequest, SenderTyped
  <2>2. receipts' \in Receipts /\ receipts' \in retained' /\ retained' \subseteq Receipts
    BY <1>0, <1>4, <2>1, RequestWritten DEF WriteRequest
  <2> QED
    BY <1>4, <2>2, RunMovesOn, RunPoints DEF WriteRequest, SenderTyped, TriesCounted, Untried
<1>5. CASE SyncRequest(r)
  BY <1>0, <1>5, RunMovesOn, RunPoints DEF SyncRequest, SenderTyped, TriesCounted, Untried, SyncRetained
<1>6. CASE FindReceipt(r)
  <2>1. Goto(r, "send") \/ Goto(r, "delivered") \/ Goto(r, "failed")
    BY <1>6 DEF FindReceipt
  <2>2. tried[r] < Attempts
    BY ConstantsAssumption, <1>6 DEF FindReceipt, TriesCounted, Untried
  <2> QED
    BY <1>6, <2>1, <2>2, RunMovesOn, RunPoints DEF FindReceipt, SenderTyped, TriesCounted, Untried
<1>7. CASE Send(r)
  <2>1. tried[r] < Attempts /\ tried' = [tried EXCEPT ![r] = @ + 1] /\ Goto(r, "wait") /\ UNCHANGED <<receipts, retained, packet>>
    BY <1>7 DEF Send, TriesCounted, Untried
  <2>2. tried' \in [Run -> 0 .. Attempts] /\ tried'[r] \in 1 .. Attempts /\ \A q \in Run \ {r} : tried'[q] = tried[q]
    BY <2>1, ConstantsAssumption DEF SenderTyped
  <2>3. point' \in [Run -> RunPoint] /\ point'[r] = "wait" /\ \A q \in Run \ {r} : point'[q] = point[q]
    BY <2>1, RunMoves, RunPoints
  <2> QED
    BY <1>7, <2>1, <2>2, <2>3 DEF Send, SenderTyped, TriesCounted, Untried
<1>8. CASE GetAnswer(r)
  <2>1. Goto(r, Again(r)) \/ Goto(r, "failed") \/ Goto(r, "delivered") \/ Goto(r, "createReceipt")
    BY <1>8 DEF GetAnswer
  <2>2. /\ Again(r) \in RunPoint \ {"new", "wait"}
        /\ Again(r) = "send" => tried[r] < Attempts
        /\ Again(r) \notin Untried
    BY RunPoints DEF Again, Untried
  <2> QED
    BY <1>8, <2>1, <2>2, RunMovesOn, RunPoints DEF GetAnswer, SenderTyped, TriesCounted, Untried
<1>9. CASE Timeout(r)
  <2>1. /\ Again(r) \in RunPoint \ {"new", "wait"}
        /\ Again(r) = "send" => tried[r] < Attempts
        /\ Again(r) \notin Untried
    BY RunPoints DEF Again, Untried
  <2> QED
    BY <1>9, <2>1, RunMovesOn, RunPoints DEF Timeout, SenderTyped, TriesCounted, Untried
<1>10. CASE CreateReceipt(r)
  <2>1. packet[r].id \in Id
    BY <1>10 DEF CreateReceipt, SenderTyped
  <2>2. receipts' \in Receipts /\ receipts' \in retained' /\ retained' \subseteq Receipts
    BY <1>0, <1>10, <2>1, ReceiptWritten DEF CreateReceipt, SenderTyped
  <2>3. Goto(r, "writeReceipt") \/ Goto(r, "syncReceipt") \/ Goto(r, "failed")
    BY <1>10 DEF CreateReceipt
  <2> QED
    BY <1>10, <2>2, <2>3, RunMovesOn, RunPoints DEF CreateReceipt, SenderTyped, TriesCounted, Untried
<1>11. CASE WriteReceipt(r)
  <2>1. packet[r].id \in Id
    BY <1>11 DEF WriteReceipt, SenderTyped
  <2>2. receipts' \in Receipts /\ receipts' \in retained' /\ retained' \subseteq Receipts
    BY <1>0, <1>11, <2>1, ReceiptWritten DEF WriteReceipt
  <2> QED
    BY <1>11, <2>2, RunMovesOn, RunPoints DEF WriteReceipt, SenderTyped, TriesCounted, Untried
<1>12. CASE SyncReceipt(r)
  BY <1>0, <1>12, RunMovesOn, RunPoints DEF SyncReceipt, SenderTyped, TriesCounted, Untried, SyncRetained
<1> QED
  BY <1>1, <1>2, <1>3, <1>4, <1>5, <1>6, <1>7, <1>8, <1>9, <1>10, <1>11, <1>12 DEF RunStep

\* Nothing of a request or of the inbox changes when a run moves, unless it sends.
LEMMA RunStepTInv == ASSUME TInv, NEW r \in Run, RunStep(r) PROVE TInv'
<1>1. SenderTyped' /\ TriesCounted'
  BY RunStepTyped DEF TInv
<1>2. CASE Send(r)
  <2>1. /\ tried[r] < Attempts /\ tried' = [tried EXCEPT ![r] = tried[r] + 1] /\ tried'[r] = tried[r] + 1
        /\ UNCHANGED <<inbox, past, faults>>
    BY <1>2 DEF Send, receiver, TInv, SenderTyped, TriesCounted, Untried
  <2>2. tried'[r] \in 1 .. Attempts /\ <<r, tried'[r]>> \in Attempt /\ request[<<r, tried'[r]>>] = Unsent
    BY <2>1, ConstantsAssumption DEF Attempt, TInv, SenderTyped, UnsentLater
  <2>3. /\ request' \in [Attempt -> Request]
        /\ request'[<<r, tried'[r]>>].at = "sent"
        /\ \A d \in Attempt \ {<<r, tried'[r]>>} : request'[d] = request[d]
    BY <1>2, <2>2 DEF Send, TInv, RequestTyped, Request
  <2>4. InboxTyped' /\ RequestTyped'
    BY <2>1, <2>3 DEF TInv, InboxTyped, RequestTyped
  <2>5. Holding' = Holding
    BY <2>2, <2>3 DEF Holding, Unsent, Locked
  <2>6. LockHasOneOwner' /\ Staged'
    BY <2>1, <2>3, <2>5 DEF TInv, LockHasOneOwner, Staged
  <2>7. UnsentLater'
    <3> SUFFICES ASSUME NEW q \in Run, NEW k \in 1 .. Attempts, k > tried'[q] PROVE request'[<<q, k>>] = Unsent
      BY DEF UnsentLater
    <3>1. k > tried[q] /\ <<q, k>> # <<r, tried'[r]>> /\ <<q, k>> \in Attempt
      BY <2>1 DEF TInv, SenderTyped, Attempt
    <3> QED
      BY <2>3, <3>1 DEF TInv, UnsentLater
  <2> QED
    BY <1>1, <2>4, <2>6, <2>7 DEF TInv
<1>3. CASE ~Send(r)
  <2>1. UNCHANGED <<inbox, past, request, faults, tried>>
    BY <1>3 DEF RunStep, receiver, StartRun, StartDirect, CreateRequest, WriteRequest, SyncRequest, FindReceipt, GetAnswer,
       Timeout, CreateReceipt, WriteReceipt, SyncReceipt
  <2> QED
    BY <1>1, <2>1 DEF TInv, InboxTyped, RequestTyped, LockHasOneOwner, Holding, Staged, UnsentLater
<1> QED
  BY <1>2, <1>3
-----------------------------------------------------------------------------
\* A request moves on, from a point after it was sent.
Moves(d) ==
  /\ request' \in [Attempt -> Request]
  /\ \A e \in Attempt \ {d} : request'[e] = request[e]
  /\ request[d].at # "unsent"

LEMMA RequestMoves ==
  ASSUME RequestTyped, NEW d \in Attempt, request[d].at # "unsent",
         NEW p \in {"admitted", "answered", "gone"} \cup Locked, At(d, p)
  PROVE  Moves(d) /\ request'[d].at = p /\ request'[d].answer = request[d].answer
<1>1. [request[d] EXCEPT !.at = p] \in Request
  BY DEF RequestTyped, Request
<1> QED
  BY <1>1 DEF RequestTyped, At, Moves, Request

LEMMA RequestAnswered ==
  ASSUME RequestTyped, NEW d \in Attempt, request[d].at # "unsent",
         NEW p \in {"admitted", "answered", "gone"} \cup Locked,
         NEW answer \in {"none", "stored", "retry", "refuse"}, Answer(d, p, answer)
  PROVE  Moves(d) /\ request'[d].at = p /\ request'[d].answer = answer
BY DEF RequestTyped, Answer, Moves, Request

\* While a delivery holds the lock, nobody else does.
LEMMA OnlyHolder ==
  ASSUME LockHasOneOwner, NEW d \in Attempt, request[d].at \in Locked
  PROVE  Holding = {d} /\ inbox.lock
BY DEF LockHasOneOwner, Holding

\* A delivery that holds the lock moves on, and keeps it.
LEMMA HolderMoves ==
  ASSUME TInv, NEW d \in Attempt, request[d].at \in Locked, Moves(d), request'[d].at \in Locked,
         inbox' \in Inbox, inbox' \in past', past' \subseteq Inbox, inbox'.lock = inbox.lock,
         request'[d].at \in {"rename", "discard"} => inbox'.incoming > 0,
         UNCHANGED <<sender, faults>>
  PROVE  TInv'
<1>1. Holding = {d} /\ Holding' = {d}
  BY OnlyHolder DEF TInv, Holding, Moves
<1>2. LockHasOneOwner' /\ Staged'
  BY <1>1, OnlyHolder DEF TInv, LockHasOneOwner, Staged, Holding, Moves, Locked
<1>3. UnsentLater'
  BY DEF TInv, UnsentLater, Moves, Unsent, sender, Attempt
<1> QED
  BY <1>2, <1>3 DEF TInv, SenderTyped, InboxTyped, RequestTyped, TriesCounted, Moves, sender

\* The fields of the inbox are written one at a time.
LEMMA InboxChanges ==
  ASSUME InboxTyped, NEW dir \in Inbox, ChangeInbox(dir)
  PROVE  inbox' = dir /\ inbox' \in Inbox /\ inbox' \in past' /\ past' \subseteq Inbox
BY DEF InboxTyped, ChangeInbox

\* What happens to one request at the receiver keeps the types and the lock.
LEMMA HandleTInv == ASSUME TInv, NEW d \in Attempt, Handle(d) PROVE TInv'
<1>0. /\ InboxTyped /\ RequestTyped /\ LockHasOneOwner /\ inbox \in Inbox /\ inbox.incoming \in Nat
      /\ d[1] \in Run /\ faults \in Nat
  BY ConstantsAssumption DEF TInv, InboxTyped, RequestTyped, Inbox, Attempt
<1>1. ASSUME Moves(d), request[d].at \notin Locked, request'[d].at \notin Locked,
             UNCHANGED <<inbox, past, receipts, retained, point, packet, tried, faults>>
      PROVE  TInv'
  <2>1. Holding' = Holding
    BY <1>1 DEF Moves, Holding
  <2> QED
    BY <1>1, <2>1 DEF TInv, SenderTyped, InboxTyped, RequestTyped, TriesCounted, UnsentLater, Unsent, LockHasOneOwner, Staged, Moves, Locked, Attempt
<1>2. CASE Admit(d)
  <2>1. At(d, "admitted") \/ Answer(d, "answered", "retry")
    BY <1>2 DEF Admit
  <2> QED
    BY <1>0, <1>1, <1>2, <2>1, RequestMoves, RequestAnswered DEF Admit, receiver, sender, Locked
<1>3. CASE Lock(d)
  <2>1. CASE ~MayLock
    BY <1>0, <1>1, <1>3, <2>1, RequestAnswered DEF Lock, receiver, sender, Locked
  <2>2. CASE MayLock
    <3>1. /\ inbox.lock = FALSE /\ Holding = {}
          /\ ChangeInbox([inbox EXCEPT !.lock = TRUE]) /\ At(d, "look") /\ request[d].at = "admitted"
      BY <1>0, <1>3, <2>2 DEF Lock, MayLock, LockHasOneOwner, Inbox
    <3>2. [inbox EXCEPT !.lock = TRUE] \in Inbox
      BY <1>0 DEF Inbox
    <3>3. inbox'.lock = TRUE /\ InboxTyped'
      BY <1>0, <3>1, <3>2, InboxChanges DEF InboxTyped, Inbox
    <3>4. Moves(d) /\ request'[d].at = "look"
      BY <1>0, <3>1, RequestMoves DEF Locked
    <3>5. Holding' = {d}
      BY <3>1, <3>4 DEF Holding, Moves, Locked
    <3>6. LockHasOneOwner' /\ Staged'
      BY <3>3, <3>4, <3>5 DEF LockHasOneOwner, Staged, Holding, Locked
    <3> QED
      BY <1>3, <3>3, <3>4, <3>6 DEF Lock, sender, TInv, SenderTyped, RequestTyped, TriesCounted, UnsentLater, Unsent, Moves, Attempt
  <2> QED
    BY <2>1, <2>2
<1>4. CASE Look(d)
  <2>1. At(d, "confirm") \/ Answer(d, "unlock", "refuse") \/ At(d, "stage")
    BY <1>4 DEF Look
  <2>2. request[d].at = "look" /\ UNCHANGED <<inbox, past>>
    BY <1>4 DEF Look, receiver
  <2>3. Moves(d) /\ request'[d].at \in {"confirm", "unlock", "stage"}
    BY <1>0, <2>1, <2>2, RequestMoves, RequestAnswered DEF Locked
  <2> QED
    BY <1>0, <1>4, <2>2, <2>3, HolderMoves DEF Look, InboxTyped, Locked
<1>5. CASE Confirm(d) \/ Sync(d)
  <2>1. Answer(d, "unlock", "stored") /\ request[d].at \in {"confirm", "sync"} /\ SyncInbox
    BY <1>5 DEF Confirm, Sync
  <2>2. Moves(d) /\ request'[d].at = "unlock"
    BY <1>0, <2>1, RequestAnswered DEF Locked
  <2> QED
    BY <1>0, <1>5, <2>1, <2>2, HolderMoves DEF Confirm, Sync, SyncInbox, InboxTyped, Locked
<1>6. CASE Stage(d)
  <2>1. request[d].at = "stage" /\ ChangeInbox([inbox EXCEPT !.incoming = inbox.incoming + 1]) /\ At(d, "rename")
    BY <1>6 DEF Stage
  <2>2. [inbox EXCEPT !.incoming = inbox.incoming + 1] \in Inbox
    BY <1>0 DEF Inbox
  <2>3. /\ inbox' \in Inbox /\ inbox' \in past' /\ past' \subseteq Inbox
        /\ inbox'.lock = inbox.lock /\ inbox'.incoming > 0
    BY <1>0, <2>1, <2>2, InboxChanges DEF Inbox
  <2>4. Moves(d) /\ request'[d].at = "rename"
    BY <1>0, <2>1, RequestMoves DEF Locked
  <2> QED
    BY <1>6, <2>1, <2>3, <2>4, HolderMoves DEF Stage, Locked
<1>7. CASE Rename(d)
  <2>1. /\ request[d].at = "rename" /\ At(d, "sync") /\ inbox.incoming > 0 /\ packet[d[1]].id \in Id \cup {None}
        /\ packet[d[1]].payload \in Payload
        /\ ChangeInbox([inbox EXCEPT !.packets = [inbox.packets EXCEPT ![Id_(d)] = Payload_(d)], !.incoming = inbox.incoming - 1])
    BY <1>0, <1>7 DEF Rename, TInv, Staged, SenderTyped, Packet
  <2>2. [inbox.packets EXCEPT ![Id_(d)] = Payload_(d)] \in [Id -> Payload \cup {None}]
    BY <1>0, <2>1 DEF Inbox, Payload_
  <2>3. inbox.incoming - 1 \in Nat
    BY <1>0, <2>1
  <2>8. [inbox EXCEPT !.packets = [inbox.packets EXCEPT ![Id_(d)] = Payload_(d)], !.incoming = inbox.incoming - 1] \in Inbox
    BY <1>0, <2>2, <2>3 DEF Inbox
  <2>4. inbox' \in Inbox /\ inbox' \in past' /\ past' \subseteq Inbox /\ inbox'.lock = inbox.lock
    BY <1>0, <2>1, <2>8, InboxChanges DEF Inbox
  <2>5. Moves(d) /\ request'[d].at = "sync"
    BY <1>0, <2>1, RequestMoves DEF Locked
  <2> QED
    BY <1>7, <2>1, <2>4, <2>5, HolderMoves DEF Rename, Locked
<1>8. CASE Fail(d)
  <2>1. /\ request[d].at \in {"rename", "look", "confirm", "stage", "sync"} /\ UNCHANGED <<inbox, past>>
        /\ \/ Answer(d, "discard", "retry") /\ request[d].at = "rename"
           \/ Answer(d, "unlock", "retry")
    BY <1>8 DEF Fail, receiver
  <2>2. /\ Moves(d) /\ request'[d].at \in {"unlock", "discard"}
        /\ request'[d].at = "discard" => request[d].at = "rename"
    BY <1>0, <2>1, RequestAnswered DEF Locked
  <2>3. request'[d].at \in {"rename", "discard"} => inbox'.incoming > 0
    BY <2>1, <2>2 DEF TInv, Staged
  <2> QED
    BY <1>0, <1>8, <2>1, <2>2, <2>3, HolderMoves DEF Fail, InboxTyped, Locked
<1>9. CASE Discard(d)
  <2>1. /\ request[d].at = "discard" /\ inbox.incoming > 0 /\ At(d, "unlock")
        /\ ChangeInbox([inbox EXCEPT !.incoming = inbox.incoming - 1])
    BY <1>9 DEF Discard, TInv, Staged
  <2>2. [inbox EXCEPT !.incoming = inbox.incoming - 1] \in Inbox
    BY <1>0, <2>1 DEF Inbox
  <2>3. inbox' \in Inbox /\ inbox' \in past' /\ past' \subseteq Inbox /\ inbox'.lock = inbox.lock
    BY <1>0, <2>1, <2>2, InboxChanges DEF Inbox
  <2>4. Moves(d) /\ request'[d].at = "unlock"
    BY <1>0, <2>1, RequestMoves DEF Locked
  <2> QED
    BY <1>9, <2>1, <2>3, <2>4, HolderMoves DEF Discard, Locked
<1>10. CASE Unlock(d)
  <2>1. request[d].at = "unlock" /\ At(d, "answered") /\ ChangeInbox([inbox EXCEPT !.lock = FALSE]) /\ Holding = {d}
    BY <1>0, <1>10, OnlyHolder DEF Unlock, Locked
  <2>2. [inbox EXCEPT !.lock = FALSE] \in Inbox
    BY <1>0 DEF Inbox
  <2>3. inbox'.lock = FALSE /\ InboxTyped'
    BY <1>0, <2>1, <2>2, InboxChanges DEF InboxTyped, Inbox
  <2>4. Moves(d) /\ request'[d].at = "answered"
    BY <1>0, <2>1, RequestMoves
  <2>5. Holding' = {}
    BY <2>1, <2>4 DEF Holding, Moves, Locked
  <2>6. LockHasOneOwner' /\ Staged'
    BY <2>3, <2>5 DEF LockHasOneOwner, Staged, Holding, Locked
  <2> QED
    BY <1>10, <2>3, <2>4, <2>6 DEF Unlock, sender, TInv, SenderTyped, RequestTyped, TriesCounted, UnsentLater, Unsent, Moves, Attempt
<1>11. CASE FailToDiscard(d)
  <2>1. /\ request[d].at = "discard" /\ Answer(d, "answered", "retry") /\ UNCHANGED <<inbox, past>> /\ Holding = {d}
        /\ faults' = faults + 1 /\ faults' \in 0 .. MaxFaults
    BY <1>0, <1>11, ConstantsAssumption, OnlyHolder DEF FailToDiscard, Fault, receiver, Locked, RequestTyped
  <2>2. Moves(d) /\ request'[d].at = "answered"
    BY <1>0, <2>1, RequestAnswered
  <2>3. Holding' = {}
    BY <2>1, <2>2 DEF Holding, Moves, Locked
  <2>4. LockHasOneOwner' /\ Staged'
    BY <1>0, <2>1, <2>3 DEF LockHasOneOwner, Staged, Holding, Locked
  <2> QED
    BY <1>0, <1>11, <2>1, <2>2, <2>4 DEF FailToDiscard, sender, TInv, SenderTyped, InboxTyped, RequestTyped, TriesCounted, UnsentLater, Unsent, Moves, Attempt
<1> QED
  BY <1>2, <1>3, <1>4, <1>5, <1>6, <1>7, <1>8, <1>9, <1>10, <1>11 DEF Handle

\* A receiver that stops lets go of every request, and of nothing else.
LEMMA RequestsInterrupted ==
  ASSUME RequestTyped, request' = Interrupted
  PROVE  /\ request' \in [Attempt -> Request]
         /\ \A d \in Attempt : request'[d].at \notin Locked
         /\ \A d \in Attempt : request'[d].answer = request[d].answer
         /\ \A d \in Attempt : request[d] = Unsent => request'[d] = Unsent
<1>1. \A d \in Attempt : [request[d] EXCEPT !.at = "gone"] \in Request
  BY DEF RequestTyped, Request
<1> QED
  BY <1>1 DEF RequestTyped, Interrupted, Active, Request, Locked, Unsent

LEMMA FaultTInv ==
  ASSUME TInv, \/ \E r \in Run : KillRun(r)
               \/ SenderLosesPower \/ KillReceiver \/ ReceiverLosesPower \/ OwnerRecovers
  PROVE  TInv'
<1>0. faults \in Nat /\ MaxFaults \in Nat /\ inbox \in Inbox /\ RequestTyped
  BY ConstantsAssumption DEF TInv, RequestTyped, InboxTyped
<1>1. ASSUME NEW r \in Run, KillRun(r) PROVE TInv'
  <2>1. /\ Goto(r, "killed") /\ faults' = faults + 1 /\ faults' \in 0 .. MaxFaults
        /\ UNCHANGED <<inbox, past, receipts, retained, packet, tried, request>>
    BY <1>0, <1>1 DEF KillRun, Fault, receiver, TInv, RequestTyped
  <2>2. point' \in [Run -> RunPoint] /\ point'[r] = "killed" /\ \A q \in Run \ {r} : point'[q] = point[q]
    BY <2>1, RunMoves, RunPoints DEF TInv
  <2>3. SenderTyped' /\ TriesCounted'
    BY <2>1, <2>2 DEF TInv, SenderTyped, TriesCounted, Untried
  <2> QED
    BY <1>0, <2>1, <2>3 DEF TInv, InboxTyped, RequestTyped, UnsentLater, LockHasOneOwner, Holding, Staged
<1>2. CASE SenderLosesPower
  <2>1. /\ faults' = faults + 1 /\ faults' \in 0 .. MaxFaults
        /\ UNCHANGED <<inbox, past, packet, tried, request>>
    BY <1>0, <1>2 DEF SenderLosesPower, Fault, receiver, TInv, RequestTyped
  <2>2. /\ point' \in [Run -> RunPoint]
        /\ \A q \in Run : point'[q] = "killed" \/ point'[q] = point[q]
        /\ receipts' \in Receipts /\ receipts' \in retained' /\ retained' \subseteq Receipts
    BY <1>2, RunPoints DEF SenderLosesPower, TInv, SenderTyped
  <2>3. SenderTyped' /\ TriesCounted'
    BY <2>1, <2>2 DEF TInv, SenderTyped, TriesCounted, Untried
  <2> QED
    BY <1>0, <2>1, <2>3 DEF TInv, InboxTyped, RequestTyped, UnsentLater, LockHasOneOwner, Holding, Staged
<1>3. CASE KillReceiver \/ ReceiverLosesPower
  <2>1. /\ request' = Interrupted /\ faults' = faults + 1 /\ faults' \in 0 .. MaxFaults
        /\ UNCHANGED <<receipts, retained, point, packet, tried>>
    BY <1>0, <1>3 DEF KillReceiver, ReceiverLosesPower, Fault, sender, TInv, RequestTyped
  <2>2. InboxTyped'
    BY <1>3 DEF KillReceiver, ReceiverLosesPower, receiver, TInv, InboxTyped
  <2>3. /\ request' \in [Attempt -> Request]
        /\ \A d \in Attempt : request'[d].at \notin Locked
        /\ \A d \in Attempt : request[d] = Unsent => request'[d] = Unsent
    BY <1>0, <2>1, RequestsInterrupted
  <2>4. LockHasOneOwner' /\ Staged'
    BY <1>0, <2>1, <2>3 DEF LockHasOneOwner, Holding, Staged, Locked
  <2>5. UnsentLater'
    BY <2>1, <2>3 DEF TInv, UnsentLater, Attempt
  <2> QED
    BY <2>1, <2>2, <2>3, <2>4, <2>5 DEF TInv, SenderTyped, RequestTyped, TriesCounted
<1>4. CASE OwnerRecovers
  <2>1. /\ Holding = {} /\ ChangeInbox([inbox EXCEPT !.lock = FALSE, !.incoming = 0])
        /\ UNCHANGED <<receipts, retained, point, packet, tried, request, faults>>
    BY <1>4 DEF OwnerRecovers, sender
  <2>2. [inbox EXCEPT !.lock = FALSE, !.incoming = 0] \in Inbox
    BY <1>0 DEF Inbox
  <2>3. InboxTyped' /\ inbox'.lock = FALSE
    BY <1>0, <2>1, <2>2, InboxChanges DEF TInv, InboxTyped, Inbox
  <2>4. LockHasOneOwner' /\ Staged'
    BY <2>1, <2>3 DEF LockHasOneOwner, Holding, Staged, Locked
  <2> QED
    BY <2>1, <2>3, <2>4 DEF TInv, SenderTyped, RequestTyped, TriesCounted, UnsentLater
<1> QED
  BY <1>1, <1>2, <1>3, <1>4

LEMMA NextTInv == ASSUME TInv, [Next]_vars PROVE TInv'
<1>1. CASE Next
  BY <1>1, RunStepTInv, HandleTInv, FaultTInv DEF Next
<1>2. CASE UNCHANGED vars
  BY <1>2 DEF vars, TInv, SenderTyped, InboxTyped, RequestTyped, TriesCounted, UnsentLater,
     LockHasOneOwner, Holding, Staged
<1> QED
  BY <1>1, <1>2

LEMMA InitTInv == ASSUME Init PROVE TInv
<1>1. SenderTyped
  BY ConstantsAssumption DEF Init, SenderTyped, Receipts, RunPoint, Packet
<1>2. InboxTyped /\ RequestTyped
  BY ConstantsAssumption DEF Init, InboxTyped, RequestTyped, Inbox, Request, Unsent
<1>3. TriesCounted /\ UnsentLater
  BY ConstantsAssumption DEF Init, TriesCounted, UnsentLater, Untried, Attempt
<1>4. \A d \in Attempt : request[d].at = "unsent"
  BY DEF Init, Unsent
<1>5. LockHasOneOwner /\ Staged
  BY <1>4 DEF Init, LockHasOneOwner, Holding, Staged, Locked
<1> QED
  BY <1>1, <1>2, <1>3, <1>5 DEF TInv

LEMMA TInvHolds == Spec => []TInv
<1>1. Init => TInv
  BY InitTInv
<1>2. TInv /\ [Next]_vars => TInv'
  BY NextTInv
<1> QED
  BY <1>1, <1>2, PTL DEF Spec

(***************************************************************************)
(* Type correctness of both directories, of the runs and of the requests;  *)
(* a run makes no more attempts than deliverHandoff allows.                *)
(***************************************************************************)
THEOREM HandoffTyped == Spec => []TypeOK
<1>1. TInv => TypeOK
  BY TypedParts DEF TInv
<1> QED
  BY <1>1, TInvHolds, PTL

(***************************************************************************)
(* Whatever requests arrive at once or late, and whatever crashes, one     *)
(* delivery at a time works on the inbox, and only a crash leaves the lock.*)
(***************************************************************************)
THEOREM LockExclusive == Spec => []LockHasOneOwner
<1>1. TInv => LockHasOneOwner
  BY DEF TInv
<1> QED
  BY <1>1, TInvHolds, PTL
-----------------------------------------------------------------------------
(******************************* Custody ********************************)

\* What a delivery has seen in the inbox is still there.
PacketSeen ==
  \A d \in Attempt : request[d].at \in {"confirm", "sync"} => inbox.packets[Id_(d)] = Payload_(d)

\* An answer is good, and so is a run that had one and a receipt that is kept.
AnswersKept == \A d \in Attempt : request[d].answer = "stored" => Durable(Id_(d), Payload_(d))

ReportsKept == \A r \in Run : point[r] \in Reporting => Durable(packet[r].id, packet[r].payload)

ReceiptsKept ==
  \A dir \in retained : \A i \in Id : dir.receipt[i] \in Payload => Durable(i, dir.receipt[i])

\* A request that needs nothing more has its answer.
AnswersGiven ==
  \A d \in Attempt : request[d].at \in {"discard", "unlock", "answered"} => request[d].answer # "none"

\* A run that has sent something had an identity for it.
Addressed == \A r \in Run : tried[r] # 0 => packet[r].id \in Id

CInv == PacketSeen /\ AnswersKept /\ AnswersGiven /\ Addressed /\ ReportsKept /\ ReceiptsKept

\* How the inbox changes: packets are added, and a loss of power or a
\* synchronisation chooses among what it has been.
InboxStep ==
  \/ UNCHANGED <<inbox, past>>
  \/ inbox' \in past /\ past' = {inbox'}
  \/ /\ past' = past \cup {inbox'}
     /\ \A i \in Id : inbox.packets[i] # None => inbox'.packets[i] = inbox.packets[i]

LEMMA DurableStays ==
  ASSUME InboxTyped, InboxStep, NEW i \in Id, NEW p \in Payload, Durable(i, p)
  PROVE  Durable(i, p)'
<1>1. inbox.packets[i] = p /\ p # None
  BY ConstantsAssumption DEF InboxTyped, Durable
<1> QED
  BY <1>1 DEF InboxStep, Durable

\* A step of the receiver adds a packet at most.
LEMMA HandleInbox == ASSUME TInv, NEW d \in Attempt, Handle(d) PROVE InboxStep
<1>1. CASE Rename(d)
  <2>1. /\ inbox.packets[Id_(d)] = None /\ inbox.packets \in [Id -> Payload \cup {None}]
        /\ inbox' = [inbox EXCEPT !.packets[Id_(d)] = Payload_(d), !.incoming = @ - 1]
        /\ past' = past \cup {inbox'} /\ inbox \in Inbox
    BY <1>1 DEF Rename, ChangeInbox, TInv, InboxTyped, Inbox
  <2>2. \A i \in Id : inbox.packets[i] # None => inbox'.packets[i] = inbox.packets[i]
    BY <2>1 DEF Inbox
  <2> QED
    BY <2>1, <2>2 DEF InboxStep
<1>2. CASE ~Rename(d)
  <2>1. \/ UNCHANGED <<inbox, past>> \/ SyncInbox
        \/ ChangeInbox([inbox EXCEPT !.lock = TRUE]) \/ ChangeInbox([inbox EXCEPT !.lock = FALSE])
        \/ ChangeInbox([inbox EXCEPT !.incoming = @ + 1]) \/ ChangeInbox([inbox EXCEPT !.incoming = @ - 1])
    BY <1>2 DEF Handle, receiver, Admit, Lock, Look, Confirm, Stage, Sync, Fail, Discard, Unlock, FailToDiscard
  <2> QED
    BY <2>1 DEF SyncInbox, ChangeInbox, InboxStep, TInv, InboxTyped, Inbox
<1> QED
  BY <1>1, <1>2

\* A run that had no answer yet has sent nothing.
LEMMA NothingSent ==
  ASSUME TInv, NEW r \in Run, point[r] \in Untried, NEW d \in Attempt, d[1] = r
  PROVE  request[d] = Unsent
<1>1. PICK k \in 1 .. Attempts : d = <<r, k>>
  BY DEF Attempt
<1> QED
  BY <1>1, ConstantsAssumption DEF TInv, TriesCounted, UnsentLater

\* The identity of a packet changes before anything is sent under it.
LEMMA PacketsStay ==
  ASSUME TInv, NEW r \in Run, RunStep(r)
  PROVE  \/ UNCHANGED packet
         \/ /\ point[r] \in Untried /\ point'[r] \notin Reporting /\ UNCHANGED request
            /\ \A q \in Run \ {r} : packet'[q] = packet[q]
<1>1. CASE StartRun(r) \/ StartDirect(r) \/ CreateRequest(r)
  <2>1. UNCHANGED packet \/ \E i : packet' = [packet EXCEPT ![r].id = i]
    BY <1>1 DEF StartRun, StartDirect, CreateRequest, UseRequest
  <2>2. \E p \in {"failed", "findReceipt", "create", "send", "write"} : Goto(r, p)
    BY <1>1 DEF StartRun, StartDirect, CreateRequest, UseRequest
  <2>3. point'[r] \notin Reporting
    BY <2>2 DEF Goto, TInv, SenderTyped, Reporting
  <2> QED
    BY <1>1, <2>1, <2>3 DEF StartRun, StartDirect, CreateRequest, Untried, TInv, SenderTyped
<1>2. CASE ~(StartRun(r) \/ StartDirect(r) \/ CreateRequest(r))
  BY <1>2 DEF RunStep, WriteRequest, SyncRequest, FindReceipt, Send, GetAnswer, Timeout,
     CreateReceipt, WriteReceipt, SyncReceipt
<1> QED
  BY <1>1, <1>2

\* A receipt that is kept names what a run was told.
LEMMA ReceiptsWritten ==
  ASSUME TInv, CInv, NEW r \in Run, RunStep(r), UNCHANGED <<inbox, past>>
  PROVE  ReceiptsKept'
<1>1. \A i, p : Durable(i, p)' <=> Durable(i, p)
  BY DEF Durable
<1>2. ASSUME NEW p \in Payload, NEW f, ChangeReceipts([receipts EXCEPT !.request[p] = f]) PROVE ReceiptsKept'
  BY <1>1, <1>2 DEF ChangeReceipts, CInv, ReceiptsKept, TInv, SenderTyped, Receipts
<1>3. ASSUME NEW i \in Id, NEW g, ChangeReceipts([receipts EXCEPT !.receipt[i] = g]),
             g \in Payload => Durable(i, g)
      PROVE  ReceiptsKept'
  <2>1. receipts'.receipt = [receipts.receipt EXCEPT ![i] = g] /\ retained' = retained \cup {receipts'}
    BY <1>3 DEF ChangeReceipts, TInv, SenderTyped, Receipts
  <2> QED
    BY <1>1, <1>3, <2>1 DEF CInv, ReceiptsKept, TInv, SenderTyped, Receipts
<1>4. CASE UNCHANGED retained \/ SyncRetained
  BY <1>1, <1>4 DEF SyncRetained, CInv, ReceiptsKept, TInv, SenderTyped
<1>5. packet[r].payload \in Payload
  BY DEF TInv, SenderTyped, Packet
<1>6. CASE CreateRequest(r) \/ WriteRequest(r)
  BY <1>2, <1>4, <1>5, <1>6 DEF CreateRequest, WriteRequest
<1>7. CASE CreateReceipt(r)
  <2>1. packet[r].id \in Id /\ Torn \notin Payload
    BY <1>7, ConstantsAssumption DEF CreateReceipt, TInv, SenderTyped
  <2> QED
    BY <1>3, <1>4, <1>7, <2>1 DEF CreateReceipt
<1>8. CASE WriteReceipt(r)
  <2>1. packet[r].id \in Id /\ Durable(packet[r].id, packet[r].payload)
    BY <1>8 DEF WriteReceipt, TInv, SenderTyped, CInv, ReportsKept, Reporting
  <2> QED
    BY <1>3, <1>8, <2>1 DEF WriteReceipt
<1>9. CASE ~(CreateRequest(r) \/ WriteRequest(r) \/ CreateReceipt(r) \/ WriteReceipt(r))
  BY <1>4, <1>9 DEF RunStep, StartRun, StartDirect, SyncRequest, FindReceipt, Send, GetAnswer, Timeout, SyncReceipt
<1> QED
  BY <1>6, <1>7, <1>8, <1>9

LEMMA RunStepCInv ==
  ASSUME TInv, CInv, NEW r \in Run, RunStep(r) PROVE CInv'
<1>1. UNCHANGED <<inbox, past>>
  BY DEF RunStep, receiver, StartRun, StartDirect, CreateRequest, WriteRequest, SyncRequest, FindReceipt, Send,
     GetAnswer, Timeout, CreateReceipt, WriteReceipt, SyncReceipt
<1>2. \A i, p : Durable(i, p)' <=> Durable(i, p)
  BY <1>1 DEF Durable
<1>3. ReceiptsKept'
  BY <1>1, ReceiptsWritten
\* An attempt keeps its place, its answer and its packet, or it was just sent.
<1>4. ASSUME NEW d \in Attempt, \/ request'[d].at \in {"confirm", "sync", "discard", "unlock", "answered"}
                                \/ request'[d].answer = "stored"
      PROVE  request'[d] = request[d] /\ packet'[d[1]] = packet[d[1]]
  <2>1. d[1] \in Run
    BY DEF Attempt
  <2>2. CASE Send(r)
    <3>1. /\ tried[r] < Attempts /\ tried'[r] = tried[r] + 1 /\ UNCHANGED packet
          /\ request' = [request EXCEPT ![<<r, tried'[r]>>].at = "sent"]
      BY <2>2 DEF Send, TInv, SenderTyped, TriesCounted
    <3>2. tried'[r] \in 1 .. Attempts /\ <<r, tried'[r]>> \in Attempt /\ request[<<r, tried'[r]>>] = Unsent
      BY <3>1, ConstantsAssumption DEF Attempt, TInv, SenderTyped, UnsentLater
    <3>3. request'[<<r, tried'[r]>>].at = "sent" /\ request'[<<r, tried'[r]>>].answer = "none"
      BY <3>1, <3>2 DEF Unsent, TInv, RequestTyped, Request
    <3>4. d # <<r, tried'[r]>>
      BY <1>4, <3>3
    <3> QED
      BY <3>1, <3>2, <3>4 DEF TInv, RequestTyped
  <2>3. CASE ~Send(r)
    <3>1. UNCHANGED request
      BY <2>3 DEF RunStep, StartRun, StartDirect, CreateRequest, WriteRequest, SyncRequest, FindReceipt,
         GetAnswer, Timeout, CreateReceipt, WriteReceipt, SyncReceipt
    <3>2. CASE UNCHANGED packet
      BY <3>1, <3>2
    <3>3. CASE point[r] \in Untried /\ \A q \in Run \ {r} : packet'[q] = packet[q]
      <4>1. d[1] # r
        BY <1>4, <3>1, <3>3, NothingSent DEF Unsent
      <4> QED
        BY <2>1, <3>1, <3>3, <4>1
    <3> QED
      BY <3>2, <3>3, PacketsStay
  <2> QED
    BY <2>2, <2>3
<1>5. PacketSeen' /\ AnswersKept' /\ AnswersGiven'
  BY <1>1, <1>2, <1>4 DEF CInv, PacketSeen, AnswersKept, AnswersGiven, Id_, Payload_
<1>6. ReportsKept'
  <2> SUFFICES ASSUME NEW q \in Run, point'[q] \in Reporting PROVE Durable(packet'[q].id, packet'[q].payload)
    BY <1>2 DEF ReportsKept
  <2>1. CASE q # r
    <3>1. point'[q] = point[q]
      BY <2>1 DEF RunStep, StartRun, StartDirect, CreateRequest, WriteRequest, SyncRequest, FindReceipt, Send,
         GetAnswer, Timeout, CreateReceipt, WriteReceipt, SyncReceipt, UseRequest, Goto, TInv, SenderTyped
    <3>2. packet'[q] = packet[q]
      BY <2>1, PacketsStay
    <3> QED
      BY <3>1, <3>2 DEF CInv, ReportsKept
  <2>2. CASE q = r
    <3>1. UNCHANGED packet
      BY <2>2, PacketsStay
    <3>2. CASE point[r] \in Reporting
      BY <2>2, <3>1, <3>2 DEF CInv, ReportsKept
    <3>3. CASE FindReceipt(r)
      <4>1. packet[r].id \in Id /\ packet[r].payload \in Payload
        BY <3>3 DEF FindReceipt, TInv, SenderTyped, Packet
      <4>2. receipts.receipt[packet[r].id] = packet[r].payload
        BY <2>2, <3>3, <4>1, ConstantsAssumption DEF FindReceipt, Goto, TInv, SenderTyped, Reporting
      <4> QED
        BY <2>2, <3>1, <4>1, <4>2 DEF CInv, ReceiptsKept, TInv, SenderTyped
    <3>4. CASE GetAnswer(r)
      <4>1. point[r] = "wait" /\ <<r, tried[r]>> \in Attempt
        BY <3>4 DEF GetAnswer, TInv, TriesCounted, Attempt
      <4>2. request[<<r, tried[r]>>].answer \notin {"retry", "refuse"}
        BY <2>2, <3>4 DEF GetAnswer, Goto, TInv, SenderTyped, Reporting, Again
      <4>3. request[<<r, tried[r]>>].answer = "stored"
        BY <3>4, <4>1, <4>2 DEF GetAnswer, TInv, RequestTyped, Request, CInv, AnswersGiven
      <4> QED
        BY <2>2, <3>1, <4>1, <4>3 DEF CInv, AnswersKept, Id_, Payload_
    <3>5. CASE point[r] \notin Reporting /\ ~FindReceipt(r) /\ ~GetAnswer(r)
      <4>1. \E p \in {"failed", "findReceipt", "create", "send", "write", "syncRequest", "wait"} : Goto(r, p)
        BY <3>5 DEF RunStep, StartRun, StartDirect, CreateRequest, WriteRequest, SyncRequest, FindReceipt, Send,
           GetAnswer, Timeout, CreateReceipt, WriteReceipt, SyncReceipt, UseRequest, Again, Reporting
      <4> QED
        BY <2>2, <4>1 DEF Goto, TInv, SenderTyped, Reporting
    <3> QED
      BY <3>2, <3>3, <3>4, <3>5
  <2> QED
    BY <2>1, <2>2
<1>7. Addressed'
  <2> SUFFICES ASSUME NEW q \in Run, tried'[q] # 0 PROVE packet'[q].id \in Id
    BY DEF Addressed
  <2>1. CASE Send(r)
    BY <2>1 DEF Send, TInv, SenderTyped, CInv, Addressed
  <2>2. CASE ~Send(r)
    <3>1. UNCHANGED tried
      BY <2>2 DEF RunStep, StartRun, StartDirect, CreateRequest, WriteRequest, SyncRequest, FindReceipt,
         GetAnswer, Timeout, CreateReceipt, WriteReceipt, SyncReceipt
    <3> QED
      BY <3>1, PacketsStay DEF TInv, TriesCounted, CInv, Addressed
  <2> QED
    BY <2>1, <2>2
<1> QED
  BY <1>3, <1>5, <1>6, <1>7 DEF CInv

\* What a delivery that was sent works on is the packet of a run.
LEMMA PacketOf ==
  ASSUME TInv, CInv, NEW d \in Attempt, request[d] # Unsent
  PROVE  d[1] \in Run /\ Id_(d) \in Id /\ Payload_(d) \in Payload
<1>1. PICK r \in Run, k \in 1 .. Attempts : d = <<r, k>>
  BY DEF Attempt
<1>2. tried[r] # 0 /\ packet[r].payload \in Payload
  <2>1. CASE tried[r] = 0
    BY <1>1, <2>1 DEF TInv, UnsentLater, Unsent
  <2> QED
    BY <2>1 DEF TInv, SenderTyped, Packet
<1> QED
  BY <1>1, <1>2 DEF Id_, Payload_, CInv, Addressed

\* Whatever the inbox does, an answer, a report and a receipt stay good.
LEMMA InboxMoves ==
  ASSUME TInv, CInv, InboxStep, UNCHANGED packet,
         \A r \in Run : point'[r] = "killed" \/ point'[r] = point[r],
         retained' \subseteq retained \cup {receipts},
         \A d \in Attempt : request'[d].answer = "stored" =>
           request[d].answer = "stored" \/ (Durable(Id_(d), Payload_(d)))'
  PROVE  AnswersKept' /\ ReportsKept' /\ ReceiptsKept'
<1>1. AnswersKept'
  <2> SUFFICES ASSUME NEW d \in Attempt, request'[d].answer = "stored" PROVE (Durable(Id_(d), Payload_(d)))'
    BY DEF AnswersKept
  <2>1. CASE request[d].answer = "stored"
    <3>1. Id_(d) \in Id /\ Payload_(d) \in Payload /\ Durable(Id_(d), Payload_(d))
      BY <2>1, PacketOf DEF CInv, AnswersKept, Unsent
    <3>2. (Id_(d))' = Id_(d) /\ (Payload_(d))' = Payload_(d)
      BY DEF Id_, Payload_
    <3>3. PICK i \in Id, p \in Payload : i = Id_(d) /\ p = Payload_(d) /\ Durable(i, p)
      BY <3>1
    <3>4. Durable(i, p)'
      BY <3>3, DurableStays DEF TInv
    <3> QED
      BY <3>2, <3>3, <3>4 DEF Durable
  <2> QED
    BY <2>1
<1>2. ReportsKept'
  <2> SUFFICES ASSUME NEW r \in Run, point'[r] \in Reporting PROVE (Durable(packet[r].id, packet[r].payload))'
    BY DEF ReportsKept
  <2>1. point[r] \in Reporting
    BY DEF Reporting
  <2>2. PICK i \in Id, p \in Payload : i = packet[r].id /\ p = packet[r].payload /\ Durable(i, p)
    BY <2>1 DEF CInv, ReportsKept, Reporting, TInv, SenderTyped, Packet
  <2>3. Durable(i, p)'
    BY <2>2, DurableStays DEF TInv
  <2> QED
    BY <2>2, <2>3 DEF Durable
<1>3. ReceiptsKept'
  <2> SUFFICES ASSUME NEW dir \in retained', NEW i \in Id, dir.receipt[i] \in Payload PROVE Durable(i, dir.receipt[i])'
    BY DEF ReceiptsKept
  <2>1. PICK p \in Payload : p = dir.receipt[i] /\ Durable(i, p)
    BY DEF CInv, ReceiptsKept, TInv, SenderTyped
  <2>2. Durable(i, p)'
    BY <2>1, DurableStays DEF TInv
  <2> QED
    BY <2>1, <2>2 DEF Durable
<1> QED
  BY <1>1, <1>2, <1>3

\* A step of the receiver changes one request, and nothing of the sender.
LEMMA HandleOne ==
  ASSUME TInv, NEW d \in Attempt, Handle(d)
  PROVE  /\ UNCHANGED <<receipts, retained, point, packet, tried>>
         /\ request' \in [Attempt -> Request]
         /\ \A e \in Attempt \ {d} : request'[e] = request[e]
<1>1. UNCHANGED <<receipts, retained, point, packet, tried>>
  BY DEF Handle, sender, Admit, Lock, Look, Confirm, Stage, Rename, Sync, Fail, Discard, Unlock, FailToDiscard
<1>2. \/ \E p \in {"admitted", "answered"} \cup Locked : At(d, p)
      \/ \E p \in {"answered"} \cup Locked, a \in {"stored", "retry", "refuse"} : Answer(d, p, a)
  BY DEF Handle, Admit, Lock, Look, Confirm, Stage, Rename, Sync, Fail, Discard, Unlock, FailToDiscard, Locked
<1>3. request[d].at # "unsent"
  BY DEF Handle, Admit, Lock, Look, Confirm, Stage, Rename, Sync, Fail, Discard, Unlock, FailToDiscard
<1> QED
  BY <1>1, <1>2, <1>3, RequestMoves, RequestAnswered DEF Moves, TInv

LEMMA HandleCInv ==
  ASSUME TInv, CInv, NEW d \in Attempt, Handle(d) PROVE CInv'
<1>0. RequestTyped /\ InboxTyped /\ request[d] \in Request
  BY DEF TInv, RequestTyped
<1>1. /\ UNCHANGED <<receipts, retained, point, packet, tried>>
      /\ \A e \in Attempt \ {d} : request'[e] = request[e]
      /\ \A e : Id_(e)' = Id_(e) /\ Payload_(e)' = Payload_(e)
  BY HandleOne DEF Id_, Payload_
<1>2. d[1] \in Run /\ Id_(d) \in Id /\ Payload_(d) \in Payload
  <2>1. request[d].at # "unsent"
    BY DEF Handle, Admit, Lock, Look, Confirm, Stage, Rename, Sync, Fail, Discard, Unlock, FailToDiscard
  <2> QED
    BY <2>1, PacketOf DEF Unsent
<1>3. PacketSeen'
  <2>1. request'[d].at \in {"confirm", "sync"} => inbox'.packets[Id_(d)] = Payload_(d)
    <3>1. CASE Rename(d)
      BY <1>0, <1>2, <3>1 DEF Rename, ChangeInbox, InboxTyped, Inbox
    <3>2. CASE Look(d)
      BY <1>0, <3>2 DEF Look, At, Answer, receiver, RequestTyped, Request
    <3>3. CASE ~Rename(d) /\ ~Look(d)
      <4>1. request'[d].at \notin {"confirm", "sync"}
        BY <1>0, <3>3 DEF Handle, Admit, Lock, Confirm, Stage, Sync, Fail, Discard, Unlock, FailToDiscard,
           At, Answer, RequestTyped, Request
      <4> QED
        BY <4>1
    <3> QED
      BY <3>1, <3>2, <3>3
  <2>2. ASSUME NEW e \in Attempt \ {d}, request[e].at \in {"confirm", "sync"}
        PROVE  inbox'.packets[Id_(e)] = Payload_(e)
    <3>1. request[d].at \notin Locked
      BY <2>2, OnlyHolder DEF TInv, Holding, Locked
    <3>2. Admit(d) \/ Lock(d)
      BY <3>1 DEF Handle, Look, Confirm, Stage, Rename, Sync, Fail, Discard, Unlock, FailToDiscard, Locked
    <3>3. inbox'.packets = inbox.packets
      BY <1>0, <3>2 DEF Admit, Lock, receiver, ChangeInbox, InboxTyped, Inbox
    <3> QED
      BY <2>2, <3>3 DEF CInv, PacketSeen
  <2> QED
    BY <1>1, <2>1, <2>2 DEF PacketSeen
<1>4. request'[d].answer = "stored" => request[d].answer = "stored" \/ Durable(Id_(d), Payload_(d))'
  <2>1. CASE Confirm(d) \/ Sync(d)
    <3>1. past' = {inbox} /\ inbox.packets[Id_(d)] = Payload_(d)
      BY <2>1 DEF Confirm, Sync, SyncInbox, CInv, PacketSeen
    <3> QED
      BY <1>1, <3>1 DEF Durable
  <2>2. CASE ~Confirm(d) /\ ~Sync(d)
    BY <1>0, <2>2 DEF Handle, Admit, Lock, Look, Stage, Rename, Fail, Discard, Unlock, FailToDiscard,
       At, Answer, RequestTyped, Request
  <2> QED
    BY <2>1, <2>2
<1>5. AnswersKept' /\ ReportsKept' /\ ReceiptsKept'
  <2>1. retained' \subseteq retained \cup {receipts}
    BY <1>1
  <2>2. \A r \in Run : point'[r] = point[r]
    BY <1>1
  <2>3. \A e \in Attempt : request'[e].answer = "stored" =>
           request[e].answer = "stored" \/ (Durable(Id_(e), Payload_(e)))'
    BY <1>1, <1>4
  <2> QED
    BY <1>1, <2>1, <2>2, <2>3, HandleInbox, InboxMoves
<1>6. AnswersGiven'
  <2>1. request'[d].at \in {"discard", "unlock", "answered"} => request'[d].answer # "none"
    BY <1>0 DEF Handle, Admit, Lock, Look, Confirm, Stage, Rename, Sync, Fail, Discard, Unlock, FailToDiscard,
       At, Answer, RequestTyped, Request, CInv, AnswersGiven
  <2> QED
    BY <1>1, <2>1 DEF CInv, AnswersGiven
<1> QED
  BY <1>1, <1>3, <1>5, <1>6 DEF CInv, Addressed

LEMMA FaultCInv ==
  ASSUME TInv, CInv, \/ \E r \in Run : KillRun(r)
                     \/ SenderLosesPower \/ KillReceiver \/ ReceiverLosesPower \/ OwnerRecovers
  PROVE  InboxStep /\ CInv'
<1>1. InboxStep /\ UNCHANGED <<packet, tried>>
  BY DEF KillRun, SenderLosesPower, KillReceiver, ReceiverLosesPower, OwnerRecovers, receiver, sender,
     ChangeInbox, InboxStep, TInv, InboxTyped, Inbox
<1>2. /\ \A r \in Run : point'[r] = "killed" \/ point'[r] = point[r]
      /\ retained' \subseteq retained \cup {receipts}
  BY DEF KillRun, SenderLosesPower, KillReceiver, ReceiverLosesPower, OwnerRecovers, Goto, sender,
     TInv, SenderTyped
<1>3. \A d \in Attempt : /\ request'[d].answer = request[d].answer
                         /\ request'[d].at = request[d].at \/ request'[d].at = "gone"
  BY DEF KillRun, SenderLosesPower, KillReceiver, ReceiverLosesPower, OwnerRecovers, Interrupted,
     TInv, RequestTyped, Request
<1>4. AnswersKept' /\ ReportsKept' /\ ReceiptsKept'
  BY <1>1, <1>2, <1>3, InboxMoves
<1>5. PacketSeen'
  <2> SUFFICES ASSUME NEW d \in Attempt, request'[d].at \in {"confirm", "sync"}
               PROVE  (inbox.packets[Id_(d)] = Payload_(d))'
    BY DEF PacketSeen
  <2>1. request[d].at = request'[d].at /\ d \in Holding /\ d \in Active
    BY <1>3 DEF Holding, Active, Locked
  <2>2. ~KillReceiver /\ ~ReceiverLosesPower /\ ~OwnerRecovers
    BY <2>1 DEF KillReceiver, ReceiverLosesPower, OwnerRecovers, Interrupted, TInv, RequestTyped, Request, Locked
  <2>3. UNCHANGED inbox
    BY <2>2 DEF KillRun, SenderLosesPower, receiver
  <2> QED
    BY <1>1, <2>1, <2>3 DEF CInv, PacketSeen, Id_, Payload_
<1>6. AnswersGiven' /\ Addressed'
  BY <1>1, <1>3 DEF CInv, AnswersGiven, Addressed
<1> QED
  BY <1>1, <1>4, <1>5, <1>6 DEF CInv

LEMMA InitCInv == ASSUME Init PROVE CInv
<1>1. PacketSeen /\ AnswersKept /\ AnswersGiven /\ Addressed /\ ReportsKept
  BY DEF Init, PacketSeen, AnswersKept, AnswersGiven, Addressed, ReportsKept, Reporting, Unsent
<1>2. ReceiptsKept
  BY ConstantsAssumption DEF Init, ReceiptsKept
<1> QED
  BY <1>1, <1>2 DEF CInv

LEMMA NextCInv == ASSUME TInv, CInv, [Next]_vars PROVE CInv'
<1>1. CASE Next
  BY <1>1, RunStepCInv, HandleCInv, FaultCInv DEF Next
<1>2. CASE UNCHANGED vars
  BY <1>2 DEF vars, CInv, PacketSeen, AnswersKept, AnswersGiven, Addressed, ReportsKept, ReceiptsKept,
     Id_, Payload_, Durable
<1> QED
  BY <1>1, <1>2

LEMMA CInvHolds == Spec => []CInv
<1>1. Init => CInv
  BY InitCInv
<1>2. TInv /\ CInv /\ [Next]_vars => CInv'
  BY NextCInv
<1> QED
  BY <1>1, <1>2, TInvHolds, PTL DEF Spec
-----------------------------------------------------------------------------
(****************************** Refinement ******************************)

\* An identity keeps the payload that is durable under it, if there is one.
LEMMA KeptIs ==
  ASSUME InboxTyped, NEW i \in Id, NEW p \in Payload
  PROVE  Kept[i] = p <=> Durable(i, p)
BY ConstantsAssumption DEF InboxTyped, Inbox, Kept, Durable

LEMMA KeptTyped == ASSUME InboxTyped PROVE Kept \in [Id -> Payload \cup {None}]
BY DEF InboxTyped, Inbox, Kept

\* The receiver and its faults keep packets, and report nothing.
LEMMA KeepStep ==
  ASSUME TInv, TInv', InboxStep PROVE /\ Kept' \in [Id -> Payload \cup {None}]
                                      /\ \A i \in Id : Kept[i] # None => Kept'[i] = Kept[i]
<1>1. Kept' \in [Id -> Payload \cup {None}]
  <2>1. InboxTyped'
    BY DEF TInv
  <2> QED
    BY <2>1 DEF InboxTyped, Inbox, Kept
<1>2. ASSUME NEW i \in Id, Kept[i] # None PROVE Kept'[i] = Kept[i]
  <2>1. PICK p \in Payload : Durable(i, p)
    BY <1>2 DEF Kept
  <2>2. Durable(i, p)'
    BY <2>1, DurableStays DEF TInv
  <2>3. inbox.packets[i] = p /\ inbox'.packets[i] = p
    BY <2>1, <2>2 DEF Durable, TInv, InboxTyped
  <2> QED
    BY <2>1, <2>2, <2>3 DEF Kept
<1> QED
  BY <1>1, <1>2

\* What is reported after a run has moved.
LEMMA DeliveredMoves ==
  ASSUME TInv, NEW r \in Run, RunStep(r)
  PROVE  \/ Delivered' = Delivered
         \/ /\ Delivered' = Delivered \cup {<<packet[r].id, packet[r].payload>>}
            /\ point'[r] = "delivered" /\ UNCHANGED packet
<1>1. \A q \in Run \ {r} : point'[q] = point[q] /\ packet'[q] = packet[q]
  <2>1. \A q \in Run \ {r} : point'[q] = point[q]
    BY DEF RunStep, StartRun, StartDirect, CreateRequest, WriteRequest, SyncRequest, FindReceipt, Send,
       GetAnswer, Timeout, CreateReceipt, WriteReceipt, SyncReceipt, UseRequest, Goto, TInv, SenderTyped
  <2> QED
    BY <2>1, PacketsStay
<1>2. point[r] # "delivered"
  BY DEF RunStep, StartRun, StartDirect, CreateRequest, WriteRequest, SyncRequest, FindReceipt, Send,
     GetAnswer, Timeout, CreateReceipt, WriteReceipt, SyncReceipt
<1>3. CASE point'[r] # "delivered"
  BY <1>1, <1>2, <1>3 DEF Delivered
<1>4. CASE point'[r] = "delivered"
  <2>1. UNCHANGED packet
    BY <1>4, PacketsStay DEF Reporting
  <2> QED
    BY <1>1, <1>2, <1>4, <2>1 DEF Delivered
<1> QED
  BY <1>3, <1>4

\* A run reports what is kept, or nothing.
LEMMA ReportStep ==
  ASSUME TInv, CInv, TInv', NEW r \in Run, RunStep(r) PROVE [Custody!Next]_(Custody!vars)
<1>1. UNCHANGED <<inbox, past>>
  BY DEF RunStep, receiver, StartRun, StartDirect, CreateRequest, WriteRequest, SyncRequest, FindReceipt, Send,
     GetAnswer, Timeout, CreateReceipt, WriteReceipt, SyncReceipt
<1>2. Kept' = Kept
  BY <1>1 DEF Kept, Durable
<1>3. CASE Delivered' = Delivered
  BY <1>2, <1>3 DEF Custody!vars
<1>4. CASE /\ Delivered' = Delivered \cup {<<packet[r].id, packet[r].payload>>}
           /\ point'[r] = "delivered" /\ UNCHANGED packet
  <2>1. packet[r].id \in Id /\ packet[r].payload \in Payload
    BY <1>4 DEF TInv, SenderTyped, Packet
  <2>2. Durable(packet[r].id, packet[r].payload)
    BY <1>1, <1>4, RunStepCInv DEF CInv, ReportsKept, Reporting, Durable
  <2>3. Kept[packet[r].id] = packet[r].payload /\ packet[r].payload # None
    BY <2>1, <2>2, KeptIs, ConstantsAssumption DEF TInv
  <2>4. Custody!Report(packet[r].id)
    BY <1>2, <1>4, <2>3 DEF Custody!Report
  <2> QED
    BY <2>1, <2>4 DEF Custody!Next
<1> QED
  BY <1>3, <1>4, DeliveredMoves

LEMMA CustodyStep ==
  ASSUME TInv, CInv, TInv', [Next]_vars PROVE [Custody!Next]_(Custody!vars)
<1>1. CASE UNCHANGED vars
  BY <1>1 DEF vars, Custody!vars, Kept, Durable, Delivered
<1>2. ASSUME NEW r \in Run, RunStep(r) PROVE [Custody!Next]_(Custody!vars)
  BY <1>2, ReportStep
<1>3. ASSUME InboxStep, UNCHANGED packet,
             \A r \in Run : point'[r] = "delivered" <=> point[r] = "delivered"
      PROVE  [Custody!Next]_(Custody!vars)
  <2>1. UNCHANGED Delivered
    BY <1>3 DEF Delivered
  <2>2. Custody!Keep
    BY <1>3, <2>1, KeepStep DEF Custody!Keep
  <2> QED
    BY <2>2 DEF Custody!Next
<1>4. ASSUME NEW d \in Attempt, Handle(d) PROVE [Custody!Next]_(Custody!vars)
  BY <1>3, <1>4, HandleInbox, HandleOne
<1>5. CASE \/ \E r \in Run : KillRun(r)
           \/ SenderLosesPower \/ KillReceiver \/ ReceiverLosesPower \/ OwnerRecovers
  <2>1. UNCHANGED packet
    BY <1>5 DEF KillRun, SenderLosesPower, KillReceiver, ReceiverLosesPower, OwnerRecovers, sender
  <2>2. \A r \in Run : point'[r] = "delivered" <=> point[r] = "delivered"
    BY <1>5 DEF KillRun, SenderLosesPower, KillReceiver, ReceiverLosesPower, OwnerRecovers, sender, Goto,
       Ended, TInv, SenderTyped
  <2> QED
    BY <1>3, <1>5, <2>1, <2>2, FaultCInv
<1> QED
  BY <1>1, <1>2, <1>4, <1>5 DEF Next

LEMMA CustodyInit == ASSUME Init PROVE Custody!Init
<1>1. Kept = [i \in Id |-> None]
  BY DEF Init, Kept, Durable
<1>2. Delivered = {}
  BY DEF Init, Delivered
<1> QED
  BY <1>1, <1>2 DEF Custody!Init

(***************************************************************************)
(* Whatever is lost, repeated, killed or without power, a run reports a    *)
(* delivery only when the inbox keeps its payload under its identity, and  *)
(* what the inbox keeps is never changed.                                  *)
(***************************************************************************)
THEOREM HandoffImplementsCustody == Spec => ImplementsCustody
<1>1. Init => Custody!Init
  BY CustodyInit
<1>2. TInv /\ CInv /\ TInv' /\ [Next]_vars => [Custody!Next]_(Custody!vars)
  BY CustodyStep
<1> QED
  BY <1>1, <1>2, TInvHolds, CInvHolds, PTL DEF Spec, ImplementsCustody, Custody!Spec
-----------------------------------------------------------------------------
(****************************** Capacity *******************************)

Occupied(dir) == {i \in Id : dir.packets[i] # None}

Size(dir) == Cardinality(Occupied(dir)) + dir.incoming

\* A delivery that is about to stage a packet has found room for it.
RoomFound == \A d \in Attempt : request[d].at = "stage" => Size(inbox) < MaxEntries

CapInv == WithinCapacity /\ RoomFound

LEMMA SizeTyped == ASSUME NEW dir \in Inbox PROVE IsFiniteSet(Occupied(dir)) /\ Cardinality(Occupied(dir)) \in Nat /\ Size(dir) \in Nat
<1>1. IsFiniteSet(Occupied(dir))
  BY ConstantsAssumption, FS_Subset DEF Occupied
<1>2. Cardinality(Occupied(dir)) \in Nat
  BY <1>1, FS_CardinalityType
<1> QED
  BY <1>1, <1>2 DEF Size, Inbox

LEMMA CapacityIsSize == WithinCapacity <=> \A dir \in past : Size(dir) <= MaxEntries
BY DEF WithinCapacity, Size, Occupied

\* The directory has the same packets, and no more temporary directories.
LEMMA SmallerStays ==
  ASSUME TInv, CapInv, ChangeInbox(inbox'), inbox' \in Inbox,
         inbox'.packets = inbox.packets, inbox'.incoming <= inbox.incoming
  PROVE  WithinCapacity' /\ Size(inbox') <= Size(inbox)
<1>1. inbox \in Inbox /\ inbox \in past /\ MaxEntries \in Nat
  BY ConstantsAssumption DEF TInv, InboxTyped
<1>2. Occupied(inbox') = Occupied(inbox)
  BY DEF Occupied
<1>3. Size(inbox') <= Size(inbox)
  BY <1>1, <1>2, SizeTyped DEF Size, Inbox
<1>4. Size(inbox) <= MaxEntries /\ Size(inbox) \in Nat /\ Size(inbox') \in Nat
  BY <1>1, CapacityIsSize, SizeTyped DEF CapInv
<1>5. \A dir \in past' : Size(dir) <= MaxEntries
  BY <1>1, <1>3, <1>4, CapacityIsSize DEF CapInv, ChangeInbox
<1> QED
  BY <1>3, <1>5 DEF WithinCapacity, Size, Occupied

\* While one delivery holds the lock, no other has found room.
LEMMA RoomStays ==
  ASSUME TInv, CapInv, NEW d \in Attempt, Handle(d),
         request'[d].at = "stage" => Size(inbox') < MaxEntries,
         request[d].at \in Locked \/ UNCHANGED inbox \/ request'[d].at \in Locked
  PROVE  RoomFound'
<1> SUFFICES ASSUME NEW e \in Attempt, request'[e].at = "stage" PROVE Size(inbox') < MaxEntries
  BY DEF RoomFound, Size, Occupied
<1>1. CASE e = d
  BY <1>1
<1>2. CASE e # d
  <2>1. request[e].at = "stage" /\ e \in Holding /\ e \in Holding'
    BY <1>2, HandleOne DEF Holding, Locked
  <2>2. request[d].at \notin Locked
    BY <1>2, <2>1, OnlyHolder DEF TInv, Holding
  <2>3. request'[d].at \notin Locked
    <3>1. TInv'
      BY HandleTInv
    <3>2. d \in Holding' => d = e
      BY <2>1, <3>1 DEF TInv, LockHasOneOwner
    <3> QED
      BY <1>2, <3>2 DEF Holding
  <2>4. UNCHANGED inbox
    BY <2>2, <2>3
  <2> QED
    BY <2>1, <2>4 DEF CapInv, RoomFound
<1> QED
  BY <1>1, <1>2

LEMMA HandleCapInv ==
  ASSUME TInv, CInv, CapInv, NEW d \in Attempt, Handle(d) PROVE CapInv'
<1>0. /\ RequestTyped /\ InboxTyped /\ request[d] \in Request /\ inbox \in Inbox /\ inbox \in past
      /\ MaxEntries \in Nat /\ Size(inbox) \in Nat /\ inbox' \in Inbox
  <2>1. TInv'
    BY HandleTInv
  <2> QED
    BY <2>1, ConstantsAssumption, SizeTyped DEF TInv, RequestTyped, InboxTyped
<1>1. CASE Stage(d)
  <2>1. request[d].at = "stage" /\ request'[d].at # "stage"
    BY <1>0, <1>1 DEF Stage, At, RequestTyped, Request
  <2>2. inbox'.packets = inbox.packets /\ inbox'.incoming = inbox.incoming + 1 /\ past' = past \cup {inbox'}
    BY <1>0, <1>1 DEF Stage, ChangeInbox, Inbox
  <2>3. Size(inbox') <= MaxEntries
    <3>1. Occupied(inbox') = Occupied(inbox)
      BY <2>2 DEF Occupied
    <3>2. Cardinality(Occupied(inbox)) \in Nat /\ inbox.incoming \in Nat
      BY <1>0, SizeTyped DEF Inbox
    <3>3. Size(inbox) < MaxEntries
      BY <2>1 DEF CapInv, RoomFound
    <3> QED
      BY <1>0, <2>2, <3>1, <3>2, <3>3 DEF Size
  <2>4. WithinCapacity'
    BY <2>2, <2>3, CapacityIsSize DEF CapInv, WithinCapacity, Size, Occupied
  <2>5. RoomFound'
    BY <2>1, RoomStays DEF Locked
  <2> QED
    BY <2>4, <2>5 DEF CapInv
<1>2. CASE Rename(d)
  <2>1. request[d].at = "rename" /\ request'[d].at = "sync"
    BY <1>0, <1>2 DEF Rename, At, RequestTyped, Request
  <2>2. /\ inbox'.packets = [inbox.packets EXCEPT ![Id_(d)] = Payload_(d)]
        /\ inbox'.incoming = inbox.incoming - 1 /\ past' = past \cup {inbox'}
        /\ inbox.packets[Id_(d)] = None
    BY <1>0, <1>2 DEF Rename, ChangeInbox, Inbox
  <2>3. Size(inbox') <= Size(inbox)
    <3>1. Id_(d) \in Id /\ Payload_(d) \in Payload /\ Payload_(d) # None
      BY <2>1, PacketOf, ConstantsAssumption DEF Unsent
    <3>2. Occupied(inbox') = Occupied(inbox) \cup {Id_(d)} /\ Id_(d) \notin Occupied(inbox)
      BY <1>0, <2>2, <3>1 DEF Occupied, Inbox
    <3>3. Cardinality(Occupied(inbox')) = Cardinality(Occupied(inbox)) + 1
      BY <1>0, <3>2, SizeTyped, FS_AddElement
    <3>4. Cardinality(Occupied(inbox)) \in Nat /\ inbox.incoming \in Nat
      BY <1>0, SizeTyped DEF Inbox
    <3> QED
      BY <2>2, <3>3, <3>4 DEF Size
  <2>4. Size(inbox) <= MaxEntries /\ Size(inbox') \in Nat
    BY <1>0, CapacityIsSize, SizeTyped DEF CapInv
  <2>5. WithinCapacity'
    <3>1. \A dir \in past' : Size(dir) <= MaxEntries
      BY <1>0, <2>2, <2>3, <2>4, CapacityIsSize DEF CapInv
    <3> QED
      BY <3>1 DEF WithinCapacity, Size, Occupied
  <2>6. RoomFound'
    BY <2>1, RoomStays DEF Locked
  <2> QED
    BY <2>5, <2>6 DEF CapInv
<1>3. CASE Lock(d) \/ Discard(d) \/ Unlock(d)
  <2>1. request'[d].at # "stage" /\ (request[d].at \in Locked \/ UNCHANGED inbox \/ request'[d].at \in Locked)
    BY <1>0, <1>3 DEF Lock, Discard, Unlock, At, Answer, receiver, RequestTyped, Request, Locked
  <2>2. RoomFound'
    BY <2>1, RoomStays
  <2>3. WithinCapacity'
    <3>1. CASE UNCHANGED <<inbox, past>>
      BY <3>1 DEF CapInv, WithinCapacity
    <3>2. CASE ~UNCHANGED <<inbox, past>>
      <4>1. /\ ChangeInbox(inbox') /\ inbox'.packets = inbox.packets
            /\ inbox'.incoming = inbox.incoming \/ inbox'.incoming = inbox.incoming - 1
        BY <1>0, <1>3, <3>2 DEF Lock, Discard, Unlock, ChangeInbox, Inbox, receiver
      <4>2. inbox'.incoming <= inbox.incoming
        BY <1>0, <4>1 DEF Inbox
      <4> QED
        BY <1>0, <4>1, <4>2, SmallerStays
    <3> QED
      BY <3>1, <3>2
  <2> QED
    BY <2>2, <2>3 DEF CapInv
<1>4. CASE ~(Stage(d) \/ Rename(d) \/ Lock(d) \/ Discard(d) \/ Unlock(d))
  <2>1. UNCHANGED inbox /\ past' \subseteq past
    BY <1>0, <1>4 DEF Handle, receiver, Admit, Look, Confirm, Sync, Fail, FailToDiscard, SyncInbox
  <2>2. WithinCapacity'
    BY <2>1 DEF CapInv, WithinCapacity
  <2>3. request'[d].at = "stage" => Size(inbox) < MaxEntries
    BY <1>0, <1>4 DEF Handle, Admit, Look, Confirm, Sync, Fail, FailToDiscard, At, Answer, RequestTyped, Request,
       Entries, Size, Occupied
  <2>4. RoomFound'
    BY <2>1, <2>3, RoomStays
  <2> QED
    BY <2>2, <2>4 DEF CapInv
<1> QED
  BY <1>1, <1>2, <1>3, <1>4

LEMMA OtherCapInv ==
  ASSUME TInv, TInv', CapInv,
         \/ \E r \in Run : RunStep(r) \/ KillRun(r)
         \/ SenderLosesPower \/ KillReceiver \/ ReceiverLosesPower \/ OwnerRecovers
  PROVE  CapInv'
<1>0. inbox' \in Inbox /\ inbox \in Inbox
  BY DEF TInv, InboxTyped
<1>1. CASE \E r \in Run : RunStep(r)
  <2>1. PICK r \in Run : RunStep(r)
    BY <1>1
  <2>2. UNCHANGED <<inbox, past>>
    BY <2>1 DEF RunStep, receiver, StartRun, StartDirect, CreateRequest, WriteRequest, SyncRequest, FindReceipt, Send,
       GetAnswer, Timeout, CreateReceipt, WriteReceipt, SyncReceipt
  <2>3. \A d \in Attempt : request'[d].at = "stage" => request[d].at = "stage"
    <3>1. CASE Send(r)
      <4>1. PICK k : request' = [request EXCEPT ![<<r, k>>].at = "sent"]
        BY <3>1 DEF Send
      <4> QED
        BY <4>1 DEF TInv, RequestTyped, Request
    <3>2. CASE ~Send(r)
      BY <2>1, <3>2 DEF RunStep, StartRun, StartDirect, CreateRequest, WriteRequest, SyncRequest, FindReceipt,
         GetAnswer, Timeout, CreateReceipt, WriteReceipt, SyncReceipt
    <3> QED
      BY <3>1, <3>2
  <2> QED
    BY <2>2, <2>3 DEF CapInv, WithinCapacity, RoomFound, Size, Occupied
<1>2. CASE (\E r \in Run : KillRun(r)) \/ SenderLosesPower
  BY <1>2 DEF KillRun, SenderLosesPower, receiver, CapInv, WithinCapacity, RoomFound, Size, Occupied
<1>3. CASE KillReceiver \/ ReceiverLosesPower
  <2>1. \A d \in Attempt : request'[d].at # "stage"
    BY <1>3, RequestsInterrupted DEF KillReceiver, ReceiverLosesPower, TInv, Locked
  <2>2. past' \subseteq past
    BY <1>3 DEF KillReceiver, ReceiverLosesPower, receiver
  <2> QED
    BY <2>1, <2>2 DEF CapInv, WithinCapacity, RoomFound
<1>4. CASE OwnerRecovers
  <2>1. \A d \in Attempt : request'[d].at # "stage"
    BY <1>4 DEF OwnerRecovers, Holding, Locked
  <2>2. /\ ChangeInbox(inbox') /\ inbox'.packets = inbox.packets
        /\ inbox'.incoming = 0 /\ inbox'.incoming <= inbox.incoming
    BY <1>0, <1>4 DEF OwnerRecovers, ChangeInbox, Inbox
  <2>3. WithinCapacity'
    BY <1>0, <2>2, SmallerStays
  <2> QED
    BY <2>1, <2>3 DEF CapInv, RoomFound
<1> QED
  BY <1>1, <1>2, <1>3, <1>4

LEMMA NextCapInv == ASSUME TInv, CInv, CapInv, TInv', [Next]_vars PROVE CapInv'
<1>1. CASE Next
  BY <1>1, HandleCapInv, OtherCapInv DEF Next
<1>2. CASE UNCHANGED vars
  BY <1>2 DEF vars, CapInv, WithinCapacity, RoomFound, Size, Occupied
<1> QED
  BY <1>1, <1>2

LEMMA InitCapInv == ASSUME Init PROVE CapInv
<1>1. Occupied(inbox) = {} /\ inbox.incoming = 0 /\ past = {inbox}
  BY DEF Init, Occupied
<1>2. Size(inbox) = 0
  BY <1>1, FS_EmptySet DEF Size
<1>3. \A dir \in past : Size(dir) <= MaxEntries
  BY <1>1, <1>2, ConstantsAssumption
<1> QED
  BY <1>3, CapacityIsSize DEF Init, CapInv, RoomFound, Unsent

(***************************************************************************)
(* Packets and temporary directories together stay within maximumEntries,  *)
(* whatever runs at once and whatever a loss of power brings back.         *)
(***************************************************************************)
THEOREM InboxWithinCapacity == Spec => []WithinCapacity
<1>1. Init => CapInv
  BY InitCapInv
<1>2. TInv /\ CInv /\ TInv' /\ CapInv /\ [Next]_vars => CapInv'
  BY NextCapInv
<1>3. CapInv => WithinCapacity
  BY DEF CapInv
<1> QED
  BY <1>1, <1>2, <1>3, TInvHolds, CInvHolds, PTL DEF Spec
=============================================================================
