----------------------------- MODULE AuditTrail -----------------------------
(***************************************************************************)
(* The hash-chained audit table of the Postgres admin store.               *)
(*                                                                         *)
(* Every mutation of the admin store runs in a transaction (runTransaction)*)
(* that may append several audit events.  appendAuditEvent first locks the *)
(* table in EXCLUSIVE mode, then reads the row with the largest sequence,  *)
(* then inserts a row with the next sequence and the hash of the row it    *)
(* read.  The lock is kept until the transaction ends.  Transactions run   *)
(* at READ COMMITTED: a statement sees the rows committed when it starts   *)
(* and the rows of its own transaction.                                    *)
(*                                                                         *)
(* A SHA-256 digest is represented by the identifier of the row it was     *)
(* computed from: identifiers are fresh UUIDs, rows are never changed      *)
(* (triggers refuse UPDATE and DELETE), and digests do not collide.        *)
(***************************************************************************)
EXTENDS Naturals, FiniteSets

CONSTANTS Transaction,    \* the store's write transactions
          MaxEvents,      \* bound: the most events one transaction appends
          NoHash          \* previous_hash of the first row (NULL)

ASSUME MaxEventsAssumption == MaxEvents \in Nat

VARIABLES
  rows,         \* the committed rows of admin_audit_events
  pending,      \* pending[t]: rows inserted by t and not yet committed
  appended,     \* appended[t]: how many rows t has inserted
  last,         \* last[t]: what t's latest SELECT ... LIMIT 1 returned
  pc            \* pc[t]: where t is

vars == <<rows, pending, appended, last, pc>>

EventId == Transaction \X (1..MaxEvents)

Row == [id : EventId, sequence : Nat, previous_hash : EventId \cup {NoHash}]

\* The row before the first one, as "last?.sequence ?? 0" and "|| null" read it.
NoRow == [id |-> NoHash, sequence |-> 0]

Point == {"idle",       \* no transaction yet
          "open",       \* inside BEGIN, no lock on the audit table
          "locked",     \* LOCK TABLE returned
          "selected",   \* the last row was read, the INSERT comes next
          "committed", "aborted"}

TypeOK ==
  /\ rows \in SUBSET Row
  /\ pending \in [Transaction -> SUBSET Row]
  /\ appended \in [Transaction -> 0..MaxEvents]
  /\ last \in [Transaction -> [id : EventId \cup {NoHash}, sequence : Nat]]
  /\ pc \in [Transaction -> Point]

Init ==
  /\ rows = {}
  /\ pending = [t \in Transaction |-> {}]
  /\ appended = [t \in Transaction |-> 0]
  /\ last = [t \in Transaction |-> NoRow]
  /\ pc = [t \in Transaction |-> "idle"]
-----------------------------------------------------------------------------
Visible(t) == rows \cup pending[t]

\* Mutant: the lock is given up after every append.
LockOwnersSelected == {t \in Transaction : pc[t] = "selected"}

\* The transactions that own the EXCLUSIVE lock on the audit table.
LockOwners == {t \in Transaction : pc[t] \in {"locked", "selected"}}

BeginTransaction(t) ==
  /\ pc[t] = "idle"
  /\ pc' = [pc EXCEPT ![t] = "open"]
  /\ UNCHANGED <<rows, pending, appended, last>>

\* LOCK TABLE ... IN EXCLUSIVE MODE waits for the other owner; it returns at
\* once when the transaction owns the lock from an earlier append.
LockAuditTable(t) ==
  /\ pc[t] = "open"
  /\ LockOwners \ {t} = {}
  /\ pc' = [pc EXCEPT ![t] = "locked"]
  /\ UNCHANGED <<rows, pending, appended, last>>

\* SELECT sequence, event_hash ... ORDER BY sequence DESC LIMIT 1
SelectLast(t) ==
  /\ pc[t] = "locked"
  /\ appended[t] < MaxEvents
  /\ \/ /\ Visible(t) = {}
        /\ last' = [last EXCEPT ![t] = NoRow]
     \/ \E r \in Visible(t) :
          /\ \A q \in Visible(t) : q.sequence <= r.sequence
          /\ last' = [last EXCEPT ![t] = [id |-> r.id, sequence |-> r.sequence]]
  /\ pc' = [pc EXCEPT ![t] = "selected"]
  /\ UNCHANGED <<rows, pending, appended>>

\* Mutant: only the first event of a transaction is chained.
NextRowUnchained(t) == [id |-> <<t, appended[t] + 1>>,
                        sequence |-> last[t].sequence + 1,
                        previous_hash |-> IF appended[t] = 0 THEN last[t].id ELSE NoHash]

NextRow(t) == [id |-> <<t, appended[t] + 1>>,
               sequence |-> last[t].sequence + 1,
               previous_hash |-> last[t].id]

\* The column "sequence" is UNIQUE.
Collides(t, others) == \E r \in others : r.sequence = NextRow(t).sequence

Uncommitted(t) == UNION {pending[u] : u \in Transaction \ {t}}

\* Mutant: the INSERT runs outside the transaction, on a connection of the pool.
InsertEventOutside(t) ==
  /\ pc[t] = "selected"
  /\ ~Collides(t, Visible(t) \cup Uncommitted(t))
  /\ rows' = rows \cup {NextRow(t)}
  /\ appended' = [appended EXCEPT ![t] = @ + 1]
  /\ pc' = [pc EXCEPT ![t] = "locked"]
  /\ UNCHANGED <<pending, last>>

\* INSERT: a row with the same sequence makes it wait for the other transaction
\* and fail if that one commits; the failure is a Rollback.
InsertEvent(t) ==
  /\ pc[t] = "selected"
  /\ ~Collides(t, Visible(t) \cup Uncommitted(t))
  /\ pending' = [pending EXCEPT ![t] = @ \cup {NextRow(t)}]
  /\ appended' = [appended EXCEPT ![t] = @ + 1]
  /\ pc' = [pc EXCEPT ![t] = "locked"]
  /\ UNCHANGED <<rows, last>>

Commit(t) ==
  /\ pc[t] \in {"open", "locked"}
  /\ rows' = rows \cup pending[t]
  /\ pending' = [pending EXCEPT ![t] = {}]
  /\ pc' = [pc EXCEPT ![t] = "committed"]
  /\ UNCHANGED <<appended, last>>

\* Any failure of the work, a refused INSERT included, or the loss of the
\* server or of the connection.
Rollback(t) ==
  /\ pc[t] \in {"open", "locked", "selected"}
  /\ pending' = [pending EXCEPT ![t] = {}]
  /\ pc' = [pc EXCEPT ![t] = "aborted"]
  /\ UNCHANGED <<rows, appended, last>>

\* Every transaction has ended: nothing is left to do.
Done ==
  /\ \A t \in Transaction : pc[t] \in {"committed", "aborted"}
  /\ UNCHANGED vars

Step(t) ==
  \/ BeginTransaction(t)
  \/ LockAuditTable(t)
  \/ SelectLast(t)
  \/ InsertEvent(t)
  \/ Commit(t)
  \/ Rollback(t)

Next == (\E t \in Transaction : Step(t)) \/ Done

Spec == Init /\ [][Next]_vars
-----------------------------------------------------------------------------
\* verifyAuditChain over rows sorted by sequence: the sequences are 1, 2, 3,
\* ... and every row carries the digest of the row before it.
VerifyAuditChain(table) ==
  /\ \A q, r \in table : q.sequence = r.sequence => q = r
  /\ \A r \in table :
       \/ r.sequence = 1 /\ r.previous_hash = NoHash
       \/ \E q \in table : /\ r.sequence = q.sequence + 1
                          /\ r.previous_hash = q.id

(***************************************************************************)
(* The trail any reader loads (buildAuditEventResponse) passes             *)
(* verifyAuditChain, whatever transactions interleave, fail or are lost.   *)
(***************************************************************************)
IntegrityVerified == VerifyAuditChain(rows)

(***************************************************************************)
(* An append never meets a row with its own sequence: neither a committed  *)
(* one, which would make an unrelated mutation fail, nor an uncommitted    *)
(* one, which would make it wait inside the lock it owns.                  *)
(***************************************************************************)
AppendsNeverCollide ==
  \A t \in Transaction :
    pc[t] = "selected" => ~Collides(t, Visible(t) \cup Uncommitted(t))

\* The committed rows in the order of their sequence.
LedgerOf(table) ==
  [n \in 1..Cardinality(table) |-> (CHOOSE r \in table : r.sequence = n).id]

Ledger == INSTANCE AuditLedger WITH ledger <- LedgerOf(rows)

(***************************************************************************)
(* The table implements the ledger of AuditLedger: the events of a         *)
(* transaction appear at its commit, all of them, adjacent, in the order   *)
(* in which it appended them, and stay.                                    *)
(***************************************************************************)
ImplementsLedger == Ledger!LedgerSpec
=============================================================================
