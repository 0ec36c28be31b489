-------------------------- MODULE AuditTrailProofs --------------------------
(***************************************************************************)
(* The audit trail is intact for every set of transactions and every       *)
(* number of appends.                                                      *)
(*                                                                         *)
(* Only the owner of the table lock has uncommitted rows, so the rows a    *)
(* transaction sees are all there are, and they form a chain whose last    *)
(* row is the one its SELECT returned.  A COMMIT therefore extends the     *)
(* ledger by the events of its transaction, in their order.                *)
(*                                                                         *)
(* The second part is about StateBallots, which has nothing in common with *)
(* the audit trail but its place here.                                     *)
(***************************************************************************)
EXTENDS AuditTrail, StateBallots, FiniteSetTheorems, SequenceTheorems, TLAPS

\* last[t] describes the visible row with the largest sequence.
ReadIsLatest(t) ==
  \/ Visible(t) = {} /\ last[t] = NoRow
  \/ \E r \in Visible(t) :
       /\ \A q \in Visible(t) : q.sequence <= r.sequence
       /\ last[t] = [id |-> r.id, sequence |-> r.sequence]

IInv ==
  /\ TypeOK
  /\ \A t, u \in LockOwners : t = u
  /\ \A t \in Transaction : t \notin LockOwners => pending[t] = {}
  /\ IntegrityVerified
  /\ \A t \in Transaction : VerifyAuditChain(Visible(t))
  /\ \A t \in Transaction :
       pc[t] = "selected" => ReadIsLatest(t) /\ appended[t] < MaxEvents

-----------------------------------------------------------------------------
(***************************************************************************)
(* What an INSERT adds to a chain of which it read the last row is again a *)
(* chain: the step of appendAuditEvent on which the audit trail rests.     *)
(***************************************************************************)
LEMMA ExtendedChain ==
  ASSUME NEW table \in SUBSET Row, VerifyAuditChain(table),
         NEW row \in Row,
         \/ table = {} /\ row.sequence = 1 /\ row.previous_hash = NoHash
         \/ \E r \in table : /\ \A q \in table : q.sequence <= r.sequence
                             /\ row.sequence = r.sequence + 1
                             /\ row.previous_hash = r.id
  PROVE  VerifyAuditChain(table \cup {row})
<1>1. \A r \in table : r.sequence \in Nat /\ r.sequence < row.sequence
  BY DEF Row
<1>2. ASSUME NEW q \in table \cup {row}, NEW r \in table \cup {row},
             q.sequence = r.sequence
      PROVE  q = r
  <2>1. CASE q \in table /\ r \in table
    BY <1>2, <2>1 DEF VerifyAuditChain
  <2>2. CASE q = row \/ r = row
    BY <1>1, <1>2, <2>2 DEF Row
  <2> QED BY <2>1, <2>2
<1>3. ASSUME NEW r \in table \cup {row}
      PROVE  \/ r.sequence = 1 /\ r.previous_hash = NoHash
             \/ \E q \in table \cup {row} : /\ r.sequence = q.sequence + 1
                                           /\ r.previous_hash = q.id
  <2>1. CASE r \in table
    BY <2>1 DEF VerifyAuditChain
  <2>2. CASE r = row
    BY <2>2
  <2> QED BY <2>1, <2>2
<1> QED BY <1>2, <1>3 DEF VerifyAuditChain

LEMMA InitIInv == Init => IInv
<1> SUFFICES ASSUME Init PROVE IInv
  OBVIOUS
<1>1. TypeOK
  BY MaxEventsAssumption DEF Init, TypeOK, NoRow, Point
<1>2. LockOwners = {}
  BY DEF Init, LockOwners
<1>3. \A t \in Transaction : Visible(t) = {} /\ pending[t] = {}
  BY DEF Init, Visible
<1>4. VerifyAuditChain({})
  BY DEF VerifyAuditChain
<1>5. \A t \in Transaction : pc[t] # "selected"
  BY DEF Init
<1> QED BY <1>1, <1>2, <1>3, <1>4, <1>5 DEF IInv, IntegrityVerified, Init

LEMMA StepIInv == IInv /\ [Next]_vars => IInv'
<1> SUFFICES ASSUME IInv, [Next]_vars PROVE IInv'
  OBVIOUS
<1> USE DEF IInv, IntegrityVerified
<1>1. ASSUME NEW t \in Transaction, BeginTransaction(t) PROVE IInv'
  <2> USE <1>1 DEF BeginTransaction
  <2>1. TypeOK'
    BY DEF TypeOK, Point
  <2>2. LockOwners' = LockOwners /\ \A u \in Transaction : Visible(u)' = Visible(u)
    BY DEF TypeOK, LockOwners, Visible
  <2>3. \A u \in Transaction : pc'[u] = "selected" => pc[u] = "selected"
    BY DEF TypeOK
  <2> QED BY <2>1, <2>2, <2>3 DEF ReadIsLatest, VerifyAuditChain, NoRow
<1>2. ASSUME NEW t \in Transaction, LockAuditTable(t) PROVE IInv'
  <2> USE <1>2 DEF LockAuditTable
  <2>1. TypeOK'
    BY DEF TypeOK, Point
  <2>2. LockOwners' = {t} /\ \A u \in Transaction : Visible(u)' = Visible(u)
    BY DEF TypeOK, LockOwners, Visible
  <2>3. \A u \in Transaction : pc'[u] = "selected" => pc[u] = "selected"
    BY DEF TypeOK
  <2>4. \A u \in Transaction : u \notin LockOwners' => pending'[u] = {}
    BY <2>2
  <2> QED BY <2>1, <2>2, <2>3, <2>4 DEF ReadIsLatest, VerifyAuditChain, NoRow
<1>3. ASSUME NEW t \in Transaction, SelectLast(t) PROVE IInv'
  <2> USE <1>3 DEF SelectLast
  <2>1. /\ \A u \in Transaction : Visible(u)' = Visible(u)
        /\ LockOwners' = LockOwners
        /\ Visible(t) \in SUBSET Row
    BY DEF TypeOK, LockOwners, Visible
  <2>2. ReadIsLatest(t)'
    BY <2>1 DEF TypeOK, ReadIsLatest, NoRow
  <2>3. TypeOK'
    <3>1. last' \in [Transaction -> [id : EventId \cup {NoHash}, sequence : Nat]]
      BY <2>1 DEF TypeOK, Row, NoRow
    <3> QED BY <3>1 DEF TypeOK, Point
  <2>4. \A u \in Transaction :
          pc'[u] = "selected" => ReadIsLatest(u)' /\ appended'[u] < MaxEvents
    <3> TAKE u \in Transaction
    <3>1. CASE u = t
      BY <2>2, <3>1 DEF TypeOK
    <3>2. CASE u # t
      <4>1. last'[u] = last[u] /\ pc'[u] = pc[u] /\ appended'[u] = appended[u]
        BY <3>2 DEF TypeOK
      <4> QED BY <2>1, <4>1 DEF ReadIsLatest, NoRow
    <3> QED BY <3>1, <3>2
  <2> QED BY <2>1, <2>3, <2>4 DEF VerifyAuditChain
<1>4. ASSUME NEW t \in Transaction, InsertEvent(t) PROVE IInv'
  <2> USE <1>4 DEF InsertEvent
  <2> DEFINE row == NextRow(t)
  <2>1. row \in Row
    BY MaxEventsAssumption DEF TypeOK, NextRow, Row, EventId
  <2>2. TypeOK'
    BY <2>1, MaxEventsAssumption DEF TypeOK, Point
  <2>3. LockOwners' = LockOwners /\ t \in LockOwners
    BY DEF TypeOK, LockOwners
  <2>4. /\ Visible(t)' = Visible(t) \cup {row}
        /\ \A u \in Transaction \ {t} : Visible(u)' = Visible(u)
    BY DEF TypeOK, Visible
  <2>5. VerifyAuditChain(Visible(t) \cup {row})
    <3>1. \/ Visible(t) = {} /\ row.sequence = 1 /\ row.previous_hash = NoHash
          \/ \E r \in Visible(t) : /\ \A q \in Visible(t) : q.sequence <= r.sequence
                                   /\ row.sequence = r.sequence + 1
                                   /\ row.previous_hash = r.id
      <4>0. ReadIsLatest(t)
        OBVIOUS
      <4>1. CASE Visible(t) = {} /\ last[t] = NoRow
        BY <4>1 DEF NextRow, NoRow
      <4>2. ASSUME NEW r \in Visible(t),
                   \A q \in Visible(t) : q.sequence <= r.sequence,
                   last[t] = [id |-> r.id, sequence |-> r.sequence]
            PROVE  row.sequence = r.sequence + 1 /\ row.previous_hash = r.id
        BY <4>2 DEF NextRow
      <4> QED BY <4>0, <4>1, <4>2 DEF ReadIsLatest
    <3>2. Visible(t) \in SUBSET Row /\ VerifyAuditChain(Visible(t))
      BY DEF TypeOK, Visible
    <3> HIDE DEF row
    <3> QED BY <2>1, <3>1, <3>2, ExtendedChain
  <2>6. \A u \in Transaction : VerifyAuditChain(Visible(u))'
    <3> TAKE u \in Transaction
    <3>1. CASE u = t
      BY <2>4, <2>5, <3>1 DEF VerifyAuditChain
    <3>2. CASE u # t
      BY <2>4, <3>2 DEF VerifyAuditChain
    <3> QED BY <3>1, <3>2
  <2>7. \A u \in Transaction : u \notin LockOwners' => pending'[u] = {}
    BY <2>3 DEF TypeOK
  <2>8. \A u \in Transaction : pc'[u] # "selected"
    BY DEF TypeOK, LockOwners
  <2> QED BY <2>2, <2>3, <2>6, <2>7, <2>8
<1>5. ASSUME NEW t \in Transaction, Commit(t) PROVE IInv'
  <2> USE <1>5 DEF Commit
  <2>1. TypeOK'
    BY DEF TypeOK, Point
  <2>2. \A u \in Transaction \ {t} : pending[u] # {} => pending[t] = {}
    BY DEF LockOwners
  <2>3. LockOwners' = LockOwners \ {t}
    BY DEF TypeOK, LockOwners
  <2>4. \A u \in Transaction : VerifyAuditChain(Visible(u))'
    <3> TAKE u \in Transaction
    <3>1. Visible(u)' = Visible(t) \/ Visible(u)' = Visible(u)
      BY <2>2 DEF TypeOK, Visible
    <3> QED BY <3>1 DEF VerifyAuditChain
  <2>5. \A u \in Transaction : u \notin LockOwners' => pending'[u] = {}
    BY <2>3 DEF TypeOK
  <2>6. ASSUME NEW u \in Transaction, pc'[u] = "selected"
        PROVE  ReadIsLatest(u)' /\ appended'[u] < MaxEvents
    <3>1. u # t /\ pc[u] = "selected" /\ u \in LockOwners
      BY <2>6 DEF TypeOK, LockOwners
    <3>2. Visible(u)' = Visible(u)
      BY <3>1 DEF TypeOK, Visible
    <3> QED BY <3>1, <3>2 DEF TypeOK, ReadIsLatest, NoRow
  <2>7. VerifyAuditChain(rows')
    <3>1. rows' = Visible(t)
      BY DEF Visible
    <3> QED BY <3>1
  <2> QED BY <2>1, <2>3, <2>4, <2>5, <2>6, <2>7 DEF VerifyAuditChain
<1>6. ASSUME NEW t \in Transaction, Rollback(t) PROVE IInv'
  <2> USE <1>6 DEF Rollback
  <2>1. TypeOK'
    BY DEF TypeOK, Point
  <2>2. LockOwners' = LockOwners \ {t}
    BY DEF TypeOK, LockOwners
  <2>3. \A u \in Transaction : Visible(u)' = Visible(u) \/ Visible(u)' = rows
    BY DEF TypeOK, Visible
  <2>4. \A u \in Transaction : VerifyAuditChain(Visible(u))'
    BY <2>3 DEF VerifyAuditChain, IntegrityVerified
  <2>5. \A u \in Transaction : u \notin LockOwners' => pending'[u] = {}
    BY <2>2 DEF TypeOK
  <2>6. ASSUME NEW u \in Transaction, pc'[u] = "selected"
        PROVE  ReadIsLatest(u)' /\ appended'[u] < MaxEvents
    <3>1. u # t /\ pc[u] = "selected"
      BY <2>6 DEF TypeOK
    <3>2. Visible(u)' = Visible(u)
      BY <3>1 DEF TypeOK, Visible
    <3> QED BY <3>1, <3>2 DEF TypeOK, ReadIsLatest, NoRow
  <2> QED BY <2>1, <2>2, <2>4, <2>5, <2>6 DEF IntegrityVerified
<1>7. CASE UNCHANGED vars
  BY <1>7 DEF vars, TypeOK, LockOwners, Visible, ReadIsLatest, VerifyAuditChain, NoRow
<1> QED BY <1>1, <1>2, <1>3, <1>4, <1>5, <1>6, <1>7 DEF Next, Step, Done

(***************************************************************************)
(* The table keeps its types.                                              *)
(***************************************************************************)
THEOREM AuditTrailTyped == Spec => []TypeOK
<1>1. IInv => TypeOK
  BY DEF IInv
<1> QED BY <1>1, InitIInv, StepIInv, PTL DEF Spec

(***************************************************************************)
(* Every trail a reader can load passes verifyAuditChain.                  *)
(***************************************************************************)
THEOREM AuditTrailIntact == Spec => []IntegrityVerified
<1>1. IInv => IntegrityVerified
  BY DEF IInv
<1> QED BY <1>1, InitIInv, StepIInv, PTL DEF Spec

(***************************************************************************)
(* No append ever meets a row with the sequence it computed.               *)
(***************************************************************************)
THEOREM AuditAppendsNeverCollide == Spec => []AppendsNeverCollide
<1>1. IInv => AppendsNeverCollide
  <2> SUFFICES ASSUME IInv, NEW t \in Transaction, pc[t] = "selected",
                      NEW r \in Visible(t) \cup Uncommitted(t)
               PROVE  r.sequence # NextRow(t).sequence
    BY DEF AppendsNeverCollide, Collides
  <2>1. t \in LockOwners
    BY DEF LockOwners
  <2>2. \A u \in Transaction \ {t} : pending[u] = {}
    BY <2>1 DEF IInv
  <2>3. r \in Visible(t) /\ r.sequence \in Nat
    BY <2>2 DEF Uncommitted, Visible, IInv, TypeOK, Row
  <2>4. ReadIsLatest(t)
    BY DEF IInv
  <2>5. PICK m \in Visible(t) : /\ \A q \in Visible(t) : q.sequence <= m.sequence
                                /\ last[t] = [id |-> m.id, sequence |-> m.sequence]
    BY <2>3, <2>4 DEF ReadIsLatest
  <2>6. m.sequence \in Nat /\ NextRow(t).sequence = m.sequence + 1
    BY <2>5 DEF Visible, NextRow, IInv, TypeOK, Row
  <2> QED BY <2>3, <2>5, <2>6
<1> QED BY <1>1, InitIInv, StepIInv, PTL DEF Spec
-----------------------------------------------------------------------------
(***************************************************************************)
(* What the refinement needs besides IInv.  The sequences of a table are   *)
(* counted by its rows; the rows of a running transaction are its events,  *)
(* numbered after the committed rows in the order it appended them; a      *)
(* committed row belongs to a transaction that committed.                  *)
(***************************************************************************)
Numbered(table) ==
  /\ IsFiniteSet(table)
  /\ \A r \in table : r.sequence \in 1..Cardinality(table)
  /\ \A n \in 1..Cardinality(table) : \E r \in table : r.sequence = n

IsEvent(r, t, k) == r.id = <<t, k>> /\ r.sequence = Cardinality(rows) + k

InOrder(t) ==
  /\ Cardinality(Visible(t)) = Cardinality(rows) + appended[t]
  /\ \A r \in pending[t] : \E k \in 1..appended[t] : IsEvent(r, t, k)
  /\ \A k \in 1..appended[t] : \E r \in pending[t] : IsEvent(r, t, k)

Ended(t) == pc[t] \in {"committed", "aborted"}

LInv ==
  /\ Numbered(rows)
  /\ \A r \in rows : pc[r.id[1]] = "committed"
  /\ \A t \in Transaction : Numbered(Visible(t))
  /\ \A t \in Transaction : ~Ended(t) => InOrder(t)
  /\ \A t \in Transaction : pc[t] \in {"idle", "open"} => appended[t] = 0
  /\ \A t \in Transaction :
       pc[t] = "selected" => last[t].sequence = Cardinality(Visible(t))

LEMMA NumberedEmpty == Numbered({})
BY FS_EmptySet DEF Numbered

\* The next number makes a numbered table of one row more.
LEMMA NumberedExtended ==
  ASSUME NEW table, Numbered(table), NEW row,
         row.sequence = Cardinality(table) + 1
  PROVE  /\ Numbered(table \cup {row})
         /\ Cardinality(table \cup {row}) = Cardinality(table) + 1
<1>1. IsFiniteSet(table) /\ Cardinality(table) \in Nat
  BY FS_CardinalityType DEF Numbered
<1>2. row \notin table
  BY <1>1 DEF Numbered
<1>3. /\ IsFiniteSet(table \cup {row})
      /\ Cardinality(table \cup {row}) = Cardinality(table) + 1
  BY <1>1, <1>2, FS_AddElement
<1>4. \A r \in table \cup {row} : r.sequence \in 1..(Cardinality(table) + 1)
  BY <1>1 DEF Numbered
<1>5. ASSUME NEW n \in 1..(Cardinality(table) + 1)
      PROVE  \E r \in table \cup {row} : r.sequence = n
  <2>1. CASE n = Cardinality(table) + 1
    BY <2>1
  <2>2. CASE n \in 1..Cardinality(table)
    BY <2>2 DEF Numbered
  <2> QED BY <1>1, <2>1, <2>2
<1> QED BY <1>3, <1>4, <1>5 DEF Numbered

\* The row SELECT returned has the largest number, which is how many rows
\* there are.
LEMMA LatestIsCount ==
  ASSUME NEW table, Numbered(table), NEW m \in table,
         \A q \in table : q.sequence <= m.sequence
  PROVE  m.sequence = Cardinality(table)
<1>1. Cardinality(table) \in Nat /\ m.sequence \in 1..Cardinality(table)
  BY FS_CardinalityType DEF Numbered
<1>2. PICK q \in table : q.sequence = Cardinality(table)
  BY <1>1 DEF Numbered
<1> QED BY <1>1, <1>2

LEMMA InitLInv == Init => LInv
<1> SUFFICES ASSUME Init PROVE LInv
  OBVIOUS
<1>1. \A t \in Transaction : Visible(t) = {} /\ pending[t] = {} /\ appended[t] = 0
  BY DEF Init, Visible
<1>2. \A t \in Transaction : InOrder(t)
  BY <1>1, FS_EmptySet DEF Init, InOrder
<1> QED BY <1>1, <1>2, NumberedEmpty DEF Init, LInv

\* A step that changes neither the rows nor the appends of anybody, and ends
\* no transaction's part in the order, keeps LInv.
LEMMA QuietLInv ==
  ASSUME TypeOK, LInv, UNCHANGED <<rows, pending, appended>>,
         \A u \in Transaction : ~Ended(u)' => ~Ended(u),
         \A u \in Transaction : pc[u] = "committed" => pc'[u] = "committed",
         \A u \in Transaction : pc'[u] \in {"idle", "open"} => pc[u] \in {"idle", "open"},
         \A u \in Transaction :
           pc'[u] = "selected" => last'[u].sequence = Cardinality(Visible(u))
  PROVE  LInv'
<1>1. \A u \in Transaction : Visible(u)' = Visible(u)
  BY DEF Visible
<1>2. \A r \in rows : r.id[1] \in Transaction
  BY DEF TypeOK, Row, EventId
<1>3. ASSUME NEW u \in Transaction, ~Ended(u)' PROVE InOrder(u)'
  BY <1>1, <1>3 DEF LInv, InOrder, IsEvent
<1> QED BY <1>1, <1>2, <1>3 DEF LInv, Numbered

LEMMA StepLInv == IInv /\ LInv /\ [Next]_vars => LInv'
<1> SUFFICES ASSUME IInv, LInv, [Next]_vars PROVE LInv'
  OBVIOUS
<1> USE DEF Ended
<1>0. TypeOK
  BY DEF IInv
<1>1. ASSUME NEW t \in Transaction, BeginTransaction(t) PROVE LInv'
  BY <1>0, <1>1, QuietLInv DEF BeginTransaction, TypeOK, LInv
<1>2. ASSUME NEW t \in Transaction, LockAuditTable(t) PROVE LInv'
  BY <1>0, <1>2, QuietLInv DEF LockAuditTable, TypeOK, LInv
<1>3. ASSUME NEW t \in Transaction, SelectLast(t) PROVE LInv'
  <2>1. last'[t].sequence = Cardinality(Visible(t))
    <3>1. Numbered(Visible(t))
      BY DEF LInv
    <3>2. CASE Visible(t) = {} /\ last' = [last EXCEPT ![t] = NoRow]
      BY <1>0, <3>2, FS_EmptySet DEF TypeOK, NoRow
    <3>3. ASSUME NEW r \in Visible(t),
                 \A q \in Visible(t) : q.sequence <= r.sequence,
                 last' = [last EXCEPT ![t] = [id |-> r.id, sequence |-> r.sequence]]
          PROVE  last'[t].sequence = Cardinality(Visible(t))
      BY <1>0, <3>1, <3>3, LatestIsCount DEF TypeOK
    <3> QED BY <1>3, <3>2, <3>3 DEF SelectLast
  <2>2. ASSUME NEW u \in Transaction, pc'[u] = "selected"
        PROVE  last'[u].sequence = Cardinality(Visible(u))
    <3>1. CASE u = t
      BY <2>1, <3>1
    <3>2. CASE u # t
      <4>1. last'[u] = last[u] /\ pc'[u] = pc[u]
        BY <1>0, <1>3, <3>2 DEF SelectLast, TypeOK
      <4> QED BY <2>2, <4>1 DEF LInv
    <3> QED BY <3>1, <3>2
  <2>3. /\ UNCHANGED <<rows, pending, appended>>
        /\ pc[t] = "locked" /\ pc' = [pc EXCEPT ![t] = "selected"]
    BY <1>3 DEF SelectLast
  <2>4. \A u \in Transaction : pc'[u] = pc[u] \/ (pc'[u] = "selected" /\ pc[u] = "locked")
    BY <1>0, <2>3 DEF TypeOK
  <2> QED BY <1>0, <2>2, <2>3, <2>4, QuietLInv
<1>4. ASSUME NEW t \in Transaction, InsertEvent(t) PROVE LInv'
  <2> USE <1>0, <1>4 DEF InsertEvent
  <2> DEFINE row == NextRow(t)
             n == appended[t]
  <2>1. /\ n \in Nat /\ appended'[t] = n + 1
        /\ \A u \in Transaction \ {t} : /\ appended'[u] = appended[u]
                                        /\ pending'[u] = pending[u]
                                        /\ pc'[u] = pc[u]
                                        /\ Visible(u)' = Visible(u)
        /\ pending'[t] = pending[t] \cup {row}
        /\ Visible(t)' = Visible(t) \cup {row}
        /\ pc[t] = "selected" /\ pc'[t] = "locked"
        /\ rows' = rows
    BY MaxEventsAssumption DEF TypeOK, Visible
  <2>2. Numbered(Visible(t)) /\ InOrder(t)
    BY <2>1 DEF LInv
  <2>3. Cardinality(rows) \in Nat /\ Cardinality(Visible(t)) = Cardinality(rows) + n
    BY <2>2, FS_CardinalityType DEF InOrder, LInv, Numbered
  <2>4. row.id = <<t, n + 1>> /\ row.sequence = Cardinality(Visible(t)) + 1
    BY <2>1 DEF NextRow, LInv
  <2>5. /\ Numbered(Visible(t) \cup {row})
        /\ Cardinality(Visible(t) \cup {row}) = Cardinality(rows) + n + 1
    <3> HIDE DEF row
    <3> QED BY <2>2, <2>3, <2>4, NumberedExtended
  <2>6. InOrder(t)'
    <3>1. IsEvent(row, t, n + 1)
      BY <2>1, <2>3, <2>4 DEF IsEvent
    <3>2. \A r \in pending'[t] : \E k \in 1..(n + 1) : IsEvent(r, t, k)
      BY <2>1, <2>2, <3>1 DEF InOrder
    <3>3. \A k \in 1..(n + 1) : \E r \in pending'[t] : IsEvent(r, t, k)
      BY <2>1, <2>2, <3>1 DEF InOrder
    <3> HIDE DEF row
    <3> QED BY <2>1, <2>3, <2>5, <3>2, <3>3 DEF InOrder, IsEvent
  <2>7. \A u \in Transaction \ {t} : ~Ended(u)' => InOrder(u)'
    BY <2>1 DEF LInv, InOrder, IsEvent
  <2>8. \A u \in Transaction : Numbered(Visible(u))'
    <3> TAKE u \in Transaction
    <3>1. CASE u = t
      <4> HIDE DEF row
      <4> QED BY <2>1, <2>5, <3>1 DEF Numbered
    <3>2. CASE u # t
      <4>1. Numbered(Visible(u)) /\ Visible(u)' = Visible(u)
        BY <2>1, <3>2 DEF LInv
      <4> QED BY <4>1 DEF Numbered
    <3> QED BY <3>1, <3>2
  <2>9. \A r \in rows' : pc'[r.id[1]] = "committed"
    BY <2>1 DEF LInv, TypeOK, Row, EventId
  <2>10. \A u \in Transaction : /\ pc'[u] \in {"idle", "open"} => appended'[u] = 0
                                /\ pc'[u] # "selected"
    <3>1. \A u \in Transaction : pc[u] = "selected" => u = t
      BY <2>1 DEF IInv, LockOwners
    <3> QED BY <2>1, <3>1 DEF LInv
  <2>11. Numbered(rows)'
    BY <2>1 DEF LInv, Numbered
  <2> QED BY <2>6, <2>7, <2>8, <2>9, <2>10, <2>11 DEF LInv
<1>5. ASSUME NEW t \in Transaction, Commit(t) PROVE LInv'
  <2> USE <1>0, <1>5 DEF Commit
  <2>1. /\ rows' = Visible(t) /\ appended' = appended /\ last' = last
        /\ pending'[t] = {} /\ pc'[t] = "committed" /\ ~Ended(t)
        /\ \A u \in Transaction \ {t} : pending'[u] = pending[u] /\ pc'[u] = pc[u]
        /\ \A u \in Transaction : pc[u] = "committed" => pc'[u] = "committed"
        /\ Visible(t)' = Visible(t)
    BY DEF TypeOK, Visible
  <2>2. \A r \in rows' : pc'[r.id[1]] = "committed"
    <3>1. \A r \in rows : pc'[r.id[1]] = "committed"
      BY <2>1 DEF LInv, TypeOK, Row, EventId
    <3>2. \A r \in pending[t] : r.id[1] = t
      BY <2>1 DEF LInv, InOrder, IsEvent
    <3> QED BY <2>1, <3>1, <3>2 DEF Visible
  <2>3. ASSUME NEW u \in Transaction, u # t
        PROVE  \/ pending[u] = {}
               \/ rows' = rows
    BY <2>1, <2>3 DEF IInv, LockOwners, Visible
  <2>4. \A u \in Transaction : Visible(u)' = Visible(t) \/ Visible(u)' = Visible(u)
    BY <2>1, <2>3 DEF Visible
  <2>5. ASSUME NEW u \in Transaction, ~Ended(u)'
        PROVE  InOrder(u)'
    <3>1. u # t /\ ~Ended(u) /\ pending'[u] = pending[u] /\ InOrder(u)
      BY <2>1, <2>5 DEF LInv
    <3>2. CASE rows' = rows
      <4>1. Visible(u)' = Visible(u)
        BY <3>1, <3>2 DEF Visible
      <4>2. \A r, k : IsEvent(r, u, k)' <=> IsEvent(r, u, k)
        BY <3>2 DEF IsEvent
      <4> QED BY <2>1, <3>1, <3>2, <4>1, <4>2 DEF InOrder
    <3>3. CASE pending[u] = {} /\ rows' # rows
      <4>1. 1..appended[u] = {}
        BY <3>1, <3>3 DEF InOrder
      <4>2. appended[u] = 0
        BY <4>1 DEF TypeOK
      <4>3. Visible(u)' = rows' /\ Cardinality(rows') \in Nat
        BY <2>1, <3>1, <3>3, FS_CardinalityType DEF Visible, LInv, Numbered
      <4> QED BY <2>1, <3>1, <3>3, <4>2, <4>3 DEF InOrder
    <3> QED BY <2>3, <3>1, <3>2, <3>3
  <2>6. ASSUME NEW u \in Transaction, pc'[u] = "selected"
        PROVE  last'[u].sequence = Cardinality(Visible(u)')
    <3>1. u # t /\ pc[u] = "selected" /\ u \in LockOwners
      BY <2>1, <2>6 DEF LockOwners
    <3>2. pending[t] = {}
      BY <3>1 DEF IInv
    <3>3. Visible(u)' = Visible(u)
      BY <2>1, <3>1, <3>2 DEF Visible
    <3> QED BY <2>1, <3>1, <3>3 DEF LInv
  <2>7. Numbered(rows)' /\ \A u \in Transaction : Numbered(Visible(u))'
    <3>1. Numbered(Visible(t)) /\ \A u \in Transaction : Numbered(Visible(u))
      BY DEF LInv
    <3> HIDE DEF Commit
    <3> QED BY <2>1, <2>4, <3>1 DEF Numbered
  <2>8. \A u \in Transaction : pc'[u] \in {"idle", "open"} => appended'[u] = 0
    BY <2>1 DEF LInv
  <2> QED BY <2>2, <2>5, <2>6, <2>7, <2>8 DEF LInv
<1>6. ASSUME NEW t \in Transaction, Rollback(t) PROVE LInv'
  <2> USE <1>0, <1>6 DEF Rollback
  <2>1. /\ rows' = rows /\ appended' = appended /\ last' = last
        /\ pending'[t] = {} /\ pc'[t] = "aborted" /\ pc[t] # "committed"
        /\ \A u \in Transaction \ {t} : /\ pending'[u] = pending[u]
                                        /\ pc'[u] = pc[u]
                                        /\ Visible(u)' = Visible(u)
        /\ Visible(t)' = rows
    BY DEF TypeOK, Visible
  <2>2. \A r \in rows' : pc'[r.id[1]] = "committed"
    BY <2>1 DEF LInv, TypeOK, Row, EventId
  <2>3. \A u \in Transaction : ~Ended(u)' => InOrder(u)'
    BY <2>1 DEF LInv, InOrder, IsEvent
  <2>4. Numbered(rows)' /\ \A u \in Transaction : Numbered(Visible(u))'
    BY <2>1 DEF LInv, Numbered
  <2>5. \A u \in Transaction :
          /\ pc'[u] \in {"idle", "open"} => appended'[u] = 0
          /\ pc'[u] = "selected" => last'[u].sequence = Cardinality(Visible(u)')
    BY <2>1 DEF LInv
  <2> QED BY <2>2, <2>3, <2>4, <2>5 DEF LInv
<1>7. CASE UNCHANGED vars
  BY <1>0, <1>7, QuietLInv DEF vars, LInv
<1> QED BY <1>1, <1>2, <1>3, <1>4, <1>5, <1>6, <1>7 DEF Next, Step, Done
-----------------------------------------------------------------------------
\* The ledger read from a numbered chain lists the event of every row at the
\* row's number.
LEMMA LedgerEntries ==
  ASSUME NEW table \in SUBSET Row, Numbered(table), VerifyAuditChain(table)
  PROVE  /\ LedgerOf(table) \in Seq(EventId)
         /\ Cardinality(table) \in Nat /\ Len(LedgerOf(table)) = Cardinality(table)
         /\ \A r \in table : /\ r.sequence \in 1..Cardinality(table)
                             /\ LedgerOf(table)[r.sequence] = r.id
<1> DEFINE c == Cardinality(table)
           row(n) == CHOOSE r \in table : r.sequence = n
<1>1. c \in Nat
  BY FS_CardinalityType DEF Numbered
<1>2. \A n \in 1..c : row(n) \in table /\ row(n).sequence = n
  BY DEF Numbered
<1>3. \A r \in table : row(r.sequence) = r
  BY <1>2 DEF Numbered, VerifyAuditChain
<1>4. \A n \in 1..c : row(n).id \in EventId
  BY <1>2 DEF Row
<1>5. LedgerOf(table) = [n \in 1..c |-> row(n).id]
  BY DEF LedgerOf
<1> HIDE DEF row, c
<1>6. LedgerOf(table) \in Seq(EventId) /\ Len(LedgerOf(table)) = c
  BY <1>1, <1>4, <1>5
<1>7. \A r \in table : r.sequence \in 1..c /\ LedgerOf(table)[r.sequence] = r.id
  BY <1>3, <1>5 DEF Numbered, c
<1> QED BY <1>1, <1>6, <1>7 DEF c

\* A transaction that commits with events records them, all of them and in
\* their order, at the end of the ledger.
LEMMA CommitRecords ==
  ASSUME IInv, LInv, NEW t \in Transaction, Commit(t), appended[t] # 0
  PROVE  Ledger!Record(t, appended[t]) /\ appended[t] \in 1..MaxEvents
<1> DEFINE n == appended[t]
           old == LedgerOf(rows)
           new == LedgerOf(rows')
           own == [k \in 1..n |-> <<t, k>>]
           count == Cardinality(rows)
<1>1. /\ n \in Nat /\ n \in 1..MaxEvents
      /\ rows \in SUBSET Row /\ Visible(t) \in SUBSET Row
      /\ rows' = Visible(t)
      /\ pc[t] \in {"open", "locked"}
  BY MaxEventsAssumption DEF IInv, TypeOK, Visible, Commit
<1>2. /\ Numbered(rows) /\ VerifyAuditChain(rows)
      /\ Numbered(Visible(t)) /\ VerifyAuditChain(Visible(t))
      /\ InOrder(t)
  BY <1>1 DEF IInv, LInv, IntegrityVerified, Ended
<1>3. /\ old \in Seq(EventId) /\ count \in Nat /\ Len(old) = count
      /\ \A r \in rows : r.sequence \in 1..count /\ old[r.sequence] = r.id
  BY <1>1, <1>2, LedgerEntries
<1>4. /\ new \in Seq(EventId) /\ Len(new) = count + n
      /\ \A r \in rows \cup pending[t] : new[r.sequence] = r.id
  BY <1>1, <1>2, LedgerEntries DEF InOrder, Visible
<1>5. own \in Seq(EventId) /\ Len(own) = n
  BY <1>1, MaxEventsAssumption DEF EventId
<1> HIDE DEF old, new, own, count
<1>6. ASSUME NEW i \in 1..(count + n) PROVE new[i] = (old \o own)[i]
  <2>1. CASE i <= count
    <3>1. PICK r \in rows : r.sequence = i
      BY <1>2, <1>3, <2>1 DEF Numbered, count
    <3>2. new[i] = old[i]
      BY <1>3, <1>4, <3>1
    <3> QED BY <1>3, <1>5, <1>1, <2>1, <3>2, ConcatProperties
  <2>2. CASE i > count
    <3>1. i - count \in 1..n /\ i = count + (i - count)
      BY <1>1, <1>3, <2>2
    <3>2. PICK r \in pending[t] : r.id = <<t, i - count>> /\ r.sequence = count + (i - count)
      BY <1>2, <3>1 DEF InOrder, IsEvent, count
    <3>3. new[i] = <<t, i - count>>
      BY <1>4, <3>1, <3>2
    <3>4. own[i - count] = <<t, i - count>>
      BY <3>1 DEF own
    <3> QED BY <1>1, <1>3, <1>5, <2>2, <3>3, <3>4, ConcatProperties
  <2>3. i <= count \/ i > count
    BY <1>3
  <2> QED BY ONLY <2>1, <2>2, <2>3
<1>7. old \o own \in Seq(EventId) /\ Len(old \o own) = count + n
  <2>1. /\ old \o own \in Seq(EventId)
        /\ Len(old \o own) = Len(old) + Len(own)
    BY <1>3, <1>5, ConcatProperties
  <2> QED BY <1>3, <1>5, <2>1
<1>8. new = old \o own
  BY <1>4, <1>6, <1>7, SeqEqual
<1>9. \A i \in DOMAIN old : old[i][1] # t
  <2> SUFFICES ASSUME NEW i \in 1..count PROVE old[i][1] # t
    BY <1>3
  <2>1. PICK r \in rows : r.sequence = i
    BY <1>2 DEF Numbered, count
  <2>2. pc[r.id[1]] = "committed"
    BY DEF LInv
  <2> QED BY <1>1, <1>3, <2>1, <2>2
<1> QED BY <1>1, <1>8, <1>9 DEF Ledger!Record, Ledger!Contributed, old, new, own

(***************************************************************************)
(* The audit table implements the ledger: whatever transactions interleave,*)
(* fail or are lost, the trail only grows, by all the events of the        *)
(* transaction that commits, adjacent and in the order it appended them,   *)
(* and no transaction contributes twice.                                   *)
(***************************************************************************)
THEOREM AuditTrailImplementsLedger == Spec => ImplementsLedger
<1>1. Init => Ledger!LedgerInit
  <2> SUFFICES ASSUME Init PROVE LedgerOf(rows) = << >>
    BY DEF Ledger!LedgerInit
  <2>1. rows = {} /\ Numbered(rows) /\ VerifyAuditChain(rows)
    BY NumberedEmpty DEF Init, VerifyAuditChain
  <2>2. LedgerOf(rows) \in Seq(EventId) /\ Len(LedgerOf(rows)) = 0
    BY <2>1, LedgerEntries, FS_EmptySet
  <2> QED BY <2>2, EmptySeq
<1>2. IInv /\ LInv /\ [Next]_vars => [Ledger!LedgerNext]_(LedgerOf(rows))
  <2> SUFFICES ASSUME IInv, LInv, [Next]_vars
               PROVE  Ledger!LedgerNext \/ LedgerOf(rows') = LedgerOf(rows)
    OBVIOUS
  <2>1. ASSUME NEW t \in Transaction, Commit(t), appended[t] # 0
        PROVE  Ledger!LedgerNext
    BY <2>1, CommitRecords DEF Ledger!LedgerNext
  <2>2. ASSUME NEW t \in Transaction, Commit(t), appended[t] = 0
        PROVE  rows' = rows
    <3>1. pc[t] \in {"open", "locked"} /\ rows' = rows \cup pending[t]
      BY <2>2 DEF Commit
    <3>2. \A r \in pending[t] : \E k \in 1..0 : IsEvent(r, t, k)
      BY <2>2, <3>1 DEF LInv, InOrder, Ended
    <3> QED BY <3>1, <3>2
  <2>3. ASSUME NEW t \in Transaction,
               BeginTransaction(t) \/ LockAuditTable(t) \/ SelectLast(t)
                 \/ InsertEvent(t) \/ Rollback(t)
        PROVE  rows' = rows
    BY <2>3 DEF BeginTransaction, LockAuditTable, SelectLast, InsertEvent, Rollback
  <2>4. Done \/ UNCHANGED vars => rows' = rows
    BY DEF Done, vars
  <2> QED BY <2>1, <2>2, <2>3, <2>4 DEF Next, Step
<1>3. IInv /\ LInv /\ [Next]_vars => LInv'
  BY StepLInv
<1> QED BY <1>1, <1>2, <1>3, InitIInv, StepIInv, InitLInv, PTL
       DEF Spec, ImplementsLedger, Ledger!LedgerSpec
-----------------------------------------------------------------------------
(***************************************************************************)
(* The stored records of a ballot source, for every number of requests,    *)
(* workers and ticks.                                                      *)
(*                                                                         *)
(* The API has one load at a time, which begins when the cache has run     *)
(* out, and whoever runs as a worker has the lock.  From that, what a load *)
(* fetched is not older than what its own process stored, the worker's     *)
(* clocks are those of the receipt until it stored a snapshot, and         *)
(* evidence that passed the check of writePending is older than records    *)
(* accepted since.                                                         *)
(***************************************************************************)

\* What is on disk, or remembered, was captured in the past.
Dated ==
  /\ now \in Time
  /\ file \in Snapshot \cup {None} /\ (file # None => file.retrieved <= now)
  /\ sidecar \in Times /\ sidecar <= now
  /\ accepted \in Times /\ accepted <= now /\ (accepted > 0 => file # None /\ sidecar <= accepted)
  /\ run \in Times /\ run <= now

\* What p waits for was reported before records were accepted.
Older(p) ==
  /\ awaiting[p].receipt <= now
  /\ accepted > 0 => awaiting[p].receipt <= accepted

\* The cache of the API holds as long as the publisher is to be spared; it has
\* run out when a load begins.
Sparing ==
  /\ cached \in 0 .. MaxTime + Ttl + Retry /\ spared \in 0 .. MaxTime + Ttl + Retry
  /\ loading \in Request \cup {None}
  /\ spared <= now \/ (loading = None /\ spared <= cached)

\* What the load of j has fetched.  Records are not older than those its own
\* process stored; an empty export that nothing contradicted when it was
\* checked is not younger than records accepted since.
Captures(j) ==
  /\ job[j].captured <= now
  /\ job[j].at \in {"save", "check", "hold"} => job[j].captured \in Time
  /\ job[j].at = "save" /\ file # None /\ file.by = ProcessOf(j) => file.retrieved <= job[j].captured
  /\ job[j].at = "hold" /\ accepted > 0 => job[j].captured <= accepted

\* The API has one load at a time.
OneLoad(r) == job[r].at \in LoadSteps => loading = r

\* A running worker has the lock; its clocks are those of the receipt, but for
\* a pass that stored a snapshot and did not report yet.
Clocks(w) ==
  LET me == job[w] IN
  /\ IF me.at = "new" THEN me.last = None ELSE lock = w
  /\ me.at \in LoadSteps \cup {"begin", "collect", "inspect"} => me.run = run
  /\ me.at = "report" => run <= me.run /\ me.run <= now /\ (me.run > run => w \in saved)
  /\ me.at = "inspect" /\ me.outcome.imported => w \in saved
  /\ me.at \notin {"new", "unlock"} /\ me.last # None => me.last = run
  /\ me.at \in {"sleep", "stop"} => me.last # None

BallotInv ==
  /\ format \in Formats /\ lock \in Worker \cup {None} /\ saved \subseteq Worker
  /\ awaiting \in [Process -> Pending] /\ job \in [Job -> JobState]
  /\ Dated /\ Sparing
  /\ \A p \in Process : Older(p)
  /\ \A j \in Job : Captures(j)
  /\ \A r \in Request : OneLoad(r)
  /\ \A w \in Worker : Clocks(w)
-----------------------------------------------------------------------------
LEMMA BallotConstants ==
  /\ Ttl \in Nat \ {0} /\ Retry \in Nat \ {0} /\ MaxTime \in Nat \ {0} /\ ElectionDay \in Nat \ {0}
  /\ Formats \subseteq Format
  /\ Request \cap Worker = {} /\ Server \notin Worker /\ None \notin Request /\ None \notin Worker
  /\ None \notin Times /\ None \notin Snapshot
BY StateBallotsAssumption

\* The types of the values the model writes.
LEMMA BallotValues ==
  /\ NoJob \in JobState /\ NotPending \in Pending
  /\ Found \in Outcome /\ Imported \in Outcome /\ Nothing \in Outcome
  /\ \A found \in BOOLEAN : Failed(found) \in Outcome /\ ~Failed(found).imported
  /\ ~Found.imported /\ ~Nothing.imported
<1>1. Found \in Outcome /\ Nothing \in Outcome /\ Imported \in Outcome /\ ~Found.imported /\ ~Nothing.imported
  BY DEF Found, Nothing, Imported, Outcome
<1>2. \A found \in BOOLEAN : Failed(found) \in Outcome /\ ~Failed(found).imported
  BY DEF Failed, Outcome
<1>3. NotPending \in Pending
  BY BallotConstants DEF NotPending, Pending, Times
<1>4. NoJob \in JobState
  BY <1>1 DEF NoJob, JobState, Times
<1> QED
  BY <1>1, <1>2, <1>3, <1>4

\* Evidence is not relied on after the day before the election.
LEMMA PendingUntilIs ==
  ASSUME NEW t \in Times
  PROVE  PendingUntil(t) \in 0 .. ElectionDay /\ PendingUntil(t) \in 0 .. MaxTime + Ttl + Retry
BY BallotConstants DEF PendingUntil, Times, Time

LEMMA AwaitingIs ==
  ASSUME NEW t \in Times
  PROVE  Awaiting(t) \in Pending /\ Awaiting(t).receipt = t
BY PendingUntilIs DEF Awaiting, Pending

\* Who gets the answer of a load, and what becomes of the cache.
LEMMA AnswerIs ==
  ASSUME job \in [Job -> JobState], awaiting \in [Process -> Pending], NEW j \in Job,
         NEW outcome \in Outcome, NEW until, NEW evidence \in Pending,
         Answer(j, outcome, until, evidence)
  PROVE  /\ job' \in [Job -> JobState]
         /\ \A k \in Job : k # j => job'[k] = job[k] \/ job'[k] = NoJob
         /\ j \in Request => job'[j] = NoJob /\ loading' = None /\ cached' = until
         /\ j \in Worker => /\ loading' = loading /\ cached' = cached
                            /\ job'[j].at = "inspect" /\ job'[j].captured = 0
                            /\ job'[j].outcome = outcome
                            /\ job'[j].run = job[j].run /\ job'[j].last = job[j].last
         /\ awaiting' \in [Process -> Pending]
         /\ \A p \in Process : awaiting'[p] = evidence \/ awaiting'[p] = awaiting[p]
<1> DEFINE answered == [job[j] EXCEPT !.at = "inspect", !.outcome = outcome, !.stored = FALSE, !.captured = 0]
<1>1. NoJob \in JobState
  BY BallotValues
<1>2. /\ answered \in JobState /\ answered.at = "inspect" /\ answered.captured = 0
      /\ answered.outcome = outcome /\ answered.run = job[j].run /\ answered.last = job[j].last
  BY DEF JobState, PassSteps, Times
<1>3. job' = [k \in Job |-> IF k = j /\ j \in Worker THEN answered
                            ELSE IF k = j \/ (j \in Request /\ job[k].at = "wait") THEN NoJob
                            ELSE job[k]]
  BY DEF Answer
<1> HIDE DEF answered
<1>4. job' \in [Job -> JobState]
  BY <1>1, <1>2, <1>3
<1>5. \A k \in Job : k # j => job'[k] = job[k] \/ job'[k] = NoJob
  BY <1>3
<1>6. j \in Worker => job'[j] = answered
  BY <1>3
<1>7. j \in Request => job'[j] = NoJob
  BY <1>3, BallotConstants
<1>8. /\ j \in Request => loading' = None /\ cached' = until
      /\ j \in Worker => loading' = loading /\ cached' = cached
  BY BallotConstants DEF Answer
<1>9. /\ awaiting' \in [Process -> Pending]
      /\ \A p \in Process : awaiting'[p] = evidence \/ awaiting'[p] = awaiting[p]
  BY DEF Answer
<1> QED
  BY <1>2, <1>4, <1>5, <1>6, <1>7, <1>8, <1>9

\* A step to another place in the program.
LEMMA GotoIs ==
  ASSUME job \in [Job -> JobState], NEW j \in Job,
         NEW step \in {"new", "archive", "wait"} \cup LoadSteps \cup PassSteps, Goto(j, step)
  PROVE  /\ job' \in [Job -> JobState] /\ \A k \in Job : k # j => job'[k] = job[k]
         /\ job'[j].at = step /\ job'[j].captured = job[j].captured /\ job'[j].outcome = job[j].outcome
         /\ job'[j].run = job[j].run /\ job'[j].last = job[j].last /\ job'[j].watch = job[j].watch
<1>1. job' = [job EXCEPT ![j] = [job[j] EXCEPT !.at = step]]
  BY DEF Goto
<1>2. [job[j] EXCEPT !.at = step] \in JobState
  BY DEF JobState
<1> QED
  BY <1>1, <1>2 DEF JobState

LEMMA EndIs ==
  ASSUME job \in [Job -> JobState], NEW j \in Job, End(j)
  PROVE  /\ job' \in [Job -> JobState] /\ job'[j] = NoJob
         /\ \A k \in Job : k # j => job'[k] = job[k]
BY BallotValues DEF End

LEMMA BallotInitIs ==
  ASSUME BallotInit
  PROVE  BallotInv
<1>1. NoJob \in JobState /\ NotPending \in Pending
  BY BallotValues
<1>2. now \in Time /\ now = 1
  BY BallotConstants DEF BallotInit, Time
<1>3. Dated
  BY <1>2 DEF BallotInit, Dated, Times
<1>4. Sparing
  BY <1>2, BallotConstants DEF BallotInit, Sparing
<1>5. awaiting \in [Process -> Pending] /\ \A p \in Process : Older(p)
  BY <1>1, <1>2 DEF BallotInit, Older, NotPending
<1>6. job \in [Job -> JobState] /\ \A j \in Job : job[j] = NoJob
  BY <1>1 DEF BallotInit
<1>7. \A j \in Job : Captures(j)
  BY <1>2, <1>6 DEF Captures, NoJob
<1>8. \A r \in Request : OneLoad(r)
  BY <1>6 DEF OneLoad, NoJob, LoadSteps, Job
<1>9. \A w \in Worker : Clocks(w)
  BY <1>6 DEF Clocks, NoJob, LoadSteps, Job
<1> QED
  BY <1>3, <1>4, <1>5, <1>6, <1>7, <1>8, <1>9 DEF BallotInv, BallotInit
-----------------------------------------------------------------------------
\* The bystanders of a step: who did nothing, or was answered.
Bystander(k) == job'[k] = job[k] \/ job'[k] = NoJob

LEMMA CapturesKept ==
  ASSUME BallotInv, NEW k \in Job, Bystander(k), now' = now,
         file' = file \/ (job[k].at = "save" => file'.by # ProcessOf(k)),
         accepted' = accepted \/ (accepted = 0 /\ accepted' = now)
  PROVE  Captures(k)'
<1>1. Captures(k) /\ now \in Time
  BY DEF BallotInv, Dated
<1>2. CASE job'[k] = NoJob
  BY <1>1, <1>2 DEF Captures, NoJob, Time
<1>3. CASE job'[k] = job[k]
  <2>1. job'[k].captured <= now'
    BY <1>1, <1>3 DEF Captures
  <2>2. job'[k].at \in {"save", "check", "hold"} => job'[k].captured \in Time
    BY <1>1, <1>3 DEF Captures
  <2>3. job'[k].at = "save" /\ file' # None /\ file'.by = ProcessOf(k) => file'.retrieved <= job'[k].captured
    BY <1>1, <1>3 DEF Captures
  <2>4. job'[k].at = "hold" /\ accepted' > 0 => job'[k].captured <= accepted'
    BY <1>1, <1>3 DEF Captures
  <2> QED
    BY <2>1, <2>2, <2>3, <2>4 DEF Captures, ProcessOf
<1> QED
  BY <1>2, <1>3 DEF Bystander

LEMMA OneLoadKept ==
  ASSUME BallotInv, NEW k \in Request, Bystander(k), job[k].at \in LoadSteps => loading' = loading
  PROVE  OneLoad(k)'
<1>1. OneLoad(k)
  BY DEF BallotInv
<1> QED
  BY <1>1 DEF OneLoad, Bystander, NoJob, LoadSteps

LEMMA ClocksKept ==
  ASSUME BallotInv, NEW k \in Worker, Bystander(k),
         now' = now, run' = run, lock' = lock, saved \subseteq saved'
  PROVE  Clocks(k)'
<1>1. Clocks(k)
  BY DEF BallotInv
<1>2. CASE job'[k] = NoJob
  BY <1>2 DEF Clocks, NoJob, LoadSteps
<1>3. CASE job'[k] = job[k]
  BY <1>1, <1>3 DEF Clocks
<1> QED
  BY <1>2, <1>3 DEF Bystander
-----------------------------------------------------------------------------
\* A load goes on to its next step, and nothing else changes.
LEMMA LoadGoesOn ==
  ASSUME BallotInv, NEW j \in Job, job[j].at \in LoadSteps,
         UNCHANGED <<now, format, disk, memory, loading, history>>,
         job' \in [Job -> JobState], \A k \in Job : k # j => job'[k] = job[k],
         job'[j].at \in LoadSteps, job'[j].run = job[j].run, job'[j].last = job[j].last,
         Captures(j)'
  PROVE  BallotInv'
<1>1. UNCHANGED <<now, format, file, sidecar, run, lock, cached, awaiting, loading, accepted, saved, spared>>
  BY DEF disk, memory, history
<1>2. /\ format' \in Formats /\ lock' \in Worker \cup {None} /\ saved' \subseteq Worker
      /\ awaiting' \in [Process -> Pending]
  BY <1>1 DEF BallotInv
<1>3. Dated' /\ Sparing'
  BY <1>1 DEF BallotInv, Dated, Sparing
<1>4. \A p \in Process : Older(p)'
  BY <1>1 DEF BallotInv, Older
<1>5. \A k \in Job : k # j => Bystander(k)
  BY DEF Bystander
<1>6. \A k \in Job : Captures(k)'
  BY <1>1, <1>5, CapturesKept
<1>7. ASSUME NEW r \in Request PROVE OneLoad(r)'
  <2>1. CASE r = j
    BY <1>1, <2>1 DEF BallotInv, OneLoad
  <2>2. CASE r # j
    BY <1>1, <1>5, <2>2, OneLoadKept DEF Job
  <2> QED
    BY <2>1, <2>2
<1>8. ASSUME NEW w \in Worker PROVE Clocks(w)'
  <2>1. CASE w = j
    <3>1. Clocks(w)
      BY DEF BallotInv
    <3> QED
      BY <1>1, <2>1, <3>1 DEF Clocks, LoadSteps
  <2>2. CASE w # j
    BY <1>1, <1>5, <2>2, ClocksKept DEF Job
  <2> QED
    BY <2>1, <2>2
<1> QED
  BY <1>2, <1>3, <1>4, <1>6, <1>7, <1>8 DEF BallotInv

\* A load ends: with what is on disk, which it may have replaced, and with what
\* its process then waits for.
LEMMA LoadEnds ==
  ASSUME BallotInv, NEW j \in Job, job[j].at \in LoadSteps,
         NEW outcome \in Outcome, NEW until, NEW evidence \in Pending,
         Answer(j, outcome, until, evidence), until \in 0 .. MaxTime + Ttl + Retry,
         evidence.receipt <= now, accepted' > 0 => evidence.receipt <= accepted',
         UNCHANGED <<now, format, run, lock>>, Dated',
         \/ file' = file /\ accepted' = accepted
         \/ /\ job[j].at = "save" /\ file'.by = ProcessOf(j)
            /\ accepted' = (IF accepted = 0 THEN now ELSE accepted),
         saved \subseteq saved', saved' \subseteq Worker, outcome.imported /\ j \in Worker => j \in saved',
         spared' = spared \/ (j \in Request /\ spared' = until)
  PROVE  BallotInv'
<1> USE DEF BallotInv
<1>1. /\ job' \in [Job -> JobState]
      /\ \A k \in Job : k # j => Bystander(k)
      /\ j \in Request => job'[j] = NoJob /\ loading' = None /\ cached' = until
      /\ j \in Worker => /\ loading' = loading /\ cached' = cached
                         /\ job'[j].at = "inspect" /\ job'[j].captured = 0
                         /\ job'[j].outcome = outcome
                         /\ job'[j].run = job[j].run /\ job'[j].last = job[j].last
      /\ awaiting' \in [Process -> Pending]
      /\ \A p \in Process : awaiting'[p] = evidence \/ awaiting'[p] = awaiting[p]
  BY AnswerIs DEF Bystander
<1>2. j \in Request => loading = j /\ spared <= now
  <2>1. j \in Request => OneLoad(j)
    OBVIOUS
  <2> QED
    BY <2>1, BallotConstants DEF OneLoad, Sparing
<1>3. \A k \in Request : job[k].at \in LoadSteps => loading = k
  BY DEF OneLoad
<1>4. Sparing'
  <2>1. CASE j \in Request
    BY <1>1, <1>2, <2>1, BallotConstants DEF Sparing, Dated
  <2>2. CASE j \in Worker
    BY <1>1, <2>2, BallotConstants DEF Sparing
  <2> QED
    BY <2>1, <2>2 DEF Job
<1>5. accepted' = accepted \/ (accepted = 0 /\ accepted' = now)
  OBVIOUS
<1>6. ASSUME NEW p \in Process PROVE Older(p)'
  <2>1. Older(p)
    OBVIOUS
  <2>2. awaiting'[p] = evidence => Older(p)'
    BY DEF Older
  <2>3. awaiting'[p] = awaiting[p] => Older(p)'
    BY <1>5, <2>1 DEF Older
  <2> QED
    BY <1>1, <2>2, <2>3
<1>7. ASSUME NEW k \in Job PROVE Captures(k)'
  <2>1. CASE k = j
    <3>1. job'[k].captured = 0 /\ job'[k].at \in {"new", "inspect"}
      BY <1>1, <2>1 DEF Job, NoJob
    <3>2. now' \in Time
      BY DEF Dated
    <3> QED
      BY <3>1, <3>2 DEF Captures, Time
  <2>2. CASE k # j
    <3>1. Bystander(k)
      BY <1>1, <2>2
    <3>2. file' = file \/ (job[k].at = "save" => file'.by # ProcessOf(k))
      <4>1. ASSUME job[j].at = "save", job[k].at = "save" PROVE ProcessOf(j) # ProcessOf(k)
        BY <1>3, <2>2, <4>1, BallotConstants DEF ProcessOf, Job, LoadSteps
      <4> QED
        BY <4>1
    <3> QED
      BY <1>5, <3>1, <3>2, CapturesKept
  <2> QED
    BY <2>1, <2>2
<1>8. ASSUME NEW r \in Request PROVE OneLoad(r)'
  <2>1. CASE r = j
    BY <1>1, <2>1 DEF OneLoad, NoJob, LoadSteps
  <2>2. CASE r # j
    <3>1. job[r].at \in LoadSteps => loading' = loading
      BY <1>1, <1>2, <1>3, <2>2 DEF Job
    <3> QED
      BY <1>1, <2>2, <3>1, OneLoadKept DEF Job
  <2> QED
    BY <2>1, <2>2
<1>9. ASSUME NEW w \in Worker PROVE Clocks(w)'
  <2>1. CASE w = j
    <3>1. Clocks(w)
      OBVIOUS
    <3> QED
      BY <1>1, <2>1, <3>1 DEF Clocks, LoadSteps
  <2>2. CASE w # j
    BY <1>1, <2>2, ClocksKept DEF Job
  <2> QED
    BY <2>1, <2>2
<1> QED
  BY <1>1, <1>4, <1>6, <1>7, <1>8, <1>9

\* A load that stored nothing ends.
LEMMA LoadEndsQuietly ==
  ASSUME BallotInv, NEW j \in Job, job[j].at \in LoadSteps,
         NEW outcome \in Outcome, NEW until, NEW evidence \in Pending,
         Answer(j, outcome, until, evidence), until \in 0 .. MaxTime + Ttl + Retry,
         evidence.receipt <= now, accepted > 0 => evidence.receipt <= accepted,
         UNCHANGED <<now, format, disk, accepted, saved>>, ~outcome.imported,
         spared' = spared \/ (j \in Request /\ spared' = until)
  PROVE  BallotInv'
<1>1. UNCHANGED <<now, format, file, sidecar, run, lock, accepted, saved>>
  BY DEF disk
<1>2. Dated'
  BY <1>1 DEF BallotInv, Dated
<1>3. saved \subseteq saved' /\ saved' \subseteq Worker
  BY <1>1 DEF BallotInv
<1>4. file' = file /\ accepted' = accepted
  BY <1>1
<1>5. accepted' > 0 => evidence.receipt <= accepted'
  BY <1>1
<1> QED
  BY <1>1, <1>2, <1>3, <1>4, <1>5, LoadEnds
-----------------------------------------------------------------------------
\* The evidence that may be remembered, and until when the cache then holds.
LEMMA EvidenceIs ==
  ASSUME BallotInv, NEW j \in Job
  PROVE  /\ Evidence(j) \in Pending /\ Evidence(j).receipt <= now
         /\ accepted > 0 => Evidence(j).receipt <= accepted
         /\ NotPending \in Pending /\ NotPending.receipt <= now
         /\ accepted > 0 => NotPending.receipt <= accepted
         /\ cached \in 0 .. MaxTime + Ttl + Retry
         /\ now + Ttl \in 0 .. MaxTime + Ttl + Retry /\ now + Retry \in 0 .. MaxTime + Ttl + Retry
<1>1. ProcessOf(j) \in Process
  BY DEF ProcessOf, Process, Job
<1>2. awaiting[ProcessOf(j)] \in Pending /\ Older(ProcessOf(j))
  BY <1>1 DEF BallotInv
<1>3. now \in 1 .. MaxTime /\ accepted \in 0 .. MaxTime
  BY BallotConstants DEF BallotInv, Dated, Times, Time
<1>4. NotPending \in Pending
  BY BallotValues
<1>5. NotPending.receipt = 0
  BY DEF NotPending
<1>6. cached \in 0 .. MaxTime + Ttl + Retry
  BY DEF BallotInv, Sparing
<1>7. now + Ttl \in 0 .. MaxTime + Ttl + Retry /\ now + Retry \in 0 .. MaxTime + Ttl + Retry
  BY <1>3, BallotConstants
<1> QED
  BY <1>2, <1>3, <1>4, <1>5, <1>6, <1>7 DEF Evidence, Older

LEMMA UnavailableKeeps ==
  ASSUME BallotInv, NEW j \in Job, job[j].at \in LoadSteps, Unavailable(j),
         UNCHANGED <<now, format, disk, accepted, saved>>,
         spared' = spared \/ (j \in Request /\ spared' = now + Retry)
  PROVE  BallotInv'
<1>1. Failed(FALSE) \in Outcome /\ ~Failed(FALSE).imported
  BY BallotValues
<1>2. Answer(j, Failed(FALSE), now + Retry, NotPending)
  BY DEF Unavailable
<1> QED
  BY <1>1, <1>2, EvidenceIs, LoadEndsQuietly

LEMMA PendingFailsKeeps ==
  ASSUME BallotInv, NEW j \in Job, job[j].at \in LoadSteps, PendingFails(j),
         UNCHANGED <<now, format, disk, history>>
  PROVE  BallotInv'
<1>1. Failed(FALSE) \in Outcome /\ ~Failed(FALSE).imported
  BY BallotValues
<1>2. Answer(j, Failed(FALSE), cached, Evidence(j))
  BY DEF PendingFails
<1>3. UNCHANGED <<now, format, disk, accepted, saved>> /\ spared' = spared
  BY DEF history
<1> QED
  BY <1>1, <1>2, <1>3, EvidenceIs, LoadEndsQuietly

LEMMA ReadKeeps ==
  ASSUME BallotInv, NEW j \in Job, Read(j)
  PROVE  BallotInv'
<1>1. /\ job[j].at = "read" /\ job[j].at \in LoadSteps /\ job \in [Job -> JobState]
      /\ UNCHANGED <<now, format, disk, history>> /\ Captures(j)
  BY DEF Read, LoadSteps, BallotInv
<1>2. UNCHANGED <<now, format, disk, accepted, saved>> /\ spared' = spared
  BY <1>1 DEF history
<1>3. Found \in Outcome /\ ~Found.imported
  BY BallotValues
<1>4. CASE Goto(j, "receipt") /\ UNCHANGED <<memory, loading>>
  <2>1. /\ job' \in [Job -> JobState] /\ \A k \in Job : k # j => job'[k] = job[k]
        /\ job'[j].at = "receipt" /\ job'[j].captured = job[j].captured
        /\ job'[j].run = job[j].run /\ job'[j].last = job[j].last
    BY <1>1, <1>4, GotoIs DEF LoadSteps
  <2>2. Captures(j)'
    BY <1>1, <2>1 DEF Captures
  <2>3. UNCHANGED <<now, format, disk, memory, loading, history>>
    BY <1>1, <1>4
  <2>4. job'[j].at \in LoadSteps
    BY <2>1 DEF LoadSteps
  <2> QED
    BY <1>1, <2>1, <2>2, <2>3, <2>4, LoadGoesOn
<1>5. CASE Answer(j, Found, cached, NotPending)
  BY <1>1, <1>2, <1>3, <1>5, EvidenceIs, LoadEndsQuietly
<1>6. CASE file # None /\ Answer(j, Found, file.retrieved + Ttl, Evidence(j))
  <2>1. file.retrieved + Ttl \in 0 .. MaxTime + Ttl + Retry
    <3>1. file.retrieved \in 1 .. MaxTime
      BY <1>6 DEF BallotInv, Dated, Snapshot, Time
    <3> QED
      BY <3>1, BallotConstants
  <2> QED
    BY <1>1, <1>2, <1>3, <1>6, <2>1, EvidenceIs, LoadEndsQuietly
<1>7. CASE job' = [job EXCEPT ![j].at = "fetch", ![j].stored = TRUE] /\ UNCHANGED <<memory, loading>>
  <2>1. /\ job' \in [Job -> JobState] /\ \A k \in Job : k # j => job'[k] = job[k]
        /\ job'[j].at = "fetch" /\ job'[j].captured = job[j].captured
        /\ job'[j].run = job[j].run /\ job'[j].last = job[j].last
    BY <1>1, <1>7 DEF JobState, LoadSteps
  <2>2. Captures(j)'
    BY <1>1, <2>1 DEF Captures
  <2>3. UNCHANGED <<now, format, disk, memory, loading, history>>
    BY <1>1, <1>7
  <2>4. job'[j].at \in LoadSteps
    BY <2>1 DEF LoadSteps
  <2> QED
    BY <1>1, <2>1, <2>2, <2>3, <2>4, LoadGoesOn
<1> QED
  BY <1>4, <1>5, <1>6, <1>7 DEF Read

LEMMA ReadReceiptKeeps ==
  ASSUME BallotInv, NEW j \in Job, ReadReceipt(j)
  PROVE  BallotInv'
<1>1. /\ job[j].at = "receipt" /\ job[j].at \in LoadSteps /\ job \in [Job -> JobState]
      /\ UNCHANGED <<now, format, disk, history>> /\ Captures(j)
  BY DEF ReadReceipt, LoadSteps, BallotInv
<1>2. UNCHANGED <<now, format, disk, accepted, saved>> /\ spared' = spared
  BY <1>1 DEF history
<1>3. Nothing \in Outcome /\ ~Nothing.imported
  BY BallotValues
<1>4. sidecar \in Times /\ sidecar <= now /\ (accepted > 0 => sidecar <= accepted)
  BY DEF BallotInv, Dated
<1>5. Awaiting(sidecar) \in Pending /\ Awaiting(sidecar).receipt = sidecar
  BY <1>4, AwaitingIs
<1>6. Awaiting(sidecar).receipt <= now /\ (accepted > 0 => Awaiting(sidecar).receipt <= accepted)
  BY <1>4, <1>5
<1>7. CASE Answer(j, Nothing, cached, Awaiting(sidecar))
  BY <1>1, <1>2, <1>3, <1>5, <1>6, <1>7, EvidenceIs, LoadEndsQuietly
<1>8. CASE Answer(j, Nothing, cached, Evidence(j))
  BY <1>1, <1>2, <1>3, <1>8, EvidenceIs, LoadEndsQuietly
<1>9. CASE Remember(j, sidecar)
  <2>1. Answer(j, Nothing, PendingUntil(sidecar), Awaiting(sidecar))
    BY <1>9 DEF Remember
  <2>2. PendingUntil(sidecar) \in 0 .. MaxTime + Ttl + Retry
    BY <1>4, PendingUntilIs
  <2> QED
    BY <1>1, <1>2, <1>3, <1>5, <1>6, <2>1, <2>2, LoadEndsQuietly
<1>10. CASE Goto(j, "fetch") /\ UNCHANGED <<memory, loading>>
  <2>1. /\ job' \in [Job -> JobState] /\ \A k \in Job : k # j => job'[k] = job[k]
        /\ job'[j].at = "fetch" /\ job'[j].captured = job[j].captured
        /\ job'[j].run = job[j].run /\ job'[j].last = job[j].last
    BY <1>1, <1>10, GotoIs DEF LoadSteps
  <2>2. Captures(j)'
    BY <1>1, <2>1 DEF Captures
  <2>3. UNCHANGED <<now, format, disk, memory, loading, history>>
    BY <1>1, <1>10
  <2>4. job'[j].at \in LoadSteps
    BY <2>1 DEF LoadSteps
  <2> QED
    BY <1>1, <2>1, <2>2, <2>3, <2>4, LoadGoesOn
<1> QED
  BY <1>7, <1>8, <1>9, <1>10 DEF ReadReceipt

LEMMA FetchKeeps ==
  ASSUME BallotInv, NEW j \in Job, Fetch(j)
  PROVE  BallotInv'
<1>1. job[j].at = "fetch" /\ UNCHANGED <<now, format, disk, memory, loading, history>>
  BY DEF Fetch
<1>2. job[j].at \in LoadSteps /\ job \in [Job -> JobState]
  BY <1>1 DEF LoadSteps, BallotInv
<1>3. now \in Time /\ (file # None => file.retrieved <= now)
  BY DEF BallotInv, Dated
<1>4. PICK step \in {"save", "check"} : job' = [job EXCEPT ![j].at = step, ![j].captured = now]
  BY DEF Fetch
<1>5. /\ job' \in [Job -> JobState] /\ \A k \in Job : k # j => job'[k] = job[k]
      /\ job'[j].at = step /\ job'[j].captured = now
      /\ job'[j].run = job[j].run /\ job'[j].last = job[j].last
  BY <1>2, <1>3, <1>4 DEF JobState, LoadSteps, Times
<1>6. now' = now /\ file' = file
  BY <1>1 DEF disk
<1>7. Captures(j)'
  BY <1>3, <1>5, <1>6 DEF Captures, Time
<1>8. job'[j].at \in LoadSteps
  BY <1>5 DEF LoadSteps
<1> QED
  BY <1>2, <1>1, <1>5, <1>7, <1>8, LoadGoesOn

LEMMA SaveKeeps ==
  ASSUME BallotInv, NEW j \in Job, Save(j)
  PROVE  BallotInv'
<1>1. /\ job[j].at = "save" /\ job[j].at \in LoadSteps
      /\ job[j].captured \in Time /\ job[j].captured <= now
      /\ now \in Time /\ sidecar \in Times /\ sidecar <= now /\ run \in Times /\ run <= now
      /\ accepted \in Times /\ accepted <= now /\ (accepted > 0 => sidecar <= accepted)
      /\ saved \subseteq Worker
  BY DEF Save, LoadSteps, BallotInv, Captures, Dated
<1>2. ProcessOf(j) \in Process
  BY DEF ProcessOf, Process, Job
<1>3. /\ file' = [retrieved |-> job[j].captured, by |-> ProcessOf(j)]
      /\ Answer(j, Imported, now + Ttl, NotPending)
      /\ spared' = (IF j \in Request THEN now + Ttl ELSE spared)
      /\ accepted' = (IF accepted = 0 THEN now ELSE accepted)
      /\ saved' = saved \cup ({j} \cap Worker)
      /\ UNCHANGED <<now, format, sidecar, run, lock>>
  BY DEF Save, Collected
<1>4. file' \in Snapshot /\ file' # None /\ file'.retrieved = job[j].captured /\ file'.by = ProcessOf(j)
  BY <1>1, <1>2, <1>3, BallotConstants DEF Snapshot
<1>5. accepted' \in Times /\ accepted' <= now /\ sidecar <= accepted'
  BY <1>1, <1>3 DEF Times, Time
<1>6. Dated'
  BY <1>1, <1>3, <1>4, <1>5 DEF Dated
<1>7. Imported \in Outcome
  BY BallotValues
<1>8. saved \subseteq saved' /\ saved' \subseteq Worker /\ (j \in Worker => j \in saved')
  BY <1>1, <1>3
<1>9. spared' = spared \/ (j \in Request /\ spared' = now + Ttl)
  BY <1>3
<1>10. /\ NotPending \in Pending /\ NotPending.receipt <= now /\ NotPending.receipt <= accepted'
       /\ now + Ttl \in 0 .. MaxTime + Ttl + Retry
  BY <1>5, EvidenceIs DEF NotPending, Times, Time
<1> QED
  BY <1>1, <1>3, <1>4, <1>6, <1>7, <1>8, <1>9, <1>10, LoadEnds

LEMMA FailToSaveKeeps ==
  ASSUME BallotInv, NEW j \in Job, FailToSave(j)
  PROVE  BallotInv'
<1>1. job[j].at \in LoadSteps /\ UNCHANGED <<now, format, disk, accepted, saved>>
  BY DEF FailToSave, LoadSteps
<1>2. job[j].stored \in BOOLEAN
  BY DEF BallotInv, JobState
<1>3. CASE Answer(j, Failed(job[j].stored), cached, Evidence(j)) /\ UNCHANGED spared
  <2>1. Failed(job[j].stored) \in Outcome /\ ~Failed(job[j].stored).imported
    BY <1>2, BallotValues
  <2> QED
    BY <1>1, <1>3, <2>1, EvidenceIs, LoadEndsQuietly
<1>4. CASE Collected(j, Failed(TRUE))
  <2>1. Failed(TRUE) \in Outcome /\ ~Failed(TRUE).imported
    BY BallotValues
  <2>2. /\ Answer(j, Failed(TRUE), now + Ttl, NotPending)
        /\ spared' = spared \/ (j \in Request /\ spared' = now + Ttl)
    BY <1>4 DEF Collected
  <2> QED
    BY <1>1, <2>1, <2>2, EvidenceIs, LoadEndsQuietly
<1> QED
  BY <1>3, <1>4 DEF FailToSave

LEMMA CheckKeeps ==
  ASSUME BallotInv, NEW j \in Job, Check(j)
  PROVE  BallotInv'
<1>1. /\ job[j].at = "check" /\ job[j].at \in LoadSteps /\ job \in [Job -> JobState]
      /\ UNCHANGED <<now, format, disk, history>> /\ Captures(j)
  BY DEF Check, LoadSteps, BallotInv
<1>2. CASE file # None
  <2>1. PendingFails(j)
    BY <1>2 DEF Check
  <2> QED
    BY <1>1, <2>1, PendingFailsKeeps
<1>3. CASE file = None
  <2>1. Goto(j, "hold") /\ UNCHANGED <<memory, loading>>
    BY <1>3 DEF Check
  <2>2. /\ job' \in [Job -> JobState] /\ \A k \in Job : k # j => job'[k] = job[k]
        /\ job'[j].at = "hold" /\ job'[j].captured = job[j].captured
        /\ job'[j].run = job[j].run /\ job'[j].last = job[j].last
    BY <1>1, <2>1, GotoIs DEF LoadSteps
  <2>3. ~(accepted' > 0)
    BY <1>1, <1>3 DEF BallotInv, Dated, history
  <2>4. Captures(j)'
    BY <1>1, <2>2, <2>3 DEF Captures
  <2>5. job'[j].at \in LoadSteps
    BY <2>2 DEF LoadSteps
  <2> QED
    BY <1>1, <2>1, <2>2, <2>4, <2>5, LoadGoesOn
<1> QED
  BY <1>2, <1>3

\* Records accepted since the export was checked are younger than it.
LEMMA HoldKeeps ==
  ASSUME BallotInv, NEW j \in Job, Hold(j)
  PROVE  BallotInv'
<1> DEFINE t == job[j].captured
<1>1. /\ job[j].at = "hold" /\ job[j].at \in LoadSteps
      /\ t \in Time /\ t \in Times /\ t <= now /\ (accepted > 0 => t <= accepted)
  BY DEF Hold, LoadSteps, BallotInv, Captures, Times
<1>2. /\ sidecar' = t
      /\ UNCHANGED <<now, format, file, run, lock, accepted, saved>> /\ spared' = spared
  BY DEF Hold, history
<1> HIDE DEF t
<1>3. Dated'
  BY <1>1, <1>2 DEF BallotInv, Dated
<1>4. saved \subseteq saved' /\ saved' \subseteq Worker
  BY <1>2 DEF BallotInv
<1>5. CASE Remember(j, t)
  <2>1. Answer(j, Nothing, PendingUntil(t), Awaiting(t))
    BY <1>5 DEF Remember
  <2>2. PendingUntil(t) \in 0 .. MaxTime + Ttl + Retry
    BY <1>1, PendingUntilIs
  <2>3. Awaiting(t) \in Pending /\ Awaiting(t).receipt = t
    BY <1>1, AwaitingIs
  <2>4. Nothing \in Outcome /\ ~Nothing.imported
    BY BallotValues
  <2>5. Awaiting(t).receipt <= now /\ (accepted' > 0 => Awaiting(t).receipt <= accepted')
    BY <1>1, <1>2, <2>3
  <2> QED
    BY <1>1, <1>2, <1>3, <1>4, <2>1, <2>2, <2>3, <2>4, <2>5, LoadEnds
<1>6. CASE Unavailable(j)
  <2>1. Answer(j, Failed(FALSE), now + Retry, NotPending)
    BY <1>6 DEF Unavailable
  <2>2. Failed(FALSE) \in Outcome /\ ~Failed(FALSE).imported
    BY BallotValues
  <2>3. /\ NotPending \in Pending /\ NotPending.receipt <= now
        /\ accepted' > 0 => NotPending.receipt <= accepted'
        /\ now + Retry \in 0 .. MaxTime + Ttl + Retry
    BY <1>2, EvidenceIs
  <2> QED
    BY <1>1, <1>2, <1>3, <1>4, <2>1, <2>2, <2>3, LoadEnds
<1> QED
  BY <1>5, <1>6 DEF Hold, t

LEMMA LoadKeeps ==
  ASSUME BallotInv, NEW j \in Job, Load(j)
  PROVE  BallotInv'
<1>1. CASE FailToRead(j)
  <2>1. job[j].at \in LoadSteps /\ Unavailable(j) /\ UNCHANGED <<now, format, disk, accepted, saved>> /\ spared' = spared
    BY <1>1 DEF FailToRead, LoadSteps, history
  <2> QED
    BY <2>1, UnavailableKeeps
<1>2. CASE FailToFetch(j)
  <2>1. /\ job[j].at \in LoadSteps /\ Unavailable(j) /\ UNCHANGED <<now, format, disk, accepted, saved>>
        /\ spared' = spared \/ (j \in Request /\ spared' = now + Retry)
    BY <1>2 DEF FailToFetch, LoadSteps
  <2> QED
    BY <2>1, UnavailableKeeps
<1>3. CASE FailToHold(j)
  <2>1. job[j].at \in LoadSteps /\ PendingFails(j) /\ UNCHANGED <<now, format, disk, history>>
    BY <1>3 DEF FailToHold, LoadSteps
  <2> QED
    BY <2>1, PendingFailsKeeps
<1> QED
  BY <1>1, <1>2, <1>3, ReadKeeps, ReadReceiptKeeps, FetchKeeps, SaveKeeps, FailToSaveKeeps, CheckKeeps, HoldKeeps
     DEF Load
-----------------------------------------------------------------------------
\* A step of the one worker that runs, outside a load.
LEMMA WorkerGoesOn ==
  ASSUME BallotInv, NEW w \in Worker, lock \in {w, None},
         UNCHANGED <<now, format, file, sidecar, cached, loading, accepted, spared>>,
         awaiting' = awaiting \/ awaiting' = [awaiting EXCEPT ![w] = NotPending],
         job' \in [Job -> JobState], \A k \in Job : k # w => job'[k] = job[k],
         job'[w].captured <= now, job'[w].at \notin {"save", "check", "hold"},
         run' \in Times, run' <= now, lock' \in Worker \cup {None}, saved' \subseteq Worker,
         Clocks(w)'
  PROVE  BallotInv'
<1> USE DEF BallotInv
<1>1. w \in Job /\ w \in Process /\ w \notin Request
  BY BallotConstants DEF Job, Process
<1>2. Dated'
  BY DEF Dated
<1>3. Sparing'
  BY DEF Sparing
<1>4. awaiting' \in [Process -> Pending] /\ \A p \in Process : Older(p)'
  <2>1. NotPending \in Pending /\ NotPending.receipt <= now /\ (accepted > 0 => NotPending.receipt <= accepted)
    BY <1>1, EvidenceIs
  <2>2. awaiting' \in [Process -> Pending]
    BY <2>1
  <2>3. ASSUME NEW p \in Process PROVE Older(p)'
    <3>1. Older(p) /\ (awaiting'[p] = awaiting[p] \/ awaiting'[p] = NotPending)
      OBVIOUS
    <3> QED
      BY <2>1, <3>1 DEF Older
  <2> QED
    BY <2>2, <2>3
<1>5. \A k \in Job : k # w => Bystander(k)
  BY DEF Bystander
<1>6. \A k \in Job : Captures(k)'
  <2>1. Captures(w)'
    BY DEF Captures
  <2>2. \A k \in Job : k # w => Captures(k)'
    BY <1>5, CapturesKept
  <2> QED
    BY <2>1, <2>2
<1>7. \A r \in Request : OneLoad(r)'
  BY <1>1, <1>5, OneLoadKept DEF Job
<1>8. ASSUME NEW k \in Worker, k # w PROVE Clocks(k)'
  <2>1. k # None /\ k \in Job
    BY BallotConstants DEF Job
  <2>2. Clocks(k)
    OBVIOUS
  <2>3. job[k].at = "new"
    BY <1>8, <2>1, <2>2 DEF Clocks
  <2>4. job'[k].at = "new" /\ job'[k].last = None
    BY <1>8, <2>1, <2>2, <2>3 DEF Clocks
  <2> QED
    BY <2>4 DEF Clocks, LoadSteps
<1> QED
  BY <1>2, <1>3, <1>4, <1>6, <1>7, <1>8

\* What a worker that runs may rely on.
LEMMA WorkerIs ==
  ASSUME BallotInv, NEW w \in Worker
  PROVE  /\ w \in Job /\ Clocks(w) /\ Captures(w) /\ job \in [Job -> JobState]
         /\ job[w].run \in Times /\ job[w].last \in Times \cup {None} /\ job[w].outcome \in Outcome
         /\ job[w].captured <= now /\ now \in Time
         /\ run \in Times /\ run <= now /\ lock \in Worker \cup {None} /\ saved \subseteq Worker
<1>1. w \in Job
  BY DEF Job
<1>2. job[w] \in JobState /\ Captures(w) /\ Clocks(w)
  BY <1>1 DEF BallotInv
<1>3. job[w].run \in Times /\ job[w].last \in Times \cup {None} /\ job[w].outcome \in Outcome
  BY <1>2 DEF JobState
<1> QED
  BY <1>1, <1>2, <1>3 DEF BallotInv, Dated, Captures

LEMMA StartKeeps ==
  ASSUME BallotInv, NEW w \in Worker, Start(w)
  PROVE  BallotInv'
<1>1. /\ w \in Job /\ Clocks(w) /\ Captures(w) /\ job \in [Job -> JobState]
      /\ job[w].captured <= now /\ run \in Times /\ run <= now /\ saved \subseteq Worker
  BY WorkerIs
<1>2. /\ job[w].at = "new" /\ lock = None /\ lock' = w
      /\ UNCHANGED <<now, format, file, sidecar, run, cached, awaiting, loading, accepted, saved, spared>>
  BY DEF Start, memory, history
<1>3. PICK watch \in BOOLEAN : job' = [job EXCEPT ![w].at = "previous", ![w].watch = watch]
  BY DEF Start
<1>4. /\ job' \in [Job -> JobState] /\ \A k \in Job : k # w => job'[k] = job[k]
      /\ job'[w].at = "previous" /\ job'[w].captured = job[w].captured
      /\ job'[w].run = job[w].run /\ job'[w].last = job[w].last
  BY <1>1, <1>3 DEF JobState, PassSteps
<1>5. Clocks(w)'
  BY <1>1, <1>2, <1>4 DEF Clocks, LoadSteps
<1> QED
  BY <1>1, <1>2, <1>4, <1>5, WorkerGoesOn

LEMMA ReadPreviousKeeps ==
  ASSUME BallotInv, NEW w \in Worker, ReadPrevious(w)
  PROVE  BallotInv'
<1>1. /\ w \in Job /\ Clocks(w) /\ job \in [Job -> JobState] /\ job[w].captured <= now
      /\ run \in Times /\ run <= now /\ lock \in Worker \cup {None} /\ saved \subseteq Worker
  BY WorkerIs
<1>2. /\ job[w].at = "previous" /\ job' = [job EXCEPT ![w].at = "begin", ![w].run = run]
      /\ saved' = saved \ {w}
      /\ UNCHANGED <<now, format, file, sidecar, run, lock, cached, awaiting, loading, accepted, spared>>
  BY DEF ReadPrevious, CarriedClock, disk, memory
<1>3. /\ job' \in [Job -> JobState] /\ \A k \in Job : k # w => job'[k] = job[k]
      /\ job'[w].at = "begin" /\ job'[w].captured = job[w].captured
      /\ job'[w].run = run /\ job'[w].last = job[w].last
  BY <1>1, <1>2 DEF JobState, PassSteps
<1>4. lock = w
  BY <1>1, <1>2 DEF Clocks
<1>5. Clocks(w)'
  BY <1>1, <1>2, <1>3, <1>4 DEF Clocks, LoadSteps
<1> QED
  BY <1>1, <1>2, <1>3, <1>4, <1>5, WorkerGoesOn

LEMMA BeginKeeps ==
  ASSUME BallotInv, NEW w \in Worker, Begin(w)
  PROVE  BallotInv'
<1>1. /\ w \in Job /\ Clocks(w) /\ job \in [Job -> JobState] /\ job[w].captured <= now
      /\ run \in Times /\ run <= now /\ lock \in Worker \cup {None} /\ saved \subseteq Worker
  BY WorkerIs
<1>2. /\ job[w].at = "begin" /\ Goto(w, "collect") /\ run' = job[w].run
      /\ UNCHANGED <<now, format, file, sidecar, lock, cached, awaiting, loading, accepted, saved, spared>>
  BY DEF Begin, Record, memory, history
<1>3. /\ job' \in [Job -> JobState] /\ \A k \in Job : k # w => job'[k] = job[k]
      /\ job'[w].at = "collect" /\ job'[w].captured = job[w].captured
      /\ job'[w].run = job[w].run /\ job'[w].last = job[w].last
  BY <1>1, <1>2, GotoIs DEF PassSteps
<1>4. lock = w /\ run' = run
  BY <1>1, <1>2 DEF Clocks
<1>5. Clocks(w)'
  BY <1>1, <1>2, <1>3, <1>4 DEF Clocks, LoadSteps
<1> QED
  BY <1>1, <1>2, <1>3, <1>4, <1>5, WorkerGoesOn

LEMMA CollectKeeps ==
  ASSUME BallotInv, NEW w \in Worker, Collect(w)
  PROVE  BallotInv'
<1>1. /\ w \in Job /\ Clocks(w) /\ job \in [Job -> JobState] /\ job[w].captured <= now
      /\ run \in Times /\ run <= now /\ lock \in Worker \cup {None} /\ saved \subseteq Worker
  BY WorkerIs
<1>2. PICK step \in {"report", "read"} : Goto(w, step)
  BY DEF Collect
<1>3. /\ job[w].at = "collect"
      /\ UNCHANGED <<now, format, file, sidecar, run, lock, cached, awaiting, loading, accepted, saved, spared>>
  BY DEF Collect, disk, memory, history
<1>4. /\ job' \in [Job -> JobState] /\ \A k \in Job : k # w => job'[k] = job[k]
      /\ job'[w].at = step /\ job'[w].captured = job[w].captured
      /\ job'[w].run = job[w].run /\ job'[w].last = job[w].last
  BY <1>1, <1>2, GotoIs DEF PassSteps, LoadSteps
<1>5. lock = w
  BY <1>1, <1>3 DEF Clocks
<1>6. Clocks(w)'
  BY <1>1, <1>3, <1>4, <1>5 DEF Clocks, LoadSteps, Times, Time
<1> QED
  BY <1>1, <1>3, <1>4, <1>5, <1>6, WorkerGoesOn

LEMMA InspectKeeps ==
  ASSUME BallotInv, NEW w \in Worker, Inspect(w)
  PROVE  BallotInv'
<1>1. /\ w \in Job /\ Clocks(w) /\ job \in [Job -> JobState] /\ job[w].captured <= now
      /\ now \in Time /\ job[w].run \in Times
      /\ run \in Times /\ run <= now /\ lock \in Worker \cup {None} /\ saved \subseteq Worker
  BY WorkerIs
<1>2. /\ job[w].at = "inspect" /\ awaiting' = [awaiting EXCEPT ![w] = NotPending]
      /\ UNCHANGED <<now, format, file, sidecar, run, lock, cached, loading, accepted, saved, spared>>
  BY DEF Inspect, disk, history
<1>3. PICK unreadable \in BOOLEAN :
        LET load == job[w].outcome
            failed == \/ ~load.found /\ awaiting[w].until <= now
                      \/ load.failed \/ unreadable
        IN job' = [job EXCEPT ![w].at = "report", ![w].outcome = Nothing,
                     ![w].run = IF load.imported /\ ~failed THEN now ELSE @]
  BY DEF Inspect
<1>4. \/ job' = [job EXCEPT ![w].at = "report", ![w].outcome = Nothing, ![w].run = job[w].run]
      \/ /\ job[w].outcome.imported
         /\ job' = [job EXCEPT ![w].at = "report", ![w].outcome = Nothing, ![w].run = now]
  <2> DEFINE load == job[w].outcome
             failed == \/ ~load.found /\ awaiting[w].until <= now
                       \/ load.failed \/ unreadable
  <2>1. CASE load.imported /\ ~failed
    BY <1>3, <2>1
  <2>2. CASE ~(load.imported /\ ~failed)
    BY <1>3, <2>2
  <2> QED
    BY <2>1, <2>2
<1>5. Nothing \in Outcome
  BY BallotValues
<1>6. PICK clock \in Times : /\ clock = job[w].run \/ (clock = now /\ job[w].outcome.imported)
                             /\ job' = [job EXCEPT ![w] = [@ EXCEPT !.at = "report", !.outcome = Nothing, !.run = clock]]
  <2>1. job[w].run \in Times /\ now \in Times
    BY <1>1 DEF Times
  <2> QED
    BY <1>4, <2>1
<1>7. /\ job' \in [Job -> JobState] /\ \A k \in Job : k # w => job'[k] = job[k]
      /\ job'[w].at = "report" /\ job'[w].captured = job[w].captured
      /\ job'[w].run = clock /\ job'[w].last = job[w].last
  <2> DEFINE new == [job[w] EXCEPT !.at = "report", !.outcome = Nothing, !.run = clock]
  <2>1. job[w] \in JobState
    BY <1>1
  <2>2. new \in JobState /\ new.at = "report" /\ new.captured = job[w].captured
    BY <1>5, <2>1 DEF JobState, PassSteps
  <2>3. new.run = clock /\ new.last = job[w].last
    BY <2>1 DEF JobState
  <2>4. job' = [job EXCEPT ![w] = new]
    BY <1>6
  <2> HIDE DEF new
  <2> QED
    BY <1>1, <2>2, <2>3, <2>4
<1>8. lock = w /\ job[w].run = run /\ (job[w].outcome.imported => w \in saved)
  BY <1>1, <1>2 DEF Clocks
<1>9. Clocks(w)'
  BY <1>1, <1>2, <1>6, <1>7, <1>8 DEF Clocks, LoadSteps, Times, Time
<1> QED
  BY <1>1, <1>2, <1>7, <1>8, <1>9, WorkerGoesOn

LEMMA ReportKeeps ==
  ASSUME BallotInv, NEW w \in Worker, Report(w)
  PROVE  BallotInv'
<1>1. /\ w \in Job /\ Clocks(w) /\ job \in [Job -> JobState] /\ job[w].captured <= now
      /\ job[w].run \in Times
      /\ run \in Times /\ run <= now /\ lock \in Worker \cup {None} /\ saved \subseteq Worker
  BY WorkerIs
<1>2. /\ job[w].at = "report" /\ run' = job[w].run
      /\ UNCHANGED <<now, format, file, sidecar, lock, cached, awaiting, loading, accepted, saved, spared>>
  BY DEF Report, Record, memory, history
<1>3. lock = w /\ job[w].run <= now
  BY <1>1, <1>2 DEF Clocks
<1>4. CASE job' = [job EXCEPT ![w].at = "sleep", ![w].run = 0, ![w].last = job[w].run]
  <2>1. /\ job' \in [Job -> JobState] /\ \A k \in Job : k # w => job'[k] = job[k]
        /\ job'[w].at = "sleep" /\ job'[w].captured = job[w].captured /\ job'[w].last = job[w].run
    <3> DEFINE new == [job[w] EXCEPT !.at = "sleep", !.run = 0, !.last = job[w].run]
    <3>1. job[w] \in JobState
      BY <1>1
    <3>2. new \in JobState /\ new.at = "sleep" /\ new.captured = job[w].captured /\ new.last = job[w].run
      BY <1>1, <3>1 DEF JobState, PassSteps, Times
    <3>3. job' = [job EXCEPT ![w] = new]
      BY <1>4
    <3> HIDE DEF new
    <3> QED
      BY <1>1, <3>2, <3>3
  <2>2. job[w].run # None
    BY <1>1, BallotConstants
  <2>3. Clocks(w)'
    BY <1>1, <1>2, <1>3, <2>1, <2>2 DEF Clocks, LoadSteps
  <2> QED
    BY <1>1, <1>2, <1>3, <2>1, <2>3, WorkerGoesOn
<1>5. CASE Goto(w, "unlock")
  <2>1. /\ job' \in [Job -> JobState] /\ \A k \in Job : k # w => job'[k] = job[k]
        /\ job'[w].at = "unlock" /\ job'[w].captured = job[w].captured
    BY <1>1, <1>5, GotoIs DEF PassSteps
  <2>2. Clocks(w)'
    BY <1>2, <1>3, <2>1 DEF Clocks, LoadSteps
  <2> QED
    BY <1>1, <1>2, <1>3, <2>1, <2>2, WorkerGoesOn
<1> QED
  BY <1>4, <1>5 DEF Report

LEMMA WakeKeeps ==
  ASSUME BallotInv, NEW w \in Worker, Wake(w)
  PROVE  BallotInv'
<1>1. /\ w \in Job /\ Clocks(w) /\ job \in [Job -> JobState] /\ job[w].captured <= now
      /\ run \in Times /\ run <= now /\ lock \in Worker \cup {None} /\ saved \subseteq Worker
  BY WorkerIs
<1>2. PICK step \in {"previous", "stop"} : Goto(w, step)
  BY DEF Wake
<1>3. /\ job[w].at = "sleep"
      /\ UNCHANGED <<now, format, file, sidecar, run, lock, cached, awaiting, loading, accepted, saved, spared>>
  BY DEF Wake, disk, memory, history
<1>4. /\ job' \in [Job -> JobState] /\ \A k \in Job : k # w => job'[k] = job[k]
      /\ job'[w].at = step /\ job'[w].captured = job[w].captured
      /\ job'[w].run = job[w].run /\ job'[w].last = job[w].last
  BY <1>1, <1>2, GotoIs DEF PassSteps
<1>5. lock = w
  BY <1>1, <1>3 DEF Clocks
<1>6. Clocks(w)'
  BY <1>1, <1>3, <1>4, <1>5 DEF Clocks, LoadSteps
<1> QED
  BY <1>1, <1>3, <1>4, <1>5, <1>6, WorkerGoesOn

LEMMA StopKeeps ==
  ASSUME BallotInv, NEW w \in Worker, Stop(w)
  PROVE  BallotInv'
<1>1. /\ w \in Job /\ Clocks(w) /\ job \in [Job -> JobState] /\ job[w].captured <= now
      /\ run \in Times /\ run <= now /\ lock \in Worker \cup {None} /\ saved \subseteq Worker
  BY WorkerIs
<1>2. /\ job[w].at = "stop" /\ Goto(w, "unlock") /\ run' = job[w].last
      /\ UNCHANGED <<now, format, file, sidecar, lock, cached, awaiting, loading, accepted, saved, spared>>
  BY DEF Stop, Record, memory, history
<1>3. /\ job' \in [Job -> JobState] /\ \A k \in Job : k # w => job'[k] = job[k]
      /\ job'[w].at = "unlock" /\ job'[w].captured = job[w].captured
  BY <1>1, <1>2, GotoIs DEF PassSteps
<1>4. lock = w /\ run' = run
  BY <1>1, <1>2 DEF Clocks
<1>5. Clocks(w)'
  BY <1>2, <1>3, <1>4 DEF Clocks, LoadSteps
<1> QED
  BY <1>1, <1>2, <1>3, <1>4, <1>5, WorkerGoesOn

\* A worker ends, or its end leaves the lock behind.
LEMMA WorkerEnds ==
  ASSUME BallotInv, NEW w \in Worker, End(w), job[w].at # "new",
         UNCHANGED <<now, format, file, sidecar, run, cached, loading, history>>,
         awaiting' = awaiting \/ awaiting' = [awaiting EXCEPT ![w] = NotPending],
         lock' \in {lock, None}
  PROVE  BallotInv'
<1>1. /\ w \in Job /\ Clocks(w) /\ job \in [Job -> JobState] /\ now \in Time
      /\ run \in Times /\ run <= now /\ lock \in Worker \cup {None} /\ saved \subseteq Worker
  BY WorkerIs
<1>2. /\ job' \in [Job -> JobState] /\ job'[w] = NoJob
      /\ \A k \in Job : k # w => job'[k] = job[k]
  BY <1>1, EndIs
<1>3. job'[w].at = "new" /\ job'[w].captured <= now /\ job'[w].last = None
  BY <1>1, <1>2 DEF NoJob, Time
<1>4. lock = w
  BY <1>1 DEF Clocks
<1>5. Clocks(w)'
  BY <1>3 DEF Clocks, LoadSteps
<1>6. UNCHANGED <<accepted, saved, spared>>
  BY DEF history
<1> QED
  BY <1>1, <1>2, <1>3, <1>4, <1>5, <1>6, WorkerGoesOn

LEMMA FailToRecordKeeps ==
  ASSUME BallotInv, NEW w \in Worker, FailToRecord(w)
  PROVE  BallotInv'
<1>1. /\ w \in Job /\ Clocks(w) /\ job \in [Job -> JobState] /\ job[w].captured <= now
      /\ run \in Times /\ run <= now /\ lock \in Worker \cup {None} /\ saved \subseteq Worker
  BY WorkerIs
<1>2. /\ job[w].at # "new"
      /\ UNCHANGED <<now, format, file, sidecar, run, lock, cached, awaiting, loading, history>>
      /\ UNCHANGED <<accepted, saved, spared>>
  BY DEF FailToRecord, disk, memory, history
<1>3. CASE End(w)
  BY <1>2, <1>3, WorkerEnds
<1>4. CASE /\ job[w].at \in {"previous", "begin", "report"}
           /\ job' = [job EXCEPT ![w].at = IF job[w].last = None THEN "unlock" ELSE "stop", ![w].run = 0]
  <2>1. PICK step \in {"unlock", "stop"} : /\ step = "stop" => job[w].last # None
                                           /\ job' = [job EXCEPT ![w].at = step, ![w].run = 0]
    <3>1. CASE job[w].last = None
      BY <1>4, <3>1
    <3>2. CASE job[w].last # None
      BY <1>4, <3>2
    <3> QED
      BY <3>1, <3>2
  <2>2. /\ job' \in [Job -> JobState] /\ \A k \in Job : k # w => job'[k] = job[k]
        /\ job'[w].at = step /\ job'[w].captured = job[w].captured /\ job'[w].last = job[w].last
    <3> DEFINE new == [job[w] EXCEPT !.at = step, !.run = 0]
    <3>1. job[w] \in JobState
      BY <1>1
    <3>2. new \in JobState /\ new.at = step /\ new.captured = job[w].captured /\ new.last = job[w].last
      BY <3>1 DEF JobState, PassSteps, Times
    <3>3. job' = [job EXCEPT ![w] = new]
      BY <2>1
    <3> HIDE DEF new
    <3> QED
      BY <1>1, <3>2, <3>3
  <2>3. lock = w /\ (job[w].last # None => job[w].last = run)
    BY <1>1, <1>4 DEF Clocks
  <2>4. Clocks(w)'
    BY <1>2, <2>1, <2>2, <2>3 DEF Clocks, LoadSteps
  <2> QED
    BY <1>1, <1>2, <2>2, <2>3, <2>4, WorkerGoesOn
<1> QED
  BY <1>3, <1>4 DEF FailToRecord

LEMMA WorkKeeps ==
  ASSUME BallotInv, NEW w \in Worker, Work(w) \/ Kill(w)
  PROVE  BallotInv'
<1>1. CASE Unlock(w)
  <2>1. /\ End(w) /\ job[w].at # "new" /\ lock' \in {lock, None}
        /\ UNCHANGED <<now, format, file, sidecar, run, cached, awaiting, loading, history>>
    BY <1>1 DEF Unlock, memory
  <2> QED
    BY <2>1, WorkerEnds
<1>2. CASE Kill(w)
  <2>1. /\ End(w) /\ job[w].at # "new" /\ lock' \in {lock, None}
        /\ awaiting' = [awaiting EXCEPT ![w] = NotPending]
        /\ UNCHANGED <<now, format, file, sidecar, run, cached, loading, history>>
    BY <1>2 DEF Kill, Running, disk
  <2> QED
    BY <2>1, WorkerEnds
<1> QED
  BY <1>1, <1>2, StartKeeps, ReadPreviousKeeps, BeginKeeps, CollectKeeps, InspectKeeps, ReportKeeps,
     WakeKeeps, StopKeeps, FailToRecordKeeps DEF Work
-----------------------------------------------------------------------------
\* A request of the API that has no load.
LEMMA RequestGoesOn ==
  ASSUME BallotInv, NEW r \in Request, job[r].at \notin LoadSteps,
         UNCHANGED <<now, format, file, sidecar, run, lock, cached, awaiting, accepted, saved, spared>>,
         job' \in [Job -> JobState], \A k \in Job : k # r => job'[k] = job[k],
         job'[r].captured <= now, job'[r].at \notin {"save", "check", "hold"},
         \/ loading' = loading /\ job'[r].at \notin LoadSteps
         \/ loading = None /\ loading' = r /\ spared <= now
  PROVE  BallotInv'
<1> USE DEF BallotInv
<1>1. r \in Job /\ r \notin Worker
  BY BallotConstants DEF Job
<1>2. Dated'
  BY DEF Dated
<1>3. Sparing'
  BY DEF Sparing
<1>4. \A p \in Process : Older(p)'
  BY DEF Older
<1>5. \A k \in Job : k # r => Bystander(k)
  BY DEF Bystander
<1>6. \A k \in Job : Captures(k)'
  <2>1. Captures(r)'
    BY DEF Captures
  <2>2. \A k \in Job : k # r => Captures(k)'
    BY <1>5, CapturesKept
  <2> QED
    BY <2>1, <2>2
<1>7. ASSUME NEW k \in Request PROVE OneLoad(k)'
  <2>1. OneLoad(k) /\ k # None /\ k \in Job
    BY BallotConstants DEF Job
  <2>2. CASE k = r
    BY <2>2 DEF OneLoad
  <2>3. CASE k # r
    <3>1. job[k].at \in LoadSteps => loading' = loading
      BY <2>1 DEF OneLoad
    <3> QED
      BY <1>5, <2>1, <2>3, <3>1, OneLoadKept
  <2> QED
    BY <2>2, <2>3
<1>8. \A w \in Worker : Clocks(w)'
  BY <1>1, <1>5, ClocksKept DEF Job
<1> QED
  BY <1>2, <1>3, <1>4, <1>6, <1>7, <1>8

\* A load begins when the cache has run out, and with it the time for which
\* the publisher is to be spared.
LEMMA LookupKeeps ==
  ASSUME BallotInv, NEW r \in Request, Lookup(r)
  PROVE  BallotInv'
<1>1. /\ r \in Job /\ job \in [Job -> JobState] /\ Captures(r) /\ Sparing /\ now \in Time
  BY DEF BallotInv, Dated, Job
<1>2. /\ job[r].at = "new" /\ job[r].at \notin LoadSteps
      /\ UNCHANGED <<now, format, file, sidecar, run, lock, cached, awaiting, accepted, saved, spared>>
  BY DEF Lookup, LoadSteps, disk, memory, history
<1>3. CASE End(r) /\ UNCHANGED loading
  <2>1. /\ job' \in [Job -> JobState] /\ job'[r] = NoJob
        /\ \A k \in Job : k # r => job'[k] = job[k]
    BY <1>1, <1>3, EndIs
  <2>2. job'[r].captured <= now /\ job'[r].at \notin {"save", "check", "hold"} /\ job'[r].at \notin LoadSteps
    BY <1>1, <2>1 DEF NoJob, LoadSteps, Time
  <2> QED
    BY <1>2, <1>3, <2>1, <2>2, RequestGoesOn
<1>4. ASSUME NEW step \in {"archive", "wait"}, Goto(r, step) /\ UNCHANGED loading PROVE BallotInv'
  <2>1. /\ job' \in [Job -> JobState] /\ \A k \in Job : k # r => job'[k] = job[k]
        /\ job'[r].at = step /\ job'[r].captured = job[r].captured
    BY <1>1, <1>4, GotoIs
  <2>2. job'[r].captured <= now /\ job'[r].at \notin {"save", "check", "hold"} /\ job'[r].at \notin LoadSteps
    BY <1>1, <2>1 DEF Captures, LoadSteps
  <2> QED
    BY <1>2, <1>4, <2>1, <2>2, RequestGoesOn
<1>5. CASE cached <= now /\ loading = None /\ Goto(r, "read") /\ loading' = r
  <2>1. /\ job' \in [Job -> JobState] /\ \A k \in Job : k # r => job'[k] = job[k]
        /\ job'[r].at = "read" /\ job'[r].captured = job[r].captured
    BY <1>1, <1>5, GotoIs DEF LoadSteps
  <2>2. job'[r].captured <= now /\ job'[r].at \notin {"save", "check", "hold"}
    BY <1>1, <2>1 DEF Captures
  <2>3. spared <= now
    BY <1>1, <1>5, BallotConstants DEF Sparing, Time
  <2> QED
    BY <1>2, <1>5, <2>1, <2>2, <2>3, RequestGoesOn
<1>6. cached > now \/ cached <= now
  BY <1>1, BallotConstants DEF Sparing, Time
<1> QED
  BY <1>3, <1>4, <1>5, <1>6 DEF Lookup, Shares

LEMMA ReadArchiveKeeps ==
  ASSUME BallotInv, NEW r \in Request, ReadArchive(r)
  PROVE  BallotInv'
<1>1. /\ r \in Job /\ job \in [Job -> JobState] /\ now \in Time
  BY DEF BallotInv, Dated, Job
<1>2. /\ job[r].at = "archive" /\ job[r].at \notin LoadSteps /\ loading' = loading
      /\ UNCHANGED <<now, format, file, sidecar, run, lock, cached, awaiting, accepted, saved, spared>>
  BY DEF ReadArchive, LoadSteps, disk, memory, history
<1>3. /\ job' \in [Job -> JobState] /\ job'[r] = NoJob
      /\ \A k \in Job : k # r => job'[k] = job[k]
  BY <1>1, EndIs DEF ReadArchive
<1>4. job'[r].captured <= now /\ job'[r].at \notin {"save", "check", "hold"} /\ job'[r].at \notin LoadSteps
  BY <1>1, <1>3 DEF NoJob, LoadSteps, Time
<1> QED
  BY <1>2, <1>3, <1>4, RequestGoesOn

LEMMA RestartKeeps ==
  ASSUME BallotInv, Restart
  PROVE  BallotInv'
<1> USE DEF BallotInv
<1>1. UNCHANGED <<now, format, file, sidecar, run, lock, accepted, saved>>
  BY DEF Restart, disk
<1>2. NoJob \in JobState /\ NotPending \in Pending
  BY BallotValues
<1>3. /\ job' \in [Job -> JobState] /\ \A k \in Job : Bystander(k)
      /\ \A r \in Request : job'[r] = NoJob
  BY <1>2 DEF Restart, Bystander, Job
<1>4. Dated'
  BY <1>1 DEF Dated
<1>5. Sparing'
  BY <1>1, BallotConstants DEF Restart, Sparing, Dated, Time
<1>6. awaiting' \in [Process -> Pending] /\ \A p \in Process : Older(p)'
  <2>1. awaiting' \in [Process -> Pending] /\ \A p \in Process : awaiting'[p] = awaiting[p] \/ awaiting'[p] = NotPending
    BY <1>2 DEF Restart
  <2>2. NotPending.receipt = 0
    BY DEF NotPending
  <2>3. now \in Time /\ accepted \in Times
    BY DEF Dated
  <2> QED
    BY <1>1, <2>1, <2>2, <2>3 DEF Older, Times, Time
<1>7. \A k \in Job : Captures(k)'
  BY <1>1, <1>3, CapturesKept
<1>8. \A r \in Request : OneLoad(r)'
  BY <1>3 DEF OneLoad, NoJob, LoadSteps
<1>9. \A w \in Worker : Clocks(w)'
  BY <1>1, <1>3, ClocksKept DEF Job
<1> QED
  BY <1>1, <1>3, <1>4, <1>5, <1>6, <1>7, <1>8, <1>9

LEMMA OwnerRecoversKeeps ==
  ASSUME BallotInv, OwnerRecovers
  PROVE  BallotInv'
<1> USE DEF BallotInv
<1>1. /\ UNCHANGED <<now, format, file, sidecar, run, cached, awaiting, loading, job, accepted, saved, spared>>
      /\ lock # None /\ job[lock].at = "new" /\ lock' = None
  BY DEF OwnerRecovers, Running, memory, history
<1>2. Dated' /\ Sparing' /\ \A p \in Process : Older(p)'
  BY <1>1 DEF Dated, Sparing, Older
<1>3. \A k \in Job : Captures(k)'
  BY <1>1 DEF Captures
<1>4. \A r \in Request : OneLoad(r)'
  BY <1>1 DEF OneLoad
<1>5. ASSUME NEW w \in Worker PROVE Clocks(w)'
  <2>1. Clocks(w)
    OBVIOUS
  <2>2. job[w].at = "new"
    BY <1>1, <2>1 DEF Clocks
  <2> QED
    BY <1>1, <2>1, <2>2 DEF Clocks
<1> QED
  BY <1>1, <1>2, <1>3, <1>4, <1>5

LEMMA BallotTickKeeps ==
  ASSUME BallotInv, Tick
  PROVE  BallotInv'
<1> USE DEF BallotInv
<1>1. /\ UNCHANGED <<format, file, sidecar, run, lock, cached, awaiting, loading, job, accepted, saved, spared>>
      /\ now' = now + 1 /\ now < MaxTime
  BY DEF Tick, disk, memory, history
<1>2. now \in Time /\ now' \in Time /\ MaxTime \in Nat
  BY <1>1, BallotConstants DEF Dated, Time
<1>3. Dated'
  BY <1>1, <1>2 DEF Dated, Snapshot, Times, Time
<1>4. Sparing'
  BY <1>1, <1>2, BallotConstants DEF Sparing, Time
<1>5. ASSUME NEW p \in Process PROVE Older(p)'
  <2>1. Older(p) /\ awaiting[p].receipt \in Times
    BY DEF Pending
  <2> QED
    BY <1>1, <1>2, <2>1 DEF Older, Times, Time
<1>6. ASSUME NEW k \in Job PROVE Captures(k)'
  <2>1. Captures(k) /\ job[k].captured \in Times
    BY DEF JobState
  <2> QED
    BY <1>1, <1>2, <2>1 DEF Captures, Times, Time
<1>7. \A r \in Request : OneLoad(r)'
  BY <1>1 DEF OneLoad
<1>8. ASSUME NEW w \in Worker PROVE Clocks(w)'
  <2>1. Clocks(w) /\ job[w].run \in Times
    BY DEF JobState, Job
  <2> QED
    BY <1>1, <1>2, <2>1 DEF Clocks, Times, Time
<1> QED
  BY <1>1, <1>3, <1>4, <1>5, <1>6, <1>7, <1>8

LEMMA BallotNextKeeps ==
  ASSUME BallotInv, [BallotNext]_ballotVars
  PROVE  BallotInv'
<1>1. CASE UNCHANGED ballotVars
  BY <1>1 DEF BallotInv, ballotVars, Dated, Sparing, Older, Captures, OneLoad, Clocks
<1>2. CASE BallotNext
  BY <1>2, LookupKeeps, ReadArchiveKeeps, LoadKeeps, WorkKeeps, RestartKeeps, OwnerRecoversKeeps, BallotTickKeeps
     DEF BallotNext
<1> QED
  BY <1>1, <1>2

LEMMA BallotsInvariant == BallotSpec => []BallotInv
BY BallotInitIs, BallotNextKeeps, PTL DEF BallotSpec
-----------------------------------------------------------------------------
\* Who may write the snapshot file and the receipt, and who comes to fetch.
LEMMA OnlySaveReplaces ==
  ASSUME BallotNext
  PROVE  file' = file \/ \E j \in Job : Save(j)
<1>1. ASSUME NEW j \in Job, Load(j), ~Save(j) PROVE file' = file
  BY <1>1 DEF Load, Read, ReadReceipt, FailToRead, Fetch, FailToFetch, FailToSave, Check, Hold, FailToHold, disk
<1>2. ASSUME NEW w \in Worker, Work(w) \/ Kill(w) PROVE file' = file
  BY <1>2 DEF Work, Start, ReadPrevious, Begin, Collect, Inspect, Report, Wake, Stop, Unlock, FailToRecord,
              Record, Kill, disk
<1>3. ASSUME NEW r \in Request, Lookup(r) \/ ReadArchive(r) PROVE file' = file
  BY <1>3 DEF Lookup, ReadArchive, disk
<1> QED
  BY <1>1, <1>2, <1>3 DEF BallotNext, Restart, OwnerRecovers, Tick, disk

LEMMA OnlyReceiptsCount ==
  ASSUME BallotNext
  PROVE  run' = run \/ \E w \in Worker : Begin(w) \/ Stop(w) \/ Report(w)
<1>1. ASSUME NEW j \in Job, Load(j) PROVE run' = run
  BY <1>1 DEF Load, Read, ReadReceipt, FailToRead, Fetch, FailToFetch, Save, FailToSave, Check, Hold, FailToHold, disk
<1>2. ASSUME NEW w \in Worker, Work(w) \/ Kill(w), ~(Begin(w) \/ Stop(w) \/ Report(w)) PROVE run' = run
  BY <1>2 DEF Work, Start, ReadPrevious, Collect, Inspect, Wake, Unlock, FailToRecord, Kill, disk
<1>3. ASSUME NEW r \in Request, Lookup(r) \/ ReadArchive(r) PROVE run' = run
  BY <1>3 DEF Lookup, ReadArchive, disk
<1> QED
  BY <1>1, <1>2, <1>3 DEF BallotNext, Restart, OwnerRecovers, Tick, disk

\* A load changes no job but its own and those it answers.
LEMMA LoadSparesOthers ==
  ASSUME BallotInv, NEW j \in Job, Load(j), NEW k \in Job, k # j
  PROVE  Bystander(k)
<1>1. job \in [Job -> JobState]
  BY DEF BallotInv
<1>2. ASSUME NEW outcome, NEW until, NEW evidence, Answer(j, outcome, until, evidence) PROVE Bystander(k)
  BY <1>2 DEF Answer, Bystander
<1>3. ASSUME NEW step, Goto(j, step) PROVE Bystander(k)
  BY <1>1, <1>3 DEF Goto, Bystander
<1>4. CASE Read(j) \/ Fetch(j)
  BY <1>1, <1>2, <1>3, <1>4 DEF Read, Fetch, Bystander
<1>5. CASE ReadReceipt(j)
  BY <1>2, <1>3, <1>5 DEF ReadReceipt, Remember
<1>6. CASE FailToRead(j) \/ FailToFetch(j) \/ Save(j) \/ FailToSave(j)
  BY <1>2, <1>6 DEF FailToRead, FailToFetch, Save, FailToSave, Unavailable, Collected
<1>7. CASE Check(j) \/ Hold(j) \/ FailToHold(j)
  BY <1>2, <1>3, <1>7 DEF Check, Hold, FailToHold, Remember, Unavailable, PendingFails
<1> QED
  BY <1>4, <1>5, <1>6, <1>7 DEF Load

LEMMA OnlyLoadsFetch ==
  ASSUME BallotInv, BallotNext, NEW r \in Request, job[r].at # "fetch", job'[r].at = "fetch"
  PROVE  job[r].at \in LoadSteps
<1> SUFFICES ASSUME job[r].at \notin LoadSteps PROVE FALSE
  OBVIOUS
<1>1. job \in [Job -> JobState] /\ r \in Job /\ r \notin Worker /\ ~Bystander(r)
  BY BallotConstants DEF BallotInv, Job, Bystander, NoJob
<1>2. ASSUME NEW j \in Job, Load(j) PROVE FALSE
  <2>1. job[j].at \in LoadSteps /\ j # r
    BY <1>2 DEF Load, Read, ReadReceipt, FailToRead, Fetch, FailToFetch, Save, FailToSave, Check, Hold, FailToHold,
                LoadSteps
  <2>2. Bystander(r)
    BY <1>1, <1>2, <2>1, LoadSparesOthers
  <2> QED
    BY <1>1, <2>2
<1>3. ASSUME NEW w \in Worker, Work(w) \/ Kill(w) PROVE FALSE
  <2>1. w \in Job /\ w # r
    BY <1>1 DEF Job
  <2>2. job'[r] = job[r]
    BY <1>1, <1>3, <2>1 DEF Work, Start, ReadPrevious, Begin, Collect, Inspect, Report, Wake, Stop, Unlock,
                            FailToRecord, Kill, Goto, End
  <2> QED
    BY <1>1, <2>2 DEF Bystander
<1>4. ASSUME NEW k \in Request, Lookup(k) \/ ReadArchive(k) PROVE FALSE
  <2>1. k \in Job
    BY DEF Job
  <2>2. Bystander(r) \/ job'[r].at \in {"archive", "wait", "read"}
    BY <1>1, <1>4, <2>1 DEF Lookup, ReadArchive, Goto, End, Bystander, JobState
  <2> QED
    BY <1>1, <2>2
<1>5. ASSUME Restart \/ OwnerRecovers \/ Tick PROVE FALSE
  BY <1>1, <1>5 DEF Restart, OwnerRecovers, Tick, Bystander
<1> QED
  BY <1>2, <1>3, <1>4, <1>5 DEF BallotNext
-----------------------------------------------------------------------------
\* Every job, worker and file has the values the code gives it, and pending
\* evidence is not relied on after the day before the election.
THEOREM BallotsTyped == BallotSpec => []BallotTypeOK
<1>1. BallotInv => BallotTypeOK
  BY BallotConstants DEF BallotInv, BallotTypeOK, Dated, Sparing
<1> QED
  BY <1>1, BallotsInvariant, PTL

\* An empty export never stands for accepted records: the evidence that there
\* are none yet, on disk or remembered, is older than the first records that
\* were accepted, whoever accepted them while the export was on its way.
THEOREM EmptyReportsNeverReplace == BallotSpec => []EmptyNeverReplaces
<1>1. BallotInv => EmptyNeverReplaces
  BY DEF BallotInv, EmptyNeverReplaces, Dated, Older
<1> QED
  BY <1>1, BallotsInvariant, PTL

\* The lookups of the API share a fetch and start none before the time for
\* which the last one spares the publisher.
THEOREM LookupsSparePublisher == BallotSpec => FetchesAreSpared
<1> DEFINE Spared == \A r \in Request : job[r].at # "fetch" /\ job'[r].at = "fetch" =>
                       /\ now >= spared
                       /\ \A k \in Request \ {r} : job[k].at \notin {"fetch", "save", "check", "hold"}
<1>1. ASSUME BallotInv, BallotNext PROVE Spared
  <2> SUFFICES ASSUME NEW r \in Request, job[r].at # "fetch", job'[r].at = "fetch"
               PROVE  /\ spared <= now
                      /\ \A k \in Request \ {r} : job[k].at \notin {"fetch", "save", "check", "hold"}
    <3>1. now \in Nat /\ spared \in Nat
      BY <1>1, BallotConstants DEF BallotInv, Dated, Sparing, Time
    <3> QED
      BY <3>1
  <2>1. job[r].at \in LoadSteps
    BY <1>1, OnlyLoadsFetch
  <2>2. loading = r
    BY <1>1, <2>1 DEF BallotInv, OneLoad
  <2>3. spared <= now
    BY <1>1, <2>2, BallotConstants DEF BallotInv, Sparing
  <2>4. \A k \in Request : job[k].at \in LoadSteps => loading = k
    BY <1>1 DEF BallotInv, OneLoad
  <2> QED
    BY <2>2, <2>3, <2>4 DEF LoadSteps
<1>2. ASSUME UNCHANGED ballotVars PROVE Spared
  BY <1>2 DEF ballotVars
<1> QED
  BY <1>1, <1>2, BallotsInvariant, PTL DEF BallotSpec, FetchesAreSpared

\* A process never replaces evidence of its own by older evidence.
THEOREM OwnEvidenceNeverOlder == BallotSpec => OlderOnlyFromElsewhere
<1> DEFINE Replaced == file # None /\ file' # file /\ file'.retrieved < file.retrieved => file'.by # file.by
<1>1. ASSUME BallotInv, BallotNext PROVE Replaced
  <2>1. CASE file' = file
    BY <2>1
  <2>2. ASSUME NEW j \in Job, Save(j) PROVE Replaced
    <3>1. job[j].at = "save" /\ file' = [retrieved |-> job[j].captured, by |-> ProcessOf(j)]
      BY <2>2 DEF Save
    <3>2. Captures(j) /\ job[j].captured \in Nat /\ (file # None => file.retrieved \in Nat)
      BY <1>1, <3>1 DEF BallotInv, Captures, Dated, Snapshot, Time
    <3> QED
      BY <3>1, <3>2 DEF Captures
  <2>3. file' = file \/ \E j \in Job : Save(j)
    BY <1>1, OnlySaveReplaces
  <2> QED
    BY <2>1, <2>2, <2>3
<1>2. ASSUME UNCHANGED ballotVars PROVE Replaced
  BY <1>2 DEF ballotVars
<1> QED
  BY <1>1, <1>2, BallotsInvariant, PTL DEF BallotSpec, OlderOnlyFromElsewhere

\* The import clock of the receipt never goes back, and whoever advances it
\* has stored a snapshot in the pass that it reports.
THEOREM ImportClocksAreBacked == BallotSpec => ImportClockIsBacked
<1> DEFINE Backed == /\ run' >= run
                     /\ run' > run => \E w \in saved : lock = w /\ job[w].at = "report"
<1>1. ASSUME BallotInv, BallotNext PROVE Backed
  <2>1. run \in Nat
    BY <1>1 DEF BallotInv, Dated, Times, Time
  <2>2. CASE run' = run
    BY <2>1, <2>2
  <2>3. ASSUME NEW w \in Worker, Begin(w) \/ Stop(w) PROVE run' = run
    <3>1. Clocks(w)
      BY <1>1 DEF BallotInv
    <3> QED
      BY <2>3, <3>1 DEF Begin, Stop, Record, Clocks
  <2>4. ASSUME NEW w \in Worker, Report(w) PROVE Backed
    <3>1. Clocks(w) /\ job[w].run \in Nat
      BY <1>1, WorkerIs DEF Times, Time
    <3>2. job[w].at = "report" /\ run' = job[w].run
      BY <2>4 DEF Report, Record
    <3>3. run <= job[w].run /\ lock = w /\ (job[w].run > run => w \in saved)
      BY <3>1, <3>2 DEF Clocks
    <3> QED
      BY <2>1, <3>1, <3>2, <3>3
  <2>5. run' = run \/ \E w \in Worker : Begin(w) \/ Stop(w) \/ Report(w)
    BY <1>1, OnlyReceiptsCount
  <2> QED
    BY <2>2, <2>3, <2>4, <2>5
<1>2. ASSUME BallotInv, UNCHANGED ballotVars PROVE Backed
  BY <1>2 DEF ballotVars, BallotInv, Dated, Times, Time
<1> QED
  BY <1>1, <1>2, BallotsInvariant, PTL DEF BallotSpec, ImportClockIsBacked
=============================================================================
