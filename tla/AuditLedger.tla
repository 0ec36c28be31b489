---------------------------- MODULE AuditLedger ----------------------------
(***************************************************************************)
(* What the admin store promises of its audit trail: one ledger that only  *)
(* grows, to which every transaction contributes at most once, all of its  *)
(* events at a time, adjacent and in the order it produced them.           *)
(***************************************************************************)
EXTENDS Naturals, Sequences

CONSTANTS Transaction,    \* the store's write transactions
          MaxEvents       \* the most events one transaction records

VARIABLE ledger           \* committed events <<transaction, number>>, in order

LedgerInit == ledger = << >>

Contributed(t) == \E i \in DOMAIN ledger : ledger[i][1] = t

\* A transaction commits: its n events are added at the end.
Record(t, n) ==
  /\ ~Contributed(t)
  /\ ledger' = ledger \o [k \in 1..n |-> <<t, k>>]

LedgerNext == \E t \in Transaction, n \in 1..MaxEvents : Record(t, n)

LedgerSpec == LedgerInit /\ [][LedgerNext]_ledger
=============================================================================
