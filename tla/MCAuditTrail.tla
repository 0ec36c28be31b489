---- MODULE MCAuditTrail ----
(* TLC instance of AuditTrail: three transactions. *)
EXTENDS AuditTrail

CONSTANTS t1, t2, t3

MCTransaction == {t1, t2, t3}
====
