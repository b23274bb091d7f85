---------------------------- MODULE MCAuditTrail ----------------------------
(***************************************************************************)
(* Values of AuditTrail's constants for TLC.                               *)
(***************************************************************************)
EXTENDS AuditTrail

MCMode(m, v, d, t) == [memory |-> m, verifications |-> v, damages |-> d, time |-> t]
(* MemStore; PostgreSQL with two months to drop; one damaged record.       *)
AllModes == {MCMode(TRUE, 2, 0, 3), MCMode(FALSE, 2, 0, 3), MCMode(FALSE, 2, 1, 2)}
=============================================================================
