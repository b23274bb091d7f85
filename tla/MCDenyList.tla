----------------------------- MODULE MCDenyList -----------------------------
(***************************************************************************)
(* Values of DenyList's constants for TLC.                                 *)
(***************************************************************************)
EXTENDS DenyList, TLC

CONSTANTS t1, t2, t3, a1, a2

(* All callers in one platform process, or two in one and one in another.  *)
OneReplica == [t \in Callers |-> 1]
TwoReplicas == [t \in Callers |-> IF t = t1 THEN 1 ELSE 2]
=============================================================================
