----------------------------- MODULE MCWorkflow -----------------------------
(***************************************************************************)
(* Values of Workflow's constants for TLC.                                 *)
(***************************************************************************)
EXTENDS Workflow, TLC

CONSTANTS w1, w2, u1, u2, d1, g1

SameGroup == [d \in Detections |-> g1]

MCMode(f, r, s, n) == [fails |-> f, reopens |-> r, serial |-> s, requests |-> n]
(* Saves succeed and nothing is reopened, at any time. *)
Concurrent == MCMode(FALSE, FALSE, FALSE, 3)
(* The same, in turn, without and with tickets that are reopened. *)
InTurn == MCMode(FALSE, FALSE, TRUE, 4)
Reopening == MCMode(FALSE, TRUE, TRUE, 5)
(* Everything at once. *)
Failing == MCMode(TRUE, TRUE, FALSE, 3)
AllModes == {Concurrent, InTurn, Reopening, Failing}
ReopeningOnly == {Reopening}
FailingOnly == {Failing}

Symmetric == Permutations({w1, w2}) \cup Permutations({u1, u2})
=============================================================================
