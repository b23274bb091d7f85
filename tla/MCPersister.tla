---------------------------- MODULE MCPersister ----------------------------
(***************************************************************************)
(* Values of Persister's constants for TLC.                                *)
(***************************************************************************)
EXTENDS Persister, TLC

CONSTANTS w1, w2, r1, r2

MCUse(direct, counted, alone, fails, undo) ==
    [direct |-> direct, counted |-> counted, alone |-> alone, fails |-> fails, undo |-> undo]

(* Records used one way by one user at a time, with saves that fail; and   *)
(* the use the services really make of a record, with saves that do not.   *)
SafeUses ==
    {MCUse({r1}, {r2}, TRUE, TRUE, u) : u \in {"record", "field"}}
    \cup {MCUse({r1}, {r1}, FALSE, FALSE, "field")}

(* One record that users and traffic both change; saves never fail. *)
MixedUse == {MCUse({r1}, {r1}, FALSE, FALSE, "field")}
=============================================================================
