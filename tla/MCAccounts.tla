----------------------------- MODULE MCAccounts -----------------------------
(***************************************************************************)
(* Values of Accounts' constants for TLC.                                  *)
(***************************************************************************)
EXTENDS Accounts, TLC

CONSTANTS a, b, c, d, p, q, p1, p2

FirstAccounts == <<[id |-> d, role |-> "sys_admin"], [id |-> c, role |-> "audit_admin"]>>

InUse(role) == [role |-> role, status |-> "active", pw |-> p, history |-> <<>>,
                must |-> FALSE, failed |-> 0, locked |-> 0, expires |-> Never,
                seen |-> 0, pwAt |-> 0]
Empty == [users |-> [u \in Users |-> NoRow], signedIn |-> <<>>]
(* Two system administrators, signed in, a third, who is disabled, and an  *)
(* audit administrator.                                                    *)
Established ==
    [users |-> [u \in Users |-> CASE u = d -> [InUse("sys_admin") EXCEPT !.status = "disabled"]
                                  [] u = c -> InUse("audit_admin")
                                  [] OTHER -> InUse("sys_admin")],
     signedIn |-> <<a, b>>]
AtFirst == {Empty, Established}

MCMode(s, f, i, n, t) == [serial |-> s, fails |-> f, dormant |-> i,
                          references |-> FALSE, requests |-> n, time |-> t]
(* Requests in turn. *)
InTurn == MCMode(TRUE, FALSE, FALSE, 3, 1)
(* Requests that overlap: with writes that succeed, or that fail, PostgreSQL *)
(* as the store and accounts disabled for inactivity.                      *)
Overlapping == MCMode(FALSE, FALSE, FALSE, 2, 1)
Failing == [MCMode(FALSE, TRUE, TRUE, 2, 1) EXCEPT !.references = TRUE]
AllModes == {InTurn, Overlapping, Failing}
DormantInTurn == {MCMode(TRUE, FALSE, TRUE, 2, 1)}

Symmetric == Permutations({p1, p2}) \cup Permutations({a, b})
NeverOnly == {Never}
=============================================================================
