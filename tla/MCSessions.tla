----------------------------- MODULE MCSessions -----------------------------
(***************************************************************************)
(* Values of Sessions' constants for TLC.                                  *)
(***************************************************************************)
EXTENDS Sessions, TLC

CONSTANTS p1, p2

Strict == [idle |-> 2, max |-> 4]
Lax == [idle |-> 3, max |-> 7]
StrictOrLax == {Strict, Lax}

MCMode(s, f, l, u, n) == [serial |-> s, fails |-> f, logins |-> l, uses |-> u, updates |-> n]
(* One person's session over its life; two requests at a time; the limiter.*)
AllModes == {MCMode(TRUE, FALSE, 1, 4, 1), MCMode(FALSE, TRUE, 1, 3, 1),
             MCMode(FALSE, FALSE, 6, 0, 0)}

Symmetric == Permutations({p1, p2})
=============================================================================
