------------------------------- MODULE MCSoar -------------------------------
(***************************************************************************)
(* Values of Soar's constants for TLC.                                     *)
(***************************************************************************)
EXTENDS Soar

CONSTANTS t1, t2, a1, kong, waf

MCPolicy(dry, conns) == [dry |-> dry, conns |-> conns, protected |-> {}]

(* One configuration that never changes, really enforcing. *)
RealKong == {MCPolicy(FALSE, {kong})}
(* Configurations that a restart may switch between. *)
DryOrReal == {MCPolicy(TRUE, {waf}), MCPolicy(FALSE, {waf})}
=============================================================================
