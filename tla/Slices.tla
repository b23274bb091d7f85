------------------------------- MODULE Slices -------------------------------
(***************************************************************************)
(* What the Go code does with slices: sort.SliceStable, and loops that     *)
(* append what they keep.                                                  *)
(***************************************************************************)
EXTENDS Integers, Sequences, FiniteSets

(* The members of S in the order of R, a set of pairs. *)
Arranged(S, R) ==
    [p \in 1..Cardinality(S) |->
        CHOOSE i \in S : Cardinality({j \in S : <<j, i>> \in R}) = p - 1]

Ascending(S) == {x \in S \X S : x[1] < x[2]}

(* Members in their order, equal ones as they came. *)
Stable(s, Before(_, _)) ==
    {x \in (DOMAIN s) \X (DOMAIN s) :
        \/ Before(s[x[1]], s[x[2]])
        \/ x[1] < x[2] /\ ~Before(s[x[2]], s[x[1]])}

Sorted(s, Before(_, _)) ==
    LET order == Arranged(DOMAIN s, Stable(s, Before))
    IN  [p \in DOMAIN s |-> s[order[p]]]

(* The members at some places, as they came. *)
KeptAt(s, places) ==
    LET order == Arranged(places, Ascending(places))
    IN  [p \in DOMAIN order |-> s[order[p]]]

Selected(s, Keep(_)) == KeptAt(s, {i \in DOMAIN s : Keep(s[i])})
=============================================================================
