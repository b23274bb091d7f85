------------------------------- MODULE Tables -------------------------------
(***************************************************************************)
(* Go maps as functions whose domain grows and shrinks.                    *)
(***************************************************************************)

Nothing == [x \in {} |-> x]
Put(f, k, v) == [x \in DOMAIN f \cup {k} |-> IF x = k THEN v ELSE f[x]]
Without(f, gone) == [x \in DOMAIN f \ gone |-> f[x]]
Get(f, k, default) == IF k \in DOMAIN f THEN f[k] ELSE default
=============================================================================
