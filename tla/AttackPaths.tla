---------------------------- MODULE AttackPaths ----------------------------
(***************************************************************************)
(* Attack of platform/internal/graph/attack.go and its handler: alerts are *)
(* grouped by source, the most severe sources are shown, each with its     *)
(* alerts in order of time.                                                *)
(*                                                                         *)
(* An alert has id, src, account, severity (1 low to 4 critical), score,   *)
(* at and status; the stages of the attack chain are left out.             *)
(***************************************************************************)
EXTENDS Integers, Sequences, FiniteSets, Functions, Slices

CONSTANTS NoIP, NoAccount, NoId

GroupOf(a) ==
    IF a.src # NoIP THEN <<"source", a.src>>
    ELSE IF a.account # NoAccount THEN <<"account", a.account>> ELSE <<"alert", a.id>>

Group(refs, k) == Selected(refs, LAMBDA a : GroupOf(a) = k)

(* Keys in the order of their first alerts. *)
Keys(refs) ==
    LET firsts == {i \in DOMAIN refs : \A j \in DOMAIN refs :
                      j < i => GroupOf(refs[j]) # GroupOf(refs[i])}
    IN  KeptAt([i \in DOMAIN refs |-> GroupOf(refs[i])], firsts)

Highest(S) == CHOOSE x \in S : \A y \in S : x >= y

Worse(refs, k, l) ==
    LET Of(key, Field(_)) == Highest({Field(a) : a \in Range(Group(refs, key))})
        sk == Of(k, LAMBDA a : a.severity)   pk == Of(k, LAMBDA a : a.score)
        sl == Of(l, LAMBDA a : a.severity)   pl == Of(l, LAMBDA a : a.score)
    IN  sk > sl \/ (sk = sl /\ pk > pl)

(* AttackGraphHandler: alerts with the status "closed", which no alert is  *)
(* ever given, only when they are asked for.                               *)
Refs(alerts, asked) == Selected(alerts, LAMBDA a : a.status # "closed" \/ a.id = asked)

Limited(keys, limit) == SubSeq(keys, 1, IF Len(keys) < limit THEN Len(keys) ELSE limit)

Wanted(refs, keys, asked) ==
    IF asked = NoId THEN keys
    ELSE Selected(keys, LAMBDA k : \E a \in Range(Group(refs, k)) : a.id = asked)

(* Mutant of Shown: the limit is applied before the one that is asked for is looked up. *)
ShownLimitedFirst(refs, asked, limit) ==
    Wanted(refs, Limited(Sorted(Keys(refs), LAMBDA k, l : Worse(refs, k, l)), limit), asked)

Shown(refs, asked, limit) ==
    Limited(Sorted(Wanted(refs, Keys(refs), asked), LAMBDA k, l : Worse(refs, k, l)), limit)

PathOf(refs, k) == Sorted(Group(refs, k), LAMBDA a, b : a.at < b.at)
=============================================================================
