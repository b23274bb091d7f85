----------------------------- MODULE Connector -----------------------------
(***************************************************************************)
(* What the SOAR manager takes a list-keeping connector to be (the comment *)
(* of soar.Adapter, soar.go:48-60): a set of enforced addresses that       *)
(* concurrent calls change one at a time and idempotently.  A call that    *)
(* succeeds has had its effect; one that fails may have had it, once, or   *)
(* not at all; and no call undoes the effect of another.                   *)
(***************************************************************************)
CONSTANTS Callers, Addrs

VARIABLES
    enforced,   \* the addresses that are blocked
    call        \* the last call of each caller, and how it ended

cvars == <<enforced, call>>

Call == [op : {"block", "unblock"}, addr : Addrs, st : {"pending", "ok", "failed"}]
NoCall == [op |-> "none"]

Effect(c, S) == IF c.op = "block" THEN S \cup {c.addr} ELSE S \ {c.addr}
Pending(t) == call[t] # NoCall /\ call[t].st = "pending"
Answer(t, st) == call' = [call EXCEPT ![t].st = st]

CInit == enforced = {} /\ call = [t \in Callers |-> NoCall]

Begin(t) ==
    /\ ~Pending(t)
    /\ \E c \in Call : c.st = "pending" /\ call' = [call EXCEPT ![t] = c]
    /\ UNCHANGED enforced

Succeed(t) ==
    /\ Pending(t)
    /\ enforced' = Effect(call[t], enforced)
    /\ Answer(t, "ok")

Fail(t) ==
    /\ Pending(t)
    /\ enforced' \in {enforced, Effect(call[t], enforced)}
    /\ Answer(t, "failed")

(* The platform stops: the calls of some callers end, with no effect. *)
Abandon ==
    \E P \in SUBSET Callers :
        /\ \A t \in P : Pending(t)
        /\ call' = [t \in Callers |-> IF t \in P THEN [call[t] EXCEPT !.st = "failed"]
                                      ELSE call[t]]
        /\ UNCHANGED enforced

CNext == (\E t \in Callers : Begin(t) \/ Succeed(t) \/ Fail(t)) \/ Abandon

CSpec == CInit /\ [][CNext]_cvars
=============================================================================
