------------------------------- MODULE Intake -------------------------------
(***************************************************************************)
(* What the platform promises a sender of events, whatever queue, table    *)
(* and workers keep the promise: an event that was taken is handled, once  *)
(* for each time it was taken, and it is not taken again for TTL, unless   *)
(* about Room events were taken in and just before that time.              *)
(***************************************************************************)
EXTENDS Integers, FiniteSets

CONSTANTS Events, TTL, Room, Slack

VARIABLES
    clock,
    held,     \* how often each event was taken and not handled yet
    at,       \* when it was last taken, -1 for never
    stopped

vars == <<clock, held, at, stopped>>

Init ==
    /\ clock = 0 /\ stopped = FALSE
    /\ held = [e \in Events |-> 0] /\ at = [e \in Events |-> -1]

Recent(e) == at[e] >= 0 /\ clock - at[e] <= TTL

(* The table may have been full when e was taken, of events up to TTL      *)
(* older.  Slack: events that were in it and were refused in the end.      *)
Crowded == Cardinality({e \in Events : at[e] >= 0 /\ clock - at[e] <= 2 * TTL}) + Slack >= Room

Take(e) ==
    /\ ~Recent(e) \/ Crowded
    /\ held' = [held EXCEPT ![e] = @ + 1] /\ at' = [at EXCEPT ![e] = clock]
    /\ UNCHANGED <<clock, stopped>>

Handle(e) ==
    /\ held[e] > 0 /\ held' = [held EXCEPT ![e] = @ - 1]
    /\ UNCHANGED <<clock, at, stopped>>

Tick == clock' = clock + 1 /\ UNCHANGED <<held, at, stopped>>
Stop == stopped' = TRUE /\ UNCHANGED <<clock, held, at>>

Next == Tick \/ Stop \/ \E e \in Events : Take(e) \/ Handle(e)

(* Handling goes on until the platform stops. *)
Spec == Init /\ [][Next]_vars /\ \A e \in Events : WF_vars(~stopped /\ Handle(e))
=============================================================================
