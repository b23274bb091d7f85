------------------------------ MODULE Delivery ------------------------------
(***************************************************************************)
(* Collector and Ingest composed: the agent's requests are some of those   *)
(* the platform serves, the others come from senders that repeat what they *)
(* like.  Requests may not arrive, and answers may get lost or come after  *)
(* the agent has given up.                                                 *)
(***************************************************************************)
EXTENDS Collector, Ingest

(* The lines a log may have: new ones up to mode.lines, and the backlog.   *)
Lines(m) == (1 .. m.lines) \union (1 .. m.backlog)

(* A line's event has an id of its own, which no other sender uses.        *)
ASSUME DeliveryAssumption ==
    /\ "none" \notin Senders
    /\ \A m \in Modes :
         /\ {m.lines, m.backlog} \subseteq Nat
         /\ m.reachable => Lines(m) \subseteq Events
         /\ m.batches \subseteq Seq(Events)
         /\ \A events \in m.batches : \A i \in DOMAIN events : events[i] \notin Lines(m)

VARIABLES requests   \* how many of theirs came, a bound of the model

vars == <<collectorVars, ingestVars, requests>>

Init ==
    /\ CollectorInit /\ IngestInit /\ requests = 0
    /\ DOMAIN sink = mode.sinks

AgentOnly == UNCHANGED <<ingestVars, requests>>
IngestOnly == UNCHANGED <<collectorVars, requests>>

(* The request arrives. *)
Deliver(s) ==
    /\ mode.reachable /\ sending # NoRequestOut /\ sending.via = "none"
    /\ Submit(s, sending.events) /\ sending' = [sending EXCEPT !.via = s]
    /\ UNCHANGED <<mode, gatewayVars, tail, chan, batch, rate, running, requests>>

(* Another sender's request. *)
Foreign(s) ==
    /\ requests < mode.requests /\ requests' = requests + 1
    /\ \E events \in mode.batches : Submit(s, events)
    /\ UNCHANGED collectorVars

(* The number of dropped events SendEvents returns: for an error status,   *)
(* all of them.                                                            *)
Reported(answer) == IF answer.code >= 300 THEN Len(sending.events) ELSE answer.dropped

(* The answer is written; the agent gets it if it still waits for it. *)
Reply(s) ==
    /\ Answer(s) /\ UNCHANGED requests
    /\ IF sending.via = s THEN Finish(Reported(Status(sub[s].result)))
       ELSE UNCHANGED collectorVars

(* The 10 s are over, or the connection broke, or the agent is stopped: no *)
(* answer comes.                                                           *)
GiveUp(s) ==
    /\ sending.via = s /\ Finish(0) /\ Leave(s)
    /\ UNCHANGED requests

StopRunning ==
    /\ StopAgent /\ UNCHANGED requests
    /\ IF sending.via \in Senders THEN Leave(sending.via) ELSE UNCHANGED ingestVars

ForeignGivesUp(s) == mode.leaves /\ sending.via # s /\ Leave(s) /\ IngestOnly

(* mode.stops, mode.time: bounds of the model. *)
Platform == IngestNext /\ (Stop => mode.stops) /\ clock' <= mode.time /\ IngestOnly

Next ==
    \/ AgentOnly /\ (Gateway \/ FollowLog \/ Collect \/ Flush \/ Unreachable)
    \/ Platform \/ StopRunning
    \/ \E s \in Senders : Deliver(s) \/ Foreign(s) \/ Reply(s) \/ GiveUp(s) \/ ForeignGivesUp(s)

(* The agent's goroutines and the platform's workers are scheduled; no     *)
(* request needs to arrive.                                                *)
Spec ==
    /\ Init /\ [][Next]_vars
    /\ WF_vars(FollowLog /\ AgentOnly)
    /\ \A w \in Workers : WF_vars(Work(w) /\ IngestOnly) /\ WF_vars(Done(w) /\ IngestOnly)

-----------------------------------------------------------------------------
(* Whatever is lost of a batch that the platform has answered is counted   *)
(* in the drop rate the agent reports next, although the platform may have *)
(* answered with a status or with a count (SendEvents, ingestStatus).      *)
LossIsCounted ==
    [][\A s \in Senders : Reply(s) /\ sending.via = s =>
          LET batched == {sending.events[i] : i \in DOMAIN sending.events}
          IN  rate' >= Cardinality({e \in batched : at[e] = -1})]_vars
=============================================================================
