------------------------------- MODULE Traffic -------------------------------
(***************************************************************************)
(* What processed events leave behind: each goes to the asset inventory    *)
(* (Assets) and to the graphs (ApiGraph); alerts raised from them are      *)
(* grouped into attack paths (AttackPaths).  Graphs age and are lost in a  *)
(* restart, assets are saved and come back.                                *)
(***************************************************************************)
EXTENDS ApiGraph, Assets

CONSTANTS
    Modes,    \* circumstances: the observations, alerts, how many of both, until when
    NoId

(* What is observed is a record, times and durations are numbers, and the  *)
(* severities and scores of alerts are ranked by number.                   *)
ASSUME TrafficAssumption ==
    /\ NoId \notin Nat
    /\ \A m \in Modes :
         /\ m.until \in Nat /\ m.ages \subseteq Nat
         /\ \A o \in m.observations :
              /\ o = [src |-> o.src, account |-> o.account, service |-> o.service, path |-> o.path,
                      fields |-> o.fields, failed |-> o.failed, ms |-> o.ms, at |-> o.at]
              /\ o.fields \in Seq(Range(o.fields)) /\ o.ms \in Nat
         /\ \A a \in m.alerts :
              /\ a = [id |-> a.id, src |-> a.src, account |-> a.account, severity |-> a.severity,
                      score |-> a.score, at |-> a.at, status |-> a.status]
              /\ a.severity \in Int /\ a.score \in Int

VARIABLES mode, now, left, alerts, restarts

Paths == INSTANCE AttackPaths

trafficVars == <<graphVars, assetVars, mode, now, left, alerts, restarts>>

TrafficInit ==
    /\ GraphInit /\ AssetsInit
    /\ mode \in Modes
    /\ now = 0 /\ left = mode.take /\ alerts = <<>> /\ restarts = 0

(* A worker's processIngestEvent, as far as it reaches these two; both     *)
(* stores have a lock of their own and nothing is read across.             *)
Process ==
    /\ left > 0 /\ left' = left - 1
    /\ \E o \in mode.observations, age \in mode.ages :
         /\ age <= now
         /\ Observe([o EXCEPT !.at = now - age]) /\ Count(o)
    /\ UNCHANGED <<mode, now, alerts, restarts>>

(* An alert is raised, at any time: List returns them in no order of time. *)
Raise ==
    /\ left > 0 /\ left' = left - 1
    /\ \E a \in mode.alerts, at \in 0..mode.until :
         alerts' = Append(alerts, [a EXCEPT !.at = at, !.id = Len(alerts) + 1])
    /\ UNCHANGED <<graphVars, assetVars, mode, now, restarts>>

(* SetStatus, for the ticket that is closed or reopened; the other states  *)
(* an alert can be in make no difference here.                             *)
SetStatus ==
    /\ \E i \in DOMAIN alerts, status \in {"open", "resolved"} :
         /\ alerts[i].status # status
         /\ alerts' = [alerts EXCEPT ![i].status = status]
    /\ UNCHANGED <<graphVars, assetVars, mode, now, left, restarts>>

(* Cleanup of the graphs. *)
Clean ==
    /\ Prune(now - Retention)
    /\ <<flow, actors, byIP>>' # <<flow, actors, byIP>>
    /\ UNCHANGED <<assetVars, mode, now, left, alerts, restarts>>

(* Flush *)
Flush ==
    /\ SaveAssets /\ saved' # saved
    /\ UNCHANGED <<graphVars, mode, now, left, alerts, restarts>>

Restart ==
    /\ restarts < mode.restarts /\ restarts' = restarts + 1
    /\ Load
    /\ flow' = [nodes |-> Nothing, edges |-> Nothing, dropped |-> 0]
    /\ actors' = Nothing /\ byIP' = Nothing
    /\ UNCHANGED <<mode, now, left, alerts>>

Tick ==
    /\ now < mode.until /\ now' = now + 1
    /\ UNCHANGED <<graphVars, assetVars, mode, left, alerts, restarts>>

TrafficNext == Process \/ Raise \/ SetStatus \/ Clean \/ Flush \/ Restart \/ Tick

TrafficSpec == TrafficInit /\ [][TrafficNext]_trafficVars

-----------------------------------------------------------------------------
(* Properties.                                                             *)

(* Flow may follow every edge (it does so unchecked for fields): both ends *)
(* are there, were seen no earlier and, except for fields, which may come  *)
(* twice in one event, were called at least as often.  And the data view,  *)
(* its limit aside, leads from every field it shows back to the endpoint's *)
(* service, whatever the caps turned away, whenever what was pruned, and   *)
(* however late the events came.                                           *)
GraphHangsTogether ==
    /\ \A e \in DOMAIN flow.edges : \A end \in {e[1], e[2]} :
         /\ end \in DOMAIN flow.nodes
         /\ flow.nodes[end].last >= flow.edges[e].last
         /\ e[2][1] # "field" => flow.nodes[end].calls >= flow.edges[e].calls
    /\ LET shown == Flow(flow, "data", 0, MaxEdges)
       IN  \A e \in shown : e[2][1] = "field" => <<<<"service", e[1][2]>>, e[1]>> \in shown

(* What is drawn of a source is what is known of it: the actors found by   *)
(* address are exactly those there are, each once; every account that used *)
(* the address is drawn, and of an actor that got sensitive fields, an     *)
(* endpoint that gave them, however busy the others were.                  *)
ActivityIsDrawn ==
    /\ UNION {Range(byIP[ip]) : ip \in DOMAIN byIP} = DOMAIN actors
    /\ \A ip \in DOMAIN byIP : byIP[ip] # <<>> /\ IsInjective(byIP[ip])
    /\ \A k \in DOMAIN actors :
         LET leaky == {e \in DOMAIN actors[k].touches : actors[k].touches[e].fields # {}}
         IN  /\ k[2] # NoAccount => k[2] \in AccountsAt(k[1])
             /\ leaky # {} => leaky \cap EndpointsOf(k) # {}

(* Whoever asks for an alert, whatever its status, gets the path of its source   *)
(* with the alert on it, however few paths are asked for.                  *)
AskedIsShown ==
    \A asked \in DOMAIN alerts :
        LET refs == Paths!Refs(alerts, asked)
            shown == Paths!Shown(refs, asked, 1)
        IN  Len(shown) = 1 /\ \E a \in Range(Paths!PathOf(refs, shown[1])) : a.id = asked

(* "Closed alerts no longer describe a live attack" (graph_handlers.go:61): *)
(* nobody who asks for all paths gets one with an alert that is resolved.  *)
FinishedAreLeftOut ==
    \A a \in Range(Paths!Refs(alerts, NoId)) : a.status # "resolved"

(* The list of the top callers is what its comment promises: in order, and *)
(* no tracked address outside it has more calls, across restarts too.      *)
TopAreTheMost ==
    \A p \in DOMAIN assets :
        LET st == assets[p]
            out == DOMAIN st.callers \ {st.top[i].ip : i \in DOMAIN st.top}
        IN  /\ \A i \in DOMAIN st.top : st.top[i].calls = st.callers[st.top[i].ip]
            /\ \A i, j \in DOMAIN st.top : i < j =>
                 st.top[i].calls >= st.top[j].calls /\ st.top[i].ip # st.top[j].ip
            /\ \A ip \in out : Len(st.top) = TopCallerCount
                                /\ st.callers[ip] <= st.top[TopCallerCount].calls

(* The 95th percentile is taken over the latest latencies, across restarts *)
(* too: nineteen in twenty of them are no higher, and it is one of them.   *)
PercentileIsOfLatest ==
    \A p \in DOMAIN assets :
        LET st == assets[p]
            first == Later(1, Len(st.recent) - LatencyWindowSize + 1)
            latest == {i \in DOMAIN st.recent : i >= first}
            upTo(x) == Cardinality({i \in latest : st.recent[i] <= x})
        IN  st.recent # <<>> =>
              /\ 20 * upTo(P95(st.window)) >= 19 * Cardinality(latest)
              /\ \E i \in latest : st.recent[i] = P95(st.window)
              /\ 20 * upTo(P95(st.window) - 1) < 19 * Cardinality(latest)
=============================================================================
