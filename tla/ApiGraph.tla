------------------------------ MODULE ApiGraph ------------------------------
(***************************************************************************)
(* The graphs of platform/internal/graph: who calls which service and      *)
(* endpoint and which sensitive fields come back (nodes, edges), what each *)
(* source touched (actors, byIP), bounded by caps and pruned by age; and   *)
(* the attack paths read from alerts (attack.go).                          *)
(*                                                                         *)
(* An observation has src, account, service, path, fields, whether it      *)
(* failed, and the event's own time "at", which may lie well in the past.   *)
(* Volumes, labels and the errors of nodes and edges are left out.         *)
(***************************************************************************)
EXTENDS Integers, Sequences, FiniteSets, Functions, FiniteSetsExt, Tables, Slices

CONSTANTS
    NoIP, NoAccount,
    MaxNodes, MaxEdges, MaxActors, MaxTouches,   \* 5000, 20000, 5000, 200
    EndpointsPerActor,                           \* 8
    Retention                                    \* seven days

ASSUME GraphAssumption ==
    {MaxNodes, MaxEdges, MaxActors, MaxTouches, Retention} \subseteq Nat /\ EndpointsPerActor \in Nat \ {0}

VARIABLES
    flow,    \* nodes and edges with their calls and when they were last seen;
             \* how many observations a full table turned away
    actors,  \* per source and account: when last seen, calls, endpoints touched
    byIP     \* the actors of each address, in the order they came

graphVars == <<flow, actors, byIP>>

GraphInit ==
    /\ flow = [nodes |-> Nothing, edges |-> Nothing, dropped |-> 0]
    /\ actors = Nothing /\ byIP = Nothing

Later(a, b) == IF a >= b THEN a ELSE b

Fresh == [calls |-> 0, last |-> -1]

Again(old, at) == [calls |-> old.calls + 1, last |-> Later(old.last, at)]

TouchNode(g, id, at) ==
    IF id \notin DOMAIN g.nodes /\ Cardinality(DOMAIN g.nodes) >= MaxNodes
    THEN [g EXCEPT !.dropped = @ + 1]
    ELSE [g EXCEPT !.nodes = Put(@, id, Again(Get(@, id, Fresh), at))]

TouchEdge(g, from, to, at) ==
    IF <<from, to>> \notin DOMAIN g.edges /\ Cardinality(DOMAIN g.edges) >= MaxEdges
    THEN [g EXCEPT !.dropped = @ + 1]
    ELSE [g EXCEPT !.edges = Put(@, <<from, to>>, Again(Get(@, <<from, to>>, Fresh), at))]

(* Mutant of Link: an end that found no room is not noticed. *)
LinkAnyway(g, from, to, at) == TouchEdge(g, from, to, at)

(* Only between nodes that found room. *)
Link(g, from, to, at) ==
    IF {from, to} \subseteq DOMAIN g.nodes THEN TouchEdge(g, from, to, at) ELSE g

Client(o) == <<"client", o.src>>
Service(o) == <<"service", o.service>>
Endpoint(o) == <<"endpoint", o.service, o.path>>

Expose(g, o, f) == Link(TouchNode(g, f, o.at), Endpoint(o), f, o.at)

(* Observe: the client, service and endpoint, then each sensitive field of *)
(* the exchange, which may be named twice.                                 *)
Observed(g, o) ==
    LET touched == TouchNode(TouchNode(TouchNode(g, Client(o), o.at), Service(o), o.at), Endpoint(o), o.at)
        linked == Link(Link(touched, Client(o), Service(o), o.at), Service(o), Endpoint(o), o.at)
        exposed[i \in 0..Len(o.fields)] ==
            IF i = 0 THEN linked ELSE Expose(exposed[i - 1], o, <<"field", o.fields[i]>>)
    IN  IF Endpoint(o) \in DOMAIN linked.nodes THEN exposed[Len(o.fields)] ELSE linked

NewActor == [calls |-> 0, last |-> -1, touches |-> Nothing]

Touching(touches, o) ==
    IF Endpoint(o) \notin DOMAIN touches /\ Cardinality(DOMAIN touches) >= MaxTouches
    THEN touches
    ELSE LET old == Get(touches, Endpoint(o), [calls |-> 0, failed |-> FALSE, fields |-> {}])
         IN  Put(touches, Endpoint(o), [calls |-> old.calls + 1, failed |-> old.failed \/ o.failed,
                                         fields |-> old.fields \cup Range(o.fields)])

(* Observe, under the lock: the flow graph, then touchActor, which turns   *)
(* away a source that finds no room.                                       *)
Observe(o) ==
    LET key == <<o.src, o.account>>
        g == Observed(flow, o)
        known == key \in DOMAIN actors
        a == Get(actors, key, NewActor)
    IN  IF o.src = NoIP
        THEN flow' = g /\ UNCHANGED <<actors, byIP>>
        ELSE IF ~known /\ Cardinality(DOMAIN actors) >= MaxActors
        THEN flow' = [g EXCEPT !.dropped = @ + 1] /\ UNCHANGED <<actors, byIP>>
        ELSE /\ flow' = g
             /\ actors' = Put(actors, key, [calls |-> a.calls + 1, last |-> Later(a.last, o.at),
                                            touches |-> Touching(a.touches, o)])
             /\ byIP' = IF known THEN byIP ELSE Put(byIP, o.src, Append(Get(byIP, o.src, <<>>), key))

(* Mutant of Unindexed: the address is forgotten with its first actor. *)
UnindexedAll(index, gone) == Without(index, {k[1] : k \in gone})

(* unindex: an address without actors is dropped. *)
Unindexed(index, gone) ==
    LET Rest(ip) == Selected(index[ip], LAMBDA k : k \notin gone)
    IN  [ip \in {x \in DOMAIN index : Rest(x) # <<>>} |-> Rest(ip)]

(* prune: edges first, then the nodes that no edge needs, then actors.     *)
Prune(cutoff) ==
    LET edges == Without(flow.edges, {e \in DOMAIN flow.edges : flow.edges[e].last < cutoff})
        connected == UNION {{e[1], e[2]} : e \in DOMAIN edges}
        oldNodes == {n \in DOMAIN flow.nodes : flow.nodes[n].last < cutoff} \ connected
        oldActors == {k \in DOMAIN actors : actors[k].last < cutoff}
    IN  /\ flow' = [flow EXCEPT !.edges = edges, !.nodes = Without(@, oldNodes)]
        /\ actors' = Without(actors, oldActors)
        /\ byIP' = Unindexed(byIP, oldActors)

Exposing(g) == {e[1] : e \in {x \in DOMAIN g.edges : x[2][1] = "field"}}

(* The edges that belong to a view; business is all of them.               *)
InView(g, view, e) ==
    CASE view = "service" -> e[2][1] = "endpoint"
      [] view = "data" -> e[2][1] = "field" \/ (e[2][1] = "endpoint" /\ e[2] \in Exposing(g))
      [] OTHER -> TRUE

Busiest(g, S, limit) ==
    IF Cardinality(S) <= limit THEN S
    ELSE CHOOSE T \in kSubset(limit, S) : \A e \in T, f \in S \ T : g.edges[e].calls >= g.edges[f].calls

(* Flow: the busiest edges of a view. *)
Flow(g, view, minCalls, limit) ==
    LET candidates == {e \in DOMAIN g.edges : /\ g.edges[e].calls >= minCalls
                                              /\ {e[1], e[2]} \subseteq DOMAIN g.nodes
                                              /\ InView(g, view, e)}
    IN  Busiest(g, candidates, limit)

(* Mutant of Higher: the busiest endpoints first. *)
HigherByCalls(t, u) == t.calls > u.calls

(* Sensitive endpoints first, then those that failed, then the busiest.    *)
Higher(t, u) ==
    LET score(x) == (IF x.fields # {} THEN 2 ELSE 0) + (IF x.failed THEN 1 ELSE 0)
    IN  score(t) > score(u) \/ (score(t) = score(u) /\ t.calls > u.calls)

(* topTouches; equal ones in the order of their names.                     *)
TopTouches(touches) ==
    IF Cardinality(DOMAIN touches) <= EndpointsPerActor THEN DOMAIN touches
    ELSE CHOOSE T \in kSubset(EndpointsPerActor, DOMAIN touches) :
            \A e \in T, f \in DOMAIN touches \ T : ~Higher(touches[f], touches[e])

(* What Attack draws of an address: the accounts it used and the endpoints *)
(* each of them touched.                                                   *)
AccountsAt(ip) == {k[2] : k \in Range(Get(byIP, ip, <<>>))} \ {NoAccount}
EndpointsOf(k) == TopTouches(actors[k].touches)
=============================================================================
