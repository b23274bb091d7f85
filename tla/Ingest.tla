------------------------------- MODULE Ingest -------------------------------
(***************************************************************************)
(* The platform's intake of events: the batch handlers of server.go, the   *)
(* queue, its workers and the table of ids (ingest/pipeline.go), the sinks *)
(* the handler feeds (stream/) and the order in which cmd/main.go shuts    *)
(* them down.                                                              *)
(***************************************************************************)
EXTENDS Integers, Sequences, FiniteSets

CONSTANTS
    Events, NoEvent,
    Senders,         \* requests that are served at a time
    Workers,
    QueueSize,
    Room, TTL,       \* maxSeen, seenTTL
    Sinks,           \* Kafka and ClickHouse, as far as they are configured
    SinkSize, SinkBatch

ASSUME IngestAssumption ==
    /\ NoEvent \notin Events
    /\ IsFiniteSet(Senders) /\ IsFiniteSet(Workers)
    /\ {QueueSize, Room, SinkSize, SinkBatch} \subseteq Nat \ {0}
    /\ TTL \in Nat
    /\ Sinks \subseteq {"kafka", "clickhouse"}

VARIABLES
    clock,
    queue,
    seen,     \* when each id was put into the table, -1 if it is not there
    sub,      \* each request: whether its caller is gone, the events left,
              \* the one at hand, the result
    doing,    \* the event each worker handles
    phase,    \* serving, stopping, closing, exited
    sink,     \* records in the queue and the batch of each configured sink
    at        \* when each event was last put into the queue

ingestVars == <<clock, queue, seen, sub, doing, phase, sink, at>>

NoResult == [accepted |-> 0, dropped |-> 0, duplicates |-> 0]
NoRequest == [open |-> FALSE, gone |-> FALSE, rest |-> <<>>, event |-> NoEvent, result |-> NoResult]

(* late: records written after the loop had ended.                         *)
NewSink == [state |-> "open", queued |-> 0, batch |-> 0, late |-> 0]

(* New: a sink for each target that is configured.                         *)
Streamers == UNION {[configured -> {NewSink}] : configured \in SUBSET Sinks}

IngestInit ==
    /\ clock = 0 /\ queue = <<>>
    /\ seen = [e \in Events |-> -1] /\ at = [e \in Events |-> -1]
    /\ sub = [s \in Senders |-> NoRequest]
    /\ doing = [w \in Workers |-> NoEvent]
    /\ phase = "serving"
    /\ sink \in Streamers

-----------------------------------------------------------------------------
(* Submit.                                                                 *)

(* IngestBatchHandler; the server takes no new request once it shuts down. *)
Submit(s, events) ==
    /\ phase = "serving" /\ ~sub[s].open /\ events # <<>>
    /\ sub' = [sub EXCEPT ![s] = [NoRequest EXCEPT !.open = TRUE, !.rest = events]]
    /\ UNCHANGED <<clock, queue, seen, doing, phase, sink, at>>

Marked(table) == {e \in Events : table[e] >= 0}

(* Mutant of Pruned: the fresh ones are forgotten. *)
PrunedFresh == [e \in Events |-> IF seen[e] < clock - TTL THEN seen[e] ELSE -1]

(* pruneSeenLocked *)
Pruned == [e \in Events |-> IF seen[e] < clock - TTL THEN -1 ELSE seen[e]]

(* isDuplicate: an id that is not in the table is put there if there is    *)
(* room, which it makes when there is none.                                *)
Check(s) ==
    LET e == Head(sub[s].rest)
        table == IF Cardinality(Marked(seen)) >= Room THEN Pruned ELSE seen
    IN  /\ sub[s].rest # <<>> /\ sub[s].event = NoEvent
        /\ IF seen[e] >= 0
           THEN /\ sub' = [sub EXCEPT ![s].rest = Tail(@), ![s].result.duplicates = @ + 1]
                /\ UNCHANGED seen
           ELSE /\ sub' = [sub EXCEPT ![s].event = e, ![s].rest = Tail(@)]
                /\ seen' = IF Cardinality(Marked(table)) < Room
                           THEN [table EXCEPT ![e] = clock] ELSE table
        /\ UNCHANGED <<clock, queue, doing, phase, sink, at>>

(* Mutant of Forgotten: a dropped event stays in the table. *)
ForgottenNot(e) == seen

(* markDropped *)
Forgotten(e) == [seen EXCEPT ![e] = -1]

(* The caller has waited long enough, or its connection broke. *)
Leave(s) ==
    /\ sub[s].open /\ ~sub[s].gone /\ sub' = [sub EXCEPT ![s].gone = TRUE]
    /\ UNCHANGED <<clock, queue, seen, doing, phase, sink, at>>

(* The select: into the queue, or dropped if it is full or the caller gone. *)
Offer(s) ==
    LET e == sub[s].event
    IN  /\ e # NoEvent
        /\ \/ /\ Len(queue) < QueueSize /\ queue' = Append(queue, e)
              /\ at' = [at EXCEPT ![e] = clock]
              /\ sub' = [sub EXCEPT ![s].event = NoEvent, ![s].result.accepted = @ + 1]
              /\ UNCHANGED seen
           \/ /\ Len(queue) = QueueSize \/ sub[s].gone
              /\ sub' = [sub EXCEPT ![s].event = NoEvent, ![s].result.dropped = @ + 1]
              /\ seen' = Forgotten(e)
              /\ UNCHANGED <<queue, at>>
        /\ UNCHANGED <<clock, doing, phase, sink>>

Submitted(s) == sub[s].open /\ sub[s].rest = <<>> /\ sub[s].event = NoEvent

(* Mutant of Status: every batch is answered with 202 and without a count. *)
StatusFine(r) == [code |-> 202, dropped |-> 0]

(* ingestStatus, and the count of drops in the body. *)
Status(r) == IF r.accepted = 0 /\ r.dropped > 0 THEN [code |-> 503, dropped |-> 0]
             ELSE [code |-> 202, dropped |-> r.dropped]

(* The answer is sent, to whoever still waits for it. *)
Answer(s) ==
    /\ Submitted(s) /\ sub' = [sub EXCEPT ![s] = NoRequest]
    /\ UNCHANGED <<clock, queue, seen, doing, phase, sink, at>>

(* cleanupSeen *)
CleanupSeen ==
    /\ phase = "serving" /\ seen' = Pruned
    /\ UNCHANGED <<clock, queue, sub, doing, phase, sink, at>>

(* Between the two locks of Submit no time to speak of passes. *)
Tick ==
    /\ clock' = clock + 1
    /\ \A s \in Senders : sub[s].event = NoEvent
    /\ UNCHANGED <<queue, seen, sub, doing, phase, sink, at>>

-----------------------------------------------------------------------------
(* Workers and sinks.                                                      *)

(* Publish and Write never wait: a record that finds the queue full is     *)
(* dropped.                                                                *)
Put(k) ==
    IF sink[k].queued = SinkSize THEN sink[k]
    ELSE IF sink[k].state = "closed" THEN [sink[k] EXCEPT !.queued = @ + 1, !.late = @ + 1]
    ELSE [sink[k] EXCEPT !.queued = @ + 1]

PutTo(name) == sink' = [k \in DOMAIN sink |-> IF k = name THEN Put(k) ELSE sink[k]]

(* A worker takes an event and publishes it raw. *)
Work(w) ==
    /\ phase # "exited" /\ doing[w] = NoEvent /\ queue # <<>>
    /\ doing' = [doing EXCEPT ![w] = Head(queue)] /\ queue' = Tail(queue)
    /\ PutTo("kafka")
    /\ UNCHANGED <<clock, seen, sub, phase, at>>

(* The rest of the handler, which ends with the enriched record. *)
Done(w) ==
    /\ phase # "exited" /\ doing[w] # NoEvent
    /\ doing' = [doing EXCEPT ![w] = NoEvent]
    /\ PutTo("clickhouse")
    /\ UNCHANGED <<clock, queue, seen, sub, phase, at>>

(* Send what is in the batch; a batch that fails is counted and not kept.  *)
Sent(k) == [k EXCEPT !.batch = 0]

(* The loop takes a record, and sends when the batch is full. *)
SinkTake(k) ==
    LET taken == [sink[k] EXCEPT !.queued = @ - 1, !.batch = @ + 1]
    IN  /\ sink[k].state # "closed" /\ sink[k].queued > 0 /\ phase # "exited"
        /\ sink' = [sink EXCEPT ![k] = IF taken.batch >= SinkBatch THEN Sent(taken) ELSE taken]
        /\ UNCHANGED <<clock, queue, seen, sub, doing, phase, at>>

(* The ticker sends what there is. *)
SinkFlush(k) ==
    /\ sink[k].state = "open" /\ sink[k].batch > 0 /\ phase # "exited"
    /\ sink' = [sink EXCEPT ![k] = Sent(@)]
    /\ UNCHANGED <<clock, queue, seen, sub, doing, phase, at>>

-----------------------------------------------------------------------------
(* Shutdown.                                                               *)

(* cancel: workers may stop, and the server takes no more requests. *)
Stop ==
    /\ phase = "serving" /\ phase' = "stopping"
    /\ UNCHANGED <<clock, queue, seen, sub, doing, sink, at>>

(* Shutdown and FlushAll are over, the requests served or given up; Close  *)
(* begins.                                                                 *)
BeginClose ==
    /\ phase = "stopping" /\ phase' = "closing"
    /\ UNCHANGED <<clock, queue, seen, sub, doing, sink, at>>

(* Streamer.Close: Kafka first. *)
CloseSink(k) ==
    /\ phase = "closing" /\ sink[k].state = "open"
    /\ k = "clickhouse" => \A i \in DOMAIN sink \ {k} : sink[i].state = "closed"
    /\ sink' = [sink EXCEPT ![k].state = "closing"]
    /\ UNCHANGED <<clock, queue, seen, sub, doing, phase, at>>

(* Mutant of Drained: the loop ends at once. *)
DrainedNever(k) == TRUE

(* The loop finds the queue empty. *)
Drained(k) == sink[k].queued = 0

SinkClosed(k) ==
    /\ sink[k].state = "closing" /\ Drained(k) /\ phase # "exited"
    /\ sink' = [sink EXCEPT ![k] = [Sent(@) EXCEPT !.state = "closed"]]
    /\ UNCHANGED <<clock, queue, seen, sub, doing, phase, at>>

Exit ==
    /\ phase = "closing" /\ \A k \in DOMAIN sink : sink[k].state = "closed"
    /\ phase' = "exited"
    /\ UNCHANGED <<clock, queue, seen, sub, doing, sink, at>>

IngestNext ==
    \/ Tick \/ CleanupSeen \/ Stop \/ BeginClose \/ Exit
    \/ \E s \in Senders : Check(s) \/ Offer(s)
    \/ \E w \in Workers : Work(w) \/ Done(w)
    \/ \E k \in DOMAIN sink : SinkTake(k) \/ SinkFlush(k) \/ CloseSink(k) \/ SinkClosed(k)

-----------------------------------------------------------------------------
(* Properties.                                                             *)

(* The promise of Intake, refined: an event is held while it is in the     *)
(* queue or with a worker.                                                 *)
Holding(e) == Cardinality({i \in DOMAIN queue : queue[i] = e})
              + Cardinality({w \in Workers : doing[w] = e})

Promise == INSTANCE Intake WITH
    held <- [e \in Events |-> Holding(e)],
    stopped <- phase # "serving",
    Slack <- Cardinality(Senders) - 1

(* Whatever requests repeat an event at whatever time, it is handled once  *)
(* for each time it was taken, is not taken twice within TTL, and is       *)
(* handled in the end while the platform runs (Pipeline).                  *)
KeepsIntake == Promise!Spec

(* A sender told that its event is a duplicate can rely on it: the event   *)
(* was taken, unless another request has it in hand at that moment         *)
(* (isDuplicate, markDropped).                                             *)
DuplicateWasTaken ==
    [][\A s \in Senders : sub'[s].result.duplicates > sub[s].result.duplicates =>
          LET e == Head(sub[s].rest)
          IN  at[e] >= 0 \/ \E o \in Senders \ {s} : sub[o].event = e]_ingestVars

(* When the process ends, every record that a sink took while its loop     *)
(* ran has been sent (loop, Close).                                  *)
FlushedAtExit ==
    phase = "exited" => \A k \in DOMAIN sink : sink[k].batch = 0 /\ sink[k].queued <= sink[k].late
=============================================================================
