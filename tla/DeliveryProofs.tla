-------------------------- MODULE DeliveryProofs --------------------------
(***************************************************************************)
(* Proofs about the way of an event from the gateway's log through the     *)
(* agent and the platform's intake to the sinks, for any number of         *)
(* requests, workers, lines and files, and any sizes of the queues, the    *)
(* batches and the table of ids.                                           *)
(***************************************************************************)
EXTENDS Delivery, FiniteSetTheorems, TLAPS

-----------------------------------------------------------------------------
(* Types.                                                                  *)

Seen == 1 .. written   \* the lines there are

Piece == [line : Nat, part : {"whole", "start", "rest"}]

CollectorTypes ==
    /\ mode \in Modes
    /\ written \in Nat /\ Seen \subseteq Lines(mode)
    /\ half \in BOOLEAN
    /\ fd \in Files \union {NoFile} /\ path \in Files \union {NoFile}
    /\ path # NoFile => path = fd
    /\ half => fd \in Files /\ written \in Seen
    /\ file \in [Files -> Seq(Piece)]
    /\ \A f \in Files : \A i \in DOMAIN file[f] : file[f][i].line \in Seen
    /\ DOMAIN tail = {"pc", "file", "offset", "partial", "last"}
    /\ tail.pc \in {"wait", "drain", "drainAgain", "stat", "open"}
    /\ tail.pc # "wait" => tail.file \in Files
    /\ tail.offset \in Nat /\ tail.partial \in Nat /\ tail.last \in Nat
    /\ chan \in Seq(Seen) /\ batch \in Seq(Seen)
    /\ DOMAIN sending = {"events", "via"} /\ sending.events \in Seq(Seen)

Answered(r) ==
    /\ DOMAIN r = {"accepted", "dropped", "duplicates"}
    /\ r.accepted \in Nat /\ r.dropped \in Nat /\ r.duplicates \in Nat

Request(r) ==
    /\ DOMAIN r = {"open", "gone", "rest", "event", "result"}
    /\ r.open \in BOOLEAN /\ r.gone \in BOOLEAN
    /\ r.rest \in Seq(Events) /\ r.event \in Events \union {NoEvent}
    /\ Answered(r.result)
    /\ ~r.open => r.rest = <<>> /\ r.event = NoEvent

Stream(k) ==
    /\ DOMAIN k = {"state", "queued", "batch", "late"}
    /\ k.state \in {"open", "closing", "closed"}
    /\ k.queued \in Nat /\ k.batch \in Nat /\ k.late \in Nat

IngestTypes ==
    /\ clock \in Nat
    /\ queue \in Seq(Events)
    /\ seen \in [Events -> Int] /\ at \in [Events -> Int]
    /\ DOMAIN sub = Senders /\ \A s \in Senders : Request(sub[s])
    /\ doing \in [Workers -> Events \union {NoEvent}]
    /\ phase \in {"serving", "stopping", "closing", "exited"}
    /\ \A k \in DOMAIN sink : Stream(sink[k])

-----------------------------------------------------------------------------
(* What a step is to the collector and to the intake.                      *)

CollectorStep ==
    \/ Gateway \/ FollowLog \/ Collect \/ Flush \/ StopAgent
    \/ \E n : Finish(n)
    \/ /\ UNCHANGED <<mode, gatewayVars, tail, chan, batch, rate, running>>
       /\ \E s : sending' = [sending EXCEPT !.via = s]

IngestStep ==
    \/ IngestNext
    \/ \E s \in Senders : Answer(s) \/ Leave(s) \/ \E events \in Seq(Events) : Submit(s, events)

LEMMA CollectorMoves == [Next]_vars => CollectorStep \/ UNCHANGED collectorVars
BY DEF Next, vars, AgentOnly, IngestOnly, Platform, Deliver, Foreign, Reply, GiveUp, StopRunning,
   ForeignGivesUp, CollectorStep, Unreachable, collectorVars, gatewayVars, loopVars

LEMMA IngestMoves == CollectorTypes /\ [Next]_vars => IngestStep \/ UNCHANGED ingestVars
<1>. SUFFICES ASSUME CollectorTypes, [Next]_vars PROVE IngestStep \/ UNCHANGED ingestVars
  OBVIOUS
<1>1. ASSUME NEW s \in Senders, Deliver(s) PROVE IngestStep
  <2>1. Seen \subseteq Events
    BY <1>1, DeliveryAssumption DEF Deliver, CollectorTypes
  <2>2. sending.events \in Seq(Events)
    BY <2>1 DEF CollectorTypes
  <2>. QED
    BY <1>1, <2>2 DEF Deliver, IngestStep
<1>2. ASSUME NEW s \in Senders, Foreign(s) PROVE IngestStep
  BY <1>2, DeliveryAssumption DEF Foreign, IngestStep, CollectorTypes
<1>3. ASSUME NEW s \in Senders, Reply(s) \/ GiveUp(s) \/ ForeignGivesUp(s) PROVE IngestStep
  BY <1>3 DEF Reply, GiveUp, ForeignGivesUp, IngestStep
<1>4. CASE Platform
  BY <1>4 DEF Platform, IngestStep
<1>5. CASE StopRunning
  BY <1>5 DEF StopRunning, IngestStep
<1>6. CASE AgentOnly \/ UNCHANGED vars
  BY <1>6 DEF AgentOnly, vars
<1>. QED
  BY <1>1, <1>2, <1>3, <1>4, <1>5, <1>6 DEF Next

LEMMA CollectorTypesInit == Init => CollectorTypes
<1>. SUFFICES ASSUME Init PROVE CollectorTypes
  OBVIOUS
<1>1. mode \in Modes /\ mode.backlog \in Nat /\ written = mode.backlog
  BY DeliveryAssumption DEF Init, CollectorInit
<1>2. chan \in Seq(Seen)
  BY <1>1 DEF Init, CollectorInit, Seen
<1>3. Seen \subseteq Lines(mode)
  BY <1>1 DEF Seen, Lines
<1>4. file \in [Files -> Seq(Piece)] /\ \A f \in Files : DOMAIN file[f] = {}
  BY DEF Init, CollectorInit
<1>5. /\ DOMAIN sending = {"events", "via"} /\ sending.events \in Seq(Seen) /\ batch \in Seq(Seen)
  BY DEF Init, CollectorInit, NoRequestOut
<1>6. /\ DOMAIN tail = {"pc", "file", "offset", "partial", "last"}
      /\ tail.pc = "wait" /\ tail.offset = 0 /\ tail.partial = 0 /\ tail.last = 0
  BY DEF Init, CollectorInit
<1>7. half \in BOOLEAN /\ ~half /\ fd = path /\ path \in Files \union {NoFile}
  BY DEF Init, CollectorInit
<1>. QED
  BY <1>1, <1>2, <1>3, <1>4, <1>5, <1>6, <1>7 DEF CollectorTypes


(* Write puts one piece behind the others of the gateway's file. *)
LEMMA WriteAppends ==
    ASSUME CollectorTypes, fd \in Files, NEW line \in Nat, NEW part \in {"whole", "start", "rest"}, Write(line, part)
    PROVE  /\ file' \in [Files -> Seq(Piece)]
           /\ \A f \in Files : f # fd => file'[f] = file[f]
           /\ Len(file'[fd]) = Len(file[fd]) + 1
           /\ DOMAIN file'[fd] = DOMAIN file[fd] \union {Len(file[fd]) + 1}
           /\ file'[fd][Len(file[fd]) + 1].line = line
           /\ file'[fd][Len(file[fd]) + 1].part = part
           /\ \A i \in DOMAIN file[fd] : file'[fd][i] = file[fd][i]
<1>. DEFINE piece == [line |-> line, part |-> part]
<1>1. /\ file' = [file EXCEPT ![fd] = Append(@, piece)]
      /\ file \in [Files -> Seq(Piece)] /\ piece \in Piece
  BY DEF Write, CollectorTypes, Piece
<1>2. file[fd] \in Seq(Piece)
  BY <1>1
<1>3. /\ Append(file[fd], piece) \in Seq(Piece)
      /\ Len(Append(file[fd], piece)) = Len(file[fd]) + 1
      /\ DOMAIN Append(file[fd], piece) = DOMAIN file[fd] \union {Len(file[fd]) + 1}
      /\ Append(file[fd], piece)[Len(file[fd]) + 1] = piece
      /\ \A i \in DOMAIN file[fd] : Append(file[fd], piece)[i] = file[fd][i]
  BY <1>1, <1>2
<1>4. file'[fd] = Append(file[fd], piece) /\ \A f \in Files : f # fd => file'[f] = file[f]
  BY <1>1
<1>. QED
  BY <1>1, <1>3, <1>4

(* A line is counted when its first piece is written. *)
LEMMA GatewayTypes == CollectorTypes /\ Gateway => CollectorTypes'
<1>. SUFFICES ASSUME CollectorTypes, Gateway PROVE CollectorTypes'
  OBVIOUS
<1>0. UNCHANGED <<mode, tail, chan, batch, sending>>
  BY DEF Gateway, loopVars
<1>1. CASE WriteLine
  <2>1. /\ fd \in Files /\ written' = written + 1 /\ written + 1 \in Nat
        /\ Seen \subseteq Seen' /\ written + 1 \in Seen'
        /\ UNCHANGED <<path, fd>>
    BY <1>1 DEF WriteLine, CollectorTypes, Seen
  <2>2. Seen' \subseteq Lines(mode)
    BY <1>1, <2>1, DeliveryAssumption DEF WriteLine, CollectorTypes, Seen, Lines
  <2>3. PICK part \in {"whole", "start", "rest"} : Write(written + 1, part)
    BY <1>1 DEF WriteLine
  <2>4. /\ file' \in [Files -> Seq(Piece)]
        /\ \A f \in Files : \A i \in DOMAIN file'[f] : file'[f][i].line \in Seen'
    <3>1. \A f \in Files : \A i \in DOMAIN file[f] : file[f][i].line \in Seen'
      BY <2>1 DEF CollectorTypes
    <3>2. /\ file' \in [Files -> Seq(Piece)]
          /\ \A f \in Files : f # fd => file'[f] = file[f]
          /\ DOMAIN file'[fd] = DOMAIN file[fd] \union {Len(file[fd]) + 1}
          /\ file'[fd][Len(file[fd]) + 1].line = written + 1
          /\ \A i \in DOMAIN file[fd] : file'[fd][i] = file[fd][i]
      BY <2>1, <2>3, WriteAppends
    <3>. QED
      BY <2>1, <3>1, <3>2
  <2>5. half' \in BOOLEAN
    BY <1>1 DEF WriteLine, CollectorTypes
  <2>6. chan \in Seq(Seen') /\ batch \in Seq(Seen') /\ sending.events \in Seq(Seen')
    BY <2>1 DEF CollectorTypes
  <2>. QED
    BY <1>0, <2>1, <2>2, <2>4, <2>5, <2>6 DEF CollectorTypes
<1>2. CASE WriteRest
  <2>1. /\ fd \in Files /\ UNCHANGED <<path, fd, written>> /\ half' \in BOOLEAN
        /\ written \in Nat /\ Seen' = Seen
    BY <1>2 DEF WriteRest, CollectorTypes, Seen
  <2>2. Write(written, "rest") /\ written \in Seen /\ written \in Nat
    BY <1>2 DEF WriteRest, CollectorTypes
  <2>3. /\ file' \in [Files -> Seq(Piece)]
        /\ \A f \in Files : \A i \in DOMAIN file'[f] : file'[f][i].line \in Seen
    <3>1. /\ file' \in [Files -> Seq(Piece)]
          /\ \A f \in Files : f # fd => file'[f] = file[f]
          /\ DOMAIN file'[fd] = DOMAIN file[fd] \union {Len(file[fd]) + 1}
          /\ file'[fd][Len(file[fd]) + 1].line = written
          /\ \A i \in DOMAIN file[fd] : file'[fd][i] = file[fd][i]
      BY <2>1, <2>2, WriteAppends
    <3>. QED
      BY <2>1, <2>2, <3>1 DEF CollectorTypes
  <2>4. ~half'
    BY <1>2 DEF WriteRest
  <2>. QED
    BY <1>0, <2>1, <2>3, <2>4 DEF CollectorTypes
<1>3. CASE Truncate
  <2>1. /\ file' = [file EXCEPT ![fd] = <<>>]
        /\ UNCHANGED <<path, fd, written, half>> /\ Seen' = Seen
    BY <1>3 DEF Truncate, Seen
  <2>2. /\ file' \in [Files -> Seq(Piece)]
        /\ \A f \in Files : \A i \in DOMAIN file'[f] : file'[f][i].line \in Seen
    <3>1. \A f \in Files : file'[f] = file[f] \/ DOMAIN file'[f] = {}
      BY <2>1 DEF CollectorTypes
    <3>2. file' \in [Files -> Seq(Piece)]
      <4>1. file \in [Files -> Seq(Piece)] /\ <<>> \in Seq(Piece)
        BY DEF CollectorTypes
      <4>. QED
        BY <2>1, <4>1
    <3>. QED
      BY <3>1, <3>2 DEF CollectorTypes
  <2>. QED
    BY <1>0, <2>1, <2>2 DEF CollectorTypes
<1>4. CASE Rename \/ OpenLog
  <2>1. /\ UNCHANGED <<file, written, half>> /\ Seen' = Seen
        /\ fd' \in Files \union {NoFile} /\ path' \in Files \union {NoFile}
        /\ path' # NoFile => path' = fd'
        /\ half => fd' = fd
    BY <1>4 DEF Rename, OpenLog, Unused, Seen, CollectorTypes
  <2>. QED
    BY <1>0, <2>1 DEF CollectorTypes
<1>. QED
  BY <1>1, <1>2, <1>3, <1>4 DEF Gateway

LEMMA FollowTypes == CollectorTypes /\ FollowLog => CollectorTypes'
<1>. SUFFICES ASSUME CollectorTypes, FollowLog PROVE CollectorTypes'
  OBVIOUS
<1>0. /\ UNCHANGED <<mode, file, path, fd, written, half, batch, sending>> /\ Seen' = Seen
  BY DEF FollowLog, gatewayVars, loopVars, Seen
<1>1. chan' \in Seq(Seen)
  <2>1. ASSUME ReadPiece, NEW line \in Seen, Emit(line) PROVE chan' \in Seq(Seen)
    BY <2>1 DEF Emit, CollectorTypes
  <2>2. ASSUME ReadPiece PROVE Content[tail.offset + 1].line \in Seen
    <3>1. tail.file \in Files /\ tail.offset + 1 \in DOMAIN file[tail.file]
      BY <2>2 DEF ReadPiece, Draining, Content, CollectorTypes
    <3>. QED
      BY <3>1 DEF Content, CollectorTypes
  <2>3. CASE UNCHANGED chan
    BY <2>3 DEF CollectorTypes
  <2>. QED
    BY <2>1, <2>2, <2>3 DEF FollowLog, ReadPiece, OpenTail, AtEnd, Stat, Reopen
<1>2. /\ DOMAIN tail' = {"pc", "file", "offset", "partial", "last"}
      /\ tail'.pc \in {"wait", "drain", "drainAgain", "stat", "open"}
      /\ tail'.pc # "wait" => tail'.file \in Files
      /\ tail'.offset \in Nat /\ tail'.partial \in Nat /\ tail'.last \in Nat
  <2>1. CASE OpenTail
    <3>1. path \in Files /\ Len(file[path]) \in Nat /\ written \in Nat
      BY <2>1 DEF OpenTail, CollectorTypes
    <3>. QED
      BY <2>1, <3>1 DEF OpenTail, CollectorTypes
  <2>2. CASE ReadPiece
    <3>1. tail.file \in Files /\ tail.offset + 1 \in DOMAIN file[tail.file]
      BY <2>2 DEF ReadPiece, Draining, Content, CollectorTypes
    <3>2. Content[tail.offset + 1].line \in Nat
      BY <3>1 DEF Content, CollectorTypes, Seen
    <3>3. PICK line \in Nat :
            \/ tail' = [tail EXCEPT !.offset = @ + 1, !.partial = line]
            \/ tail' = [tail EXCEPT !.offset = @ + 1, !.partial = 0, !.last = line]
            \/ tail' = [tail EXCEPT !.offset = @ + 1, !.partial = 0]
      BY <2>2, <3>2 DEF ReadPiece
    <3>4. /\ DOMAIN tail = {"pc", "file", "offset", "partial", "last"}
          /\ tail.offset \in Nat /\ tail.partial \in Nat /\ tail.last \in Nat
      BY DEF CollectorTypes
    <3>5. /\ DOMAIN tail' = DOMAIN tail /\ tail'.pc = tail.pc /\ tail'.file = tail.file
          /\ tail'.offset = tail.offset + 1
          /\ tail'.partial \in {line, 0} /\ tail'.last \in {line, tail.last}
      BY <3>3, <3>4
    <3>. QED
      BY <3>1, <3>4, <3>5 DEF CollectorTypes
  <2>3. CASE AtEnd
    BY <2>3 DEF AtEnd, Draining, CollectorTypes
  <2>4. CASE Stat
    BY <2>4 DEF Stat, FromStart, Replaced, CollectorTypes
  <2>5. CASE Reopen
    BY <2>5 DEF Reopen, FromStart, CollectorTypes
  <2>. QED
    BY <2>1, <2>2, <2>3, <2>4, <2>5 DEF FollowLog
<1>. QED
  BY <1>0, <1>1, <1>2 DEF CollectorTypes

LEMMA CollectorTypesStep == CollectorTypes /\ [Next]_vars => CollectorTypes'
<1>. SUFFICES ASSUME CollectorTypes, CollectorStep \/ UNCHANGED collectorVars PROVE CollectorTypes'
  BY CollectorMoves
<1>1. CASE UNCHANGED collectorVars
  BY <1>1 DEF CollectorTypes, collectorVars, gatewayVars, loopVars, Seen
<1>2. ASSUME UNCHANGED <<mode, gatewayVars, tail>>,
             chan' \in Seq(Seen), batch' \in Seq(Seen),
             DOMAIN sending' = {"events", "via"}, sending'.events \in Seq(Seen)
      PROVE  CollectorTypes'
  BY <1>2 DEF CollectorTypes, gatewayVars, Seen
<1>3. CASE Collect
  <2>1. /\ chan \in Seq(Seen) /\ chan # <<>> /\ batch \in Seq(Seen) /\ <<>> \in Seq(Seen)
    BY <1>3 DEF Collect, CollectorTypes
  <2>2. Tail(chan) \in Seq(Seen) /\ Head(chan) \in Seen
    BY <2>1
  <2>3. Append(batch, Head(chan)) \in Seq(Seen)
    BY <2>1, <2>2
  <2>. QED
    BY <1>2, <1>3, <2>1, <2>2, <2>3 DEF Collect, NoRequestOut, CollectorTypes
<1>4. CASE Flush \/ StopAgent \/ \E n : Finish(n)
  <2>1. <<>> \in Seq(Seen) /\ batch \in Seq(Seen) /\ chan \in Seq(Seen)
    BY DEF CollectorTypes
  <2>2. /\ UNCHANGED <<mode, gatewayVars, tail, chan>> /\ batch' \in {<<>>, batch}
        /\ DOMAIN sending' = {"events", "via"} /\ sending'.events \in {<<>>, batch}
    BY <1>4 DEF Flush, StopAgent, Finish, NoRequestOut
  <2>. QED
    BY <1>2, <2>1, <2>2
<1>5. CASE /\ UNCHANGED <<mode, gatewayVars, tail, chan, batch, rate, running>>
           /\ \E s : sending' = [sending EXCEPT !.via = s]
  BY <1>2, <1>5 DEF CollectorTypes
<1>. QED
  BY <1>1, <1>3, <1>4, <1>5, GatewayTypes, FollowTypes DEF CollectorStep

LEMMA IngestTypesInit == Init => IngestTypes
<1>. SUFFICES ASSUME Init PROVE IngestTypes
  OBVIOUS
<1>1. \A k \in DOMAIN sink : sink[k] = NewSink
  BY DEF Init, IngestInit, Streamers
<1>2. \A k \in DOMAIN sink : Stream(sink[k])
  BY <1>1 DEF NewSink, Stream
<1>3. Request(NoRequest)
  BY DEF Request, NoRequest, NoResult, Answered
<1>. QED
  BY <1>2, <1>3 DEF Init, IngestInit, IngestTypes

(* The steps of a request change the request of one sender. *)
LEMMA RequestTypes ==
    ASSUME IngestTypes, NEW s \in Senders,
           Check(s) \/ Offer(s) \/ Answer(s) \/ Leave(s) \/ \E events \in Seq(Events) : Submit(s, events)
    PROVE  /\ DOMAIN sub' = Senders /\ Request(sub'[s])
           /\ \A o \in Senders : o # s => sub'[o] = sub[o]
<1>. DEFINE r == sub[s]
<1>0. DOMAIN sub = Senders /\ Request(r)
  BY DEF IngestTypes
<1>1. CASE Check(s)
  <2>1. /\ r.rest # <<>> /\ r.event = NoEvent /\ r.rest \in Seq(Events)
        /\ Head(r.rest) \in Events /\ Tail(r.rest) \in Seq(Events)
    BY <1>0, <1>1 DEF Check, Request
  <2>2. r.open
    BY <1>0, <2>1 DEF Request
  <2>3. CASE sub' = [sub EXCEPT ![s].rest = Tail(@), ![s].result.duplicates = @ + 1]
    <3>1. sub'[s] = [r EXCEPT !.rest = Tail(r.rest), !.result = [r.result EXCEPT !.duplicates = @ + 1]]
      BY <1>0, <2>3 DEF Request, Answered
    <3>2. Answered([r.result EXCEPT !.duplicates = @ + 1])
      BY <1>0 DEF Request, Answered
    <3>. QED
      BY <1>0, <2>1, <2>2, <2>3, <3>1, <3>2 DEF Request
  <2>4. CASE sub' = [sub EXCEPT ![s].event = Head(r.rest), ![s].rest = Tail(@)]
    <3>1. sub'[s] = [r EXCEPT !.event = Head(r.rest), !.rest = Tail(r.rest)]
      BY <1>0, <2>4 DEF Request
    <3>. QED
      BY <1>0, <2>1, <2>2, <2>4, <3>1 DEF Request
  <2>. QED
    BY <1>1, <2>3, <2>4 DEF Check
<1>2. CASE Offer(s)
  <2>1. r.event # NoEvent /\ r.open
    BY <1>0, <1>2 DEF Offer, Request
  <2>2. PICK result : Answered(result) /\ sub' = [sub EXCEPT ![s] = [r EXCEPT !.event = NoEvent, !.result = result]]
    <3>1. /\ Answered([r.result EXCEPT !.accepted = @ + 1])
          /\ Answered([r.result EXCEPT !.dropped = @ + 1])
      BY <1>0 DEF Request, Answered
    <3>2. CASE sub' = [sub EXCEPT ![s].event = NoEvent, ![s].result.accepted = @ + 1]
      BY <1>0, <3>1, <3>2 DEF Request, Answered
    <3>3. CASE sub' = [sub EXCEPT ![s].event = NoEvent, ![s].result.dropped = @ + 1]
      BY <1>0, <3>1, <3>3 DEF Request, Answered
    <3>. QED
      BY <1>2, <3>2, <3>3 DEF Offer
  <2>. QED
    BY <1>0, <2>1, <2>2 DEF Request
<1>3. CASE Answer(s) \/ Leave(s)
  <2>1. Request(NoRequest) /\ (r.open => Request([r EXCEPT !.gone = TRUE]))
    BY <1>0 DEF Request, NoRequest, NoResult, Answered
  <2>. QED
    BY <1>0, <1>3, <2>1 DEF Answer, Leave
<1>4. ASSUME NEW events \in Seq(Events), Submit(s, events) PROVE Request(sub'[s])
  <2>1. Request([NoRequest EXCEPT !.open = TRUE, !.rest = events])
    BY DEF Request, NoRequest, NoResult, Answered
  <2>. QED
    BY <1>0, <1>4, <2>1 DEF Submit
<1>. QED
  BY <1>0, <1>1, <1>2, <1>3, <1>4 DEF Submit

LEMMA IngestTypesStep == IngestTypes /\ (IngestStep \/ UNCHANGED ingestVars) => IngestTypes'
<1>. SUFFICES ASSUME IngestTypes, IngestStep \/ UNCHANGED ingestVars PROVE IngestTypes'
  OBVIOUS
<1>1. ASSUME NEW s \in Senders,
             Check(s) \/ Offer(s) \/ Answer(s) \/ Leave(s) \/ \E events \in Seq(Events) : Submit(s, events)
      PROVE  IngestTypes'
  <2>1. DOMAIN sub' = Senders /\ \A o \in Senders : Request(sub'[o])
    BY <1>1, RequestTypes DEF IngestTypes
  <2>2. Request(sub[s])
    BY DEF IngestTypes
  <2>3. /\ queue' \in Seq(Events) /\ at' \in [Events -> Int]
        /\ UNCHANGED <<clock, doing, phase, sink>>
    <3>1. ASSUME Offer(s) PROVE queue' \in Seq(Events) /\ at' \in [Events -> Int]
      <4>1. sub[s].event \in Events /\ clock \in Int /\ queue \in Seq(Events) /\ at \in [Events -> Int]
        BY <2>2, <3>1 DEF IngestTypes, Offer, Request
      <4>2. queue' \in {queue, Append(queue, sub[s].event)}
            /\ at' \in {at, [at EXCEPT ![sub[s].event] = clock]}
        BY <3>1 DEF Offer
      <4>. QED
        BY <4>1, <4>2
    <3>2. UNCHANGED <<queue, at>> => queue' \in Seq(Events) /\ at' \in [Events -> Int]
      BY DEF IngestTypes
    <3>3. UNCHANGED <<clock, doing, phase, sink>>
      BY <1>1 DEF Check, Offer, Answer, Leave, Submit
    <3>. QED
      BY <1>1, <3>1, <3>2, <3>3 DEF Check, Answer, Leave, Submit
  <2>4. seen' \in [Events -> Int]
    <3>1. Pruned \in [Events -> Int] /\ seen \in [Events -> Int] /\ clock \in Int
      BY DEF Pruned, IngestTypes
    <3>2. \E table \in {seen, Pruned} :
            \/ seen' = table
            \/ \E e : seen' = [table EXCEPT ![e] = clock] \/ seen' = [table EXCEPT ![e] = -1]
      BY <1>1 DEF Check, Offer, Answer, Leave, Submit, Forgotten
    <3>. QED
      BY <3>1, <3>2
  <2>. QED
    BY <2>1, <2>3, <2>4 DEF IngestTypes
<1>2. CASE Tick \/ CleanupSeen \/ Stop \/ BeginClose \/ Exit
  <2>1. Pruned \in [Events -> Int]
    BY DEF Pruned, IngestTypes
  <2>. QED
    BY <1>2, <2>1 DEF IngestTypes, Tick, CleanupSeen, Stop, BeginClose, Exit
<1>3. ASSUME NEW w \in Workers, Work(w) \/ Done(w) PROVE IngestTypes'
  <2>1. /\ queue' \in Seq(Events) /\ doing' \in [Workers -> Events \union {NoEvent}]
        /\ UNCHANGED <<clock, seen, sub, phase, at>>
    <3>1. CASE Work(w)
      <4>1. queue \in Seq(Events) /\ queue # <<>> /\ doing \in [Workers -> Events \union {NoEvent}]
        BY <3>1 DEF Work, IngestTypes
      <4>2. Head(queue) \in Events /\ Tail(queue) \in Seq(Events)
        BY <4>1
      <4>. QED
        BY <3>1, <4>1, <4>2 DEF Work
    <3>2. CASE Done(w)
      BY <3>2 DEF Done, IngestTypes
    <3>. QED
      BY <1>3, <3>1, <3>2
  <2>2. \A k \in DOMAIN sink : Stream(Put(k))
    BY DEF IngestTypes, Put, Stream
  <2>3. \A k \in DOMAIN sink' : Stream(sink'[k])
    BY <1>3, <2>2 DEF Work, Done, PutTo, IngestTypes
  <2>. QED
    BY <2>1, <2>3 DEF IngestTypes
<1>4. ASSUME NEW k \in DOMAIN sink, SinkTake(k) \/ SinkFlush(k) \/ CloseSink(k) \/ SinkClosed(k)
      PROVE  IngestTypes'
  <2>1. Stream(sink[k])
    BY DEF IngestTypes
  <2>2. UNCHANGED <<clock, queue, seen, sub, doing, phase, at>> /\ DOMAIN sink' = DOMAIN sink
    BY <1>4 DEF SinkTake, SinkFlush, CloseSink, SinkClosed
  <2>3. \A i \in DOMAIN sink : i # k => sink'[i] = sink[i]
    BY <1>4 DEF SinkTake, SinkFlush, CloseSink, SinkClosed
  <2>4. Stream(sink'[k])
    <3>1. CASE SinkTake(k)
      <4>. DEFINE taken == [sink[k] EXCEPT !.queued = @ - 1, !.batch = @ + 1]
      <4>1. Stream(taken) /\ Stream(Sent(taken))
        BY <2>1, <3>1 DEF SinkTake, Stream, Sent
      <4>. QED
        BY <3>1, <4>1 DEF SinkTake
    <3>2. CASE SinkFlush(k) \/ CloseSink(k) \/ SinkClosed(k)
      <4>1. sink'[k] \in {Sent(sink[k]), [sink[k] EXCEPT !.state = "closing"],
                         [Sent(sink[k]) EXCEPT !.state = "closed"]}
        BY <3>2 DEF SinkFlush, CloseSink, SinkClosed
      <4>2. /\ Stream(Sent(sink[k])) /\ Stream([sink[k] EXCEPT !.state = "closing"])
            /\ Stream([Sent(sink[k]) EXCEPT !.state = "closed"])
        BY <2>1 DEF Stream, Sent
      <4>. QED
        BY <4>1, <4>2
    <3>. QED
      BY <1>4, <3>1, <3>2
  <2>. QED
    BY <2>2, <2>3, <2>4 DEF IngestTypes
<1>5. CASE UNCHANGED ingestVars
  BY <1>5 DEF IngestTypes, ingestVars
<1>. QED
  BY <1>1, <1>2, <1>3, <1>4, <1>5 DEF IngestStep, IngestNext

LEMMA TypesCorrect == Spec => [](CollectorTypes /\ IngestTypes)
<1>1. Init => CollectorTypes /\ IngestTypes
  BY CollectorTypesInit, IngestTypesInit
<1>2. CollectorTypes /\ IngestTypes /\ [Next]_vars => CollectorTypes' /\ IngestTypes'
  BY CollectorTypesStep, IngestTypesStep, IngestMoves
<1>. QED
  BY <1>1, <1>2, PTL DEF Spec

-----------------------------------------------------------------------------
(* Shutdown.                                                               *)

Flushed ==
    /\ \A k \in DOMAIN sink : sink[k].state = "closed" =>
         sink[k].batch = 0 /\ sink[k].queued <= sink[k].late
    /\ phase = "exited" => \A k \in DOMAIN sink : sink[k].state = "closed"

LEMMA FlushedInit == Init => Flushed
BY DEF Init, IngestInit, Streamers, NewSink, Flushed

LEMMA FlushedStep == IngestTypes /\ Flushed /\ (IngestStep \/ UNCHANGED ingestVars) => Flushed'
<1>. SUFFICES ASSUME IngestTypes, Flushed, IngestStep \/ UNCHANGED ingestVars PROVE Flushed'
  OBVIOUS
<1>1. CASE UNCHANGED <<phase, sink>>
  BY <1>1 DEF Flushed
<1>2. CASE Stop \/ BeginClose \/ Exit
  BY <1>2 DEF Stop, BeginClose, Exit, Flushed
<1>3. ASSUME NEW w \in Workers, Work(w) \/ Done(w) PROVE Flushed'
  <2>1. phase' = phase /\ phase # "exited" /\ DOMAIN sink' = DOMAIN sink
    BY <1>3 DEF Work, Done, PutTo
  <2>2. ASSUME NEW k \in DOMAIN sink, Stream(sink[k]), Put(k).state = "closed"
        PROVE  Put(k).batch = 0 /\ Put(k).queued <= Put(k).late
    BY <2>2 DEF Flushed, Put, Stream
  <2>3. \A k \in DOMAIN sink : sink'[k] \in {sink[k], Put(k)}
    BY <1>3 DEF Work, Done, PutTo
  <2>. QED
    BY <2>1, <2>2, <2>3 DEF Flushed, IngestTypes
<1>4. ASSUME NEW k \in DOMAIN sink, SinkTake(k) \/ SinkFlush(k) \/ CloseSink(k) \/ SinkClosed(k)
      PROVE  Flushed'
  <2>1. /\ phase' = phase /\ phase # "exited" /\ Stream(sink[k])
        /\ DOMAIN sink' = DOMAIN sink /\ \A i \in DOMAIN sink : i # k => sink'[i] = sink[i]
    BY <1>4 DEF SinkTake, SinkFlush, CloseSink, SinkClosed, IngestTypes
  <2>2. ASSUME sink'[k].state = "closed" PROVE sink'[k].batch = 0 /\ sink'[k].queued <= sink'[k].late
    <3>1. SinkClosed(k)
      BY <1>4, <2>1, <2>2 DEF SinkTake, SinkFlush, CloseSink, Sent, Stream
    <3>2. sink'[k] = [Sent(sink[k]) EXCEPT !.state = "closed"] /\ sink[k].queued = 0
      BY <3>1 DEF SinkClosed, Drained
    <3>. QED
      BY <2>1, <3>2 DEF Sent, Stream
  <2>. QED
    BY <2>1, <2>2 DEF Flushed
<1>. QED
  BY <1>1, <1>2, <1>3, <1>4 DEF IngestStep, IngestNext, Tick, CleanupSeen, Check, Offer,
     Answer, Leave, Submit, ingestVars

(* Whatever the workers publish and the loops send while the process shuts *)
(* down, every record that a sink took while its loop ran is sent before   *)
(* the process ends, for any sinks, queues and batches (loop and Close of  *)
(* stream/, cmd/main.go:204-223).                                          *)
THEOREM FlushedAtExitCorrect == Spec => []FlushedAtExit
<1>1. Init => CollectorTypes /\ IngestTypes /\ Flushed
  BY CollectorTypesInit, IngestTypesInit, FlushedInit
<1>2. /\ CollectorTypes /\ IngestTypes /\ Flushed /\ [Next]_vars
      => CollectorTypes' /\ IngestTypes' /\ Flushed'
  BY CollectorTypesStep, IngestTypesStep, FlushedStep, IngestMoves
<1>3. Flushed => FlushedAtExit
  BY DEF Flushed, FlushedAtExit
<1>. QED
  BY <1>1, <1>2, <1>3, PTL DEF Spec

-----------------------------------------------------------------------------
(* The table of ids.  It says when an event was last taken unless a        *)
(* request has the event in hand; what is not in it and was taken a moment *)
(* ago found the table full of events, most of which had been taken within *)
(* TTL before it.                                                          *)

InHand(e) == \E s \in Senders : sub[s].event = e

Taken == {x \in Events : at[x] >= 0}

(* Slack: other requests may have events in hand that are in the table.    *)
CrowdedAt(times, c) ==
    Cardinality({x \in Events : times[x] >= 0 /\ times[x] >= c - TTL})
      + (Cardinality(Senders) - 1) >= Room

Table ==
    /\ IsFiniteSet(Taken) /\ IsFiniteSet(Marked(seen))
    /\ \A e \in Events : at[e] \in -1 .. clock /\ seen[e] \in -1 .. clock
    /\ \A e \in Events : seen[e] >= 0 => at[e] = seen[e] \/ (seen[e] = clock /\ InHand(e))
    /\ \A e \in Events : InHand(e) => seen[e] \in {-1, clock}
    /\ \A s \in Senders :
         /\ sub[s].event # NoEvent
         /\ \/ seen[sub[s].event] = -1
            \/ \E o \in Senders \ {s} : sub[o].event = sub[s].event
         => CrowdedAt(at, clock)
    /\ \A e \in Events :
         (seen[e] = -1 \/ InHand(e)) /\ at[e] >= 0 /\ clock - at[e] <= TTL => CrowdedAt(at, at[e])

LEMMA TableInit == Init => Table
<1>. SUFFICES ASSUME Init PROVE Table
  OBVIOUS
<1>1. Taken = {} /\ Marked(seen) = {}
  BY DEF Init, IngestInit, Taken, Marked
<1>2. IsFiniteSet(Taken) /\ IsFiniteSet(Marked(seen))
  BY <1>1, FS_EmptySet
<1>. QED
  BY <1>2, IngestAssumption DEF Init, IngestInit, Table, InHand, NoRequest

LEMMA CrowdedGrows ==
    ASSUME NEW old \in [Events -> Int], NEW new \in [Events -> Int], \A x \in Events : new[x] >= old[x],
           IsFiniteSet({x \in Events : new[x] >= 0}),
           NEW c \in Int, NEW d \in Int, d <= c, CrowdedAt(old, c)
    PROVE  CrowdedAt(new, d)
<1>. DEFINE A == {x \in Events : old[x] >= 0 /\ old[x] >= c - TTL}
            B == {x \in Events : new[x] >= 0 /\ new[x] >= d - TTL}
<1>1. TTL \in Nat /\ Room \in Nat
  BY IngestAssumption
<1>2. IsFiniteSet(B)
  BY FS_Subset
<1>3. A \subseteq B
  BY <1>1
<1>4. IsFiniteSet(A) /\ Cardinality(A) <= Cardinality(B)
  BY <1>2, <1>3, FS_Subset
<1>5. Cardinality(A) \in Nat /\ Cardinality(B) \in Nat /\ Cardinality(Senders) \in Nat
  BY <1>2, <1>4, FS_CardinalityType, IngestAssumption
<1>6. Cardinality(A) + (Cardinality(Senders) - 1) >= Room
  BY DEF CrowdedAt
<1>. HIDE DEF A, B
<1>7. Cardinality(B) + (Cardinality(Senders) - 1) >= Room
  BY <1>1, <1>4, <1>5, <1>6
<1>. QED
  BY <1>7 DEF CrowdedAt, B

(* A table that stays full when it is pruned shows a crowd.                *)
LEMMA FullTable ==
    ASSUME IngestTypes, Table, NEW s \in Senders, sub[s].event = NoEvent,
           Cardinality(Marked(Pruned)) >= Room
    PROVE  CrowdedAt(at, clock)
<1>. DEFINE M == Marked(Pruned)
            A == {x \in Events : at[x] >= 0 /\ at[x] >= clock - TTL}
            S == Senders \ {s}
            H == {sub[o].event : o \in S}
<1>1. TTL \in Nat /\ Room \in Nat /\ clock \in Nat
  BY IngestAssumption DEF IngestTypes
<1>2. IsFiniteSet(A)
  BY FS_Subset DEF Table, Taken
<1>3. IsFiniteSet(S) /\ Cardinality(S) = Cardinality(Senders) - 1
  BY IngestAssumption, FS_RemoveElement
<1>4. IsFiniteSet(H) /\ Cardinality(H) <= Cardinality(S)
  <2>. DEFINE f == [o \in S |-> sub[o].event]
  <2>1. f \in Surjection(S, H)
    BY DEF Surjection
  <2>. QED
    BY <1>3, <2>1, FS_Surjection
<1>5. M \subseteq A \cup H
  <2>. SUFFICES ASSUME NEW x \in Events, Pruned[x] >= 0 PROVE x \in A \/ x \in H
    BY DEF Marked
  <2>1. seen[x] \in Int /\ at[x] \in Int
    BY DEF IngestTypes
  <2>2. Pruned[x] = IF seen[x] < clock - TTL THEN -1 ELSE seen[x]
    BY DEF Pruned
  <2>3. seen[x] >= clock - TTL /\ seen[x] >= 0
    BY <1>1, <2>1, <2>2
  <2>4. CASE at[x] = seen[x]
    BY <2>3, <2>4
  <2>5. CASE InHand(x)
    <3>1. PICK o \in Senders : sub[o].event = x
      BY <2>5 DEF InHand
    <3>2. o # s
      BY <3>1, IngestAssumption
    <3>. QED
      BY <3>1, <3>2
  <2>. QED
    BY <2>3, <2>4, <2>5 DEF Table
<1>6. /\ IsFiniteSet(A \cup H) /\ IsFiniteSet(A \cap H)
      /\ Cardinality(A \cup H) = Cardinality(A) + Cardinality(H) - Cardinality(A \cap H)
  BY <1>2, <1>4, FS_Union, FS_Intersection
<1>7. IsFiniteSet(M) /\ Cardinality(M) <= Cardinality(A \cup H)
  BY <1>5, <1>6, FS_Subset
<1>8. /\ Cardinality(M) \in Nat /\ Cardinality(A) \in Nat /\ Cardinality(H) \in Nat
      /\ Cardinality(A \cap H) \in Nat /\ Cardinality(Senders) \in Nat
  BY <1>2, <1>4, <1>6, <1>7, FS_CardinalityType, IngestAssumption
<1>9. Cardinality(M) >= Room
  OBVIOUS
<1>. HIDE DEF M, A, H
<1>10. Cardinality(A) + (Cardinality(Senders) - 1) >= Room
  BY <1>1, <1>3, <1>4, <1>6, <1>7, <1>8, <1>9
<1>. QED
  BY <1>10 DEF CrowdedAt, A

SameHands == DOMAIN sub' = Senders /\ \A s \in Senders : sub'[s].event = sub[s].event

LEMMA TableUnchanged ==
    ASSUME Table, SameHands, UNCHANGED <<clock, seen, at>>
    PROVE  Table'
BY DEF Table, SameHands, InHand, Taken, Marked

(* Pruning forgets what was taken longer than TTL ago, and nothing in hand. *)
LEMMA PruneForgets ==
    ASSUME IngestTypes, Table
    PROVE  /\ IsFiniteSet(Marked(Pruned))
           /\ \A x \in Events :
                \/ Pruned[x] = seen[x]
                \/ Pruned[x] = -1 /\ ~InHand(x) /\ (at[x] < 0 \/ clock - at[x] > TTL)
<1>1. TTL \in Nat /\ clock \in Nat
  BY IngestAssumption DEF IngestTypes
<1>2. Marked(Pruned) \subseteq Marked(seen)
  <2>. SUFFICES ASSUME NEW x \in Events, Pruned[x] >= 0 PROVE seen[x] >= 0
    BY DEF Marked
  <2>. QED
    BY DEF Pruned
<1>3. IsFiniteSet(Marked(Pruned))
  BY <1>2, FS_Subset DEF Table
<1>4. ASSUME NEW x \in Events, Pruned[x] # seen[x]
      PROVE  Pruned[x] = -1 /\ ~InHand(x) /\ (at[x] < 0 \/ clock - at[x] > TTL)
  <2>1. seen[x] \in -1 .. clock /\ at[x] \in -1 .. clock
    BY DEF Table
  <2>2. Pruned[x] = -1 /\ seen[x] < clock - TTL /\ seen[x] # -1
    BY <1>4 DEF Pruned
  <2>3. seen[x] >= 0 /\ seen[x] # clock
    BY <1>1, <2>1, <2>2
  <2>. QED
    BY <1>1, <2>1, <2>2, <2>3 DEF Table
<1>. QED
  BY <1>3, <1>4

LEMMA TableCheck ==
    ASSUME IngestTypes, Table, NEW s \in Senders, Check(s)
    PROVE  Table'
<1>. SUFFICES ASSUME NEW e, e = Head(sub[s].rest) PROVE Table'
  OBVIOUS
<1>. DEFINE table == IF Cardinality(Marked(seen)) >= Room THEN Pruned ELSE seen
<1>0. /\ UNCHANGED <<clock, at>> /\ sub[s].event = NoEvent
      /\ sub[s].rest # <<>> /\ Request(sub[s]) /\ DOMAIN sub = Senders
      /\ Room \in Nat /\ TTL \in Nat /\ clock \in Nat /\ NoEvent \notin Events
  BY IngestAssumption DEF Check, IngestTypes
<1>1. e \in Events
  BY <1>0 DEF Request
<1>2. CASE seen[e] >= 0
  <2>1. UNCHANGED seen /\ SameHands
    BY <1>0, <1>2 DEF Check, SameHands, Request
  <2>. QED
    BY <1>0, <2>1, TableUnchanged
<1>3. CASE ~(seen[e] >= 0)
  <2>0. /\ sub' = [sub EXCEPT ![s].event = e, ![s].rest = Tail(@)]
        /\ seen' = IF Cardinality(Marked(table)) < Room
                   THEN [table EXCEPT ![e] = clock] ELSE table
    BY <1>3 DEF Check
  <2>1. /\ sub'[s].event = e
        /\ \A o \in Senders : o # s => sub'[o].event = sub[o].event
    BY <1>0, <2>0 DEF Request
  <2>2. seen[e] = -1
    BY <1>0, <1>1, <1>3 DEF Table
  <2>3. /\ table \in [Events -> Int] /\ IsFiniteSet(Marked(table)) /\ table[e] = -1
        /\ \A x \in Events :
             \/ table[x] = seen[x]
             \/ table[x] = -1 /\ ~InHand(x) /\ (at[x] < 0 \/ clock - at[x] > TTL)
    <3>1. Pruned \in [Events -> Int] /\ seen \in [Events -> Int]
      BY DEF Pruned, IngestTypes
    <3>2. IsFiniteSet(Marked(seen))
      BY DEF Table
    <3>. QED
      BY <1>1, <2>2, <3>1, <3>2, PruneForgets
  <2>4. /\ seen'[e] \in {-1, clock}
        /\ \A x \in Events : x # e => seen'[x] = table[x]
        /\ seen'[e] = -1 => CrowdedAt(at, clock)
    <3>1. CASE Cardinality(Marked(table)) < Room
      BY <1>0, <1>1, <2>0, <2>3, <3>1
    <3>2. CASE ~(Cardinality(Marked(table)) < Room)
      <4>1. Cardinality(Marked(table)) \in Nat
        BY <2>3, FS_CardinalityType
      <4>2. table = Pruned /\ Cardinality(Marked(Pruned)) >= Room
        BY <1>0, <3>2, <4>1
      <4>. QED
        BY <1>0, <2>0, <2>3, <3>2, <4>2, FullTable
    <3>. QED
      BY <3>1, <3>2
  <2>. HIDE DEF table
  <2>5. IsFiniteSet(Taken') /\ IsFiniteSet(Marked(seen)')
    <3>1. Marked(seen)' \subseteq Marked(table) \union {e}
      BY <2>4 DEF Marked
    <3>2. IsFiniteSet(Marked(table) \union {e})
      BY <2>3, FS_AddElement
    <3>3. Taken' = Taken
      BY <1>0 DEF Taken
    <3>. QED
      BY <3>1, <3>2, <3>3, FS_Subset DEF Table
  <2>6. \A x \in Events : x # e => (InHand(x)' <=> InHand(x))
    BY <1>0, <2>1 DEF InHand
  <2>7. InHand(e)'
    BY <2>1 DEF InHand
  <2>8. \A x \in Events : at'[x] \in -1 .. clock' /\ seen'[x] \in -1 .. clock'
    <3>1. \A x \in Events : seen'[x] \in {-1, clock, seen[x]}
      BY <2>3, <2>4
    <3>. QED
      BY <1>0, <3>1 DEF Table
  <2>9. ASSUME NEW x \in Events, seen'[x] >= 0
        PROVE  at'[x] = seen'[x] \/ (seen'[x] = clock' /\ InHand(x)')
    <3>1. CASE x = e
      BY <1>0, <2>4, <2>7, <2>9, <3>1
    <3>2. CASE x # e
      <4>1. seen'[x] = seen[x]
        BY <2>3, <2>4, <2>9, <3>2
      <4>. QED
        BY <1>0, <2>6, <2>9, <3>2, <4>1 DEF Table
    <3>. QED
      BY <3>1, <3>2
  <2>10. ASSUME NEW x \in Events, InHand(x)' PROVE seen'[x] \in {-1, clock'}
    BY <1>0, <2>3, <2>4, <2>6, <2>10 DEF Table
  <2>11. ASSUME NEW u \in Senders, sub'[u].event # NoEvent,
                \/ seen'[sub'[u].event] = -1
                \/ \E o \in Senders \ {u} : sub'[o].event = sub'[u].event
         PROVE  CrowdedAt(at, clock)
    <3>1. ASSUME NEW o \in Senders, sub[o].event = e PROVE CrowdedAt(at, clock)
      BY <1>0, <1>1, <2>2, <3>1 DEF Table
    <3>2. CASE u = s
      BY <2>1, <2>4, <2>11, <3>1, <3>2
    <3>3. CASE u # s
      <4>1. sub'[u].event = sub[u].event /\ sub[u].event \in Events
        BY <2>1, <2>11, <3>3 DEF IngestTypes, Request
      <4>2. CASE sub[u].event = e
        BY <3>1, <4>2
      <4>3. CASE sub[u].event # e
        <5>1. seen'[sub[u].event] = seen[sub[u].event]
          BY <2>3, <2>4, <4>1, <4>3 DEF InHand
        <5>. QED
          BY <2>1, <2>11, <4>1, <4>3, <5>1 DEF Table
      <4>. QED
        BY <4>2, <4>3
    <3>. QED
      BY <3>2, <3>3
  <2>12. ASSUME NEW x \in Events, seen'[x] = -1 \/ InHand(x)', at[x] >= 0, clock - at[x] <= TTL
         PROVE  CrowdedAt(at, at[x])
    <3>1. clock \in Int /\ at[x] \in Int /\ TTL \in Int
      BY <1>0 DEF IngestTypes
    <3>2. seen[x] = -1 \/ InHand(x)
      BY <2>2, <2>3, <2>4, <2>6, <2>12, <3>1
    <3>. QED
      BY <2>12, <3>2 DEF Table
  <2>. QED
    BY <1>0, <2>5, <2>8, <2>9, <2>10, <2>11, <2>12 DEF Table
<1>. QED
  BY <1>2, <1>3

LEMMA TableOffer ==
    ASSUME IngestTypes, IngestTypes', Table, NEW s \in Senders, Offer(s)
    PROVE  Table'
<1>. SUFFICES ASSUME NEW e, e = sub[s].event PROVE Table'
  OBVIOUS
<1>0. /\ UNCHANGED clock /\ e \in Events /\ e # NoEvent
      /\ TTL \in Nat /\ clock \in Nat /\ NoEvent \notin Events
      /\ at \in [Events -> Int] /\ seen \in [Events -> Int]
      /\ at' \in [Events -> Int] /\ seen' \in [Events -> Int]
  BY IngestAssumption DEF Offer, IngestTypes, Request
<1>1. sub'[s].event = NoEvent /\ \A o \in Senders : o # s => sub'[o].event = sub[o].event
  BY DEF Offer, IngestTypes, Request
<1>2. \A x \in Events : x # e => (InHand(x)' <=> InHand(x))
  BY <1>0, <1>1 DEF InHand
<1>3. InHand(e)
  BY DEF InHand
<1>4. ASSUME NEW o \in Senders \ {s}, sub'[o].event = e PROVE CrowdedAt(at, clock)
  BY <1>0, <1>1, <1>4 DEF Table
<1>5. \/ at' = [at EXCEPT ![e] = clock] /\ UNCHANGED seen
      \/ at' = at /\ seen' = [seen EXCEPT ![e] = -1]
  BY DEF Offer, Forgotten
<1>6. IsFiniteSet(Taken')
  <2>1. Taken' \subseteq Taken \union {e}
    BY <1>0, <1>5 DEF Taken
  <2>2. IsFiniteSet(Taken \union {e})
    BY FS_AddElement DEF Table
  <2>. QED
    BY <2>1, <2>2, FS_Subset
<1>7. IsFiniteSet(Marked(seen)')
  <2>1. Marked(seen)' \subseteq Marked(seen)
    BY <1>0, <1>5 DEF Marked
  <2>. QED
    BY <2>1, FS_Subset DEF Table
<1>8. \A x \in Events : at'[x] \in -1 .. clock' /\ seen'[x] \in -1 .. clock' /\ at'[x] >= at[x]
  BY <1>0, <1>5 DEF Table
<1>9. \A c \in Int : CrowdedAt(at, c) => CrowdedAt(at', c)
  BY <1>0, <1>6, <1>8, CrowdedGrows DEF Taken
<1>10. ASSUME NEW x \in Events, seen'[x] >= 0
       PROVE  at'[x] = seen'[x] \/ (seen'[x] = clock' /\ InHand(x)')
  <2>1. CASE x = e
    BY <1>0, <1>3, <1>5, <1>10, <2>1 DEF Table
  <2>2. CASE x # e
    BY <1>0, <1>2, <1>5, <1>10, <2>2 DEF Table
  <2>. QED
    BY <2>1, <2>2
<1>11. ASSUME NEW x \in Events, InHand(x)' PROVE seen'[x] \in {-1, clock'}
  BY <1>0, <1>2, <1>3, <1>5, <1>11 DEF Table
<1>12. ASSUME NEW u \in Senders, sub'[u].event # NoEvent,
              \/ seen'[sub'[u].event] = -1
              \/ \E o \in Senders \ {u} : sub'[o].event = sub'[u].event
       PROVE  CrowdedAt(at', clock')
  <2>1. u # s /\ sub'[u].event = sub[u].event /\ sub[u].event \in Events
    BY <1>1, <1>12 DEF IngestTypes, Request
  <2>2. CASE sub[u].event = e
    BY <1>0, <1>4, <1>9, <2>1, <2>2
  <2>3. CASE sub[u].event # e
    <3>1. seen'[sub[u].event] = seen[sub[u].event]
      BY <1>0, <1>5, <2>1, <2>3
    <3>. QED
      BY <1>0, <1>1, <1>9, <1>12, <2>1, <2>3, <3>1 DEF Table
  <2>. QED
    BY <2>2, <2>3
<1>13. ASSUME NEW x \in Events, seen'[x] = -1 \/ InHand(x)', at'[x] >= 0, clock - at'[x] <= TTL
       PROVE  CrowdedAt(at', at'[x])
  <2>1. CASE x = e /\ at' = [at EXCEPT ![e] = clock] /\ UNCHANGED seen
    <3>1. at'[x] = clock /\ seen' = seen
      BY <1>0, <1>5, <2>1
    <3>2. CASE seen[e] = -1
      BY <1>0, <1>9, <2>1, <3>1, <3>2 DEF Table
    <3>3. CASE InHand(e)'
      BY <1>0, <1>1, <1>4, <1>9, <2>1, <3>1, <3>3 DEF InHand
    <3>. QED
      BY <1>13, <2>1, <3>1, <3>2, <3>3
  <2>2. CASE x = e /\ at' = at
    BY <1>0, <1>3, <1>9, <1>13, <2>2 DEF Table
  <2>3. CASE x # e
    <3>1. at'[x] = at[x] /\ seen'[x] = seen[x]
      BY <1>0, <1>5, <2>3
    <3>. QED
      BY <1>0, <1>2, <1>9, <1>13, <2>3, <3>1 DEF Table
  <2>. QED
    BY <1>5, <2>1, <2>2, <2>3
<1>. QED
  BY <1>0, <1>6, <1>7, <1>8, <1>10, <1>11, <1>12, <1>13 DEF Table

LEMMA TableCleanup ==
    ASSUME IngestTypes, Table, CleanupSeen
    PROVE  Table'
<1>0. /\ UNCHANGED <<clock, at, sub>> /\ seen' = Pruned /\ TTL \in Nat /\ clock \in Nat
      /\ NoEvent \notin Events
  BY IngestAssumption DEF CleanupSeen, IngestTypes
<1>1. IsFiniteSet(Marked(seen)') /\ Taken' = Taken
  BY <1>0, PruneForgets DEF Taken, Marked
<1>2. \A x \in Events :
        \/ seen'[x] = seen[x]
        \/ seen'[x] = -1 /\ ~InHand(x) /\ (at[x] < 0 \/ clock - at[x] > TTL)
  BY <1>0, PruneForgets
<1>3. \A x \in Events : InHand(x)' <=> InHand(x)
  BY <1>0 DEF InHand
<1>4. \A x \in Events : seen'[x] \in -1 .. clock
  BY <1>0, <1>2 DEF Table
<1>5. \A x \in Events : seen'[x] >= 0 => seen'[x] = seen[x]
  BY <1>2
<1>6. ASSUME NEW u \in Senders, sub[u].event # NoEvent,
             \/ seen'[sub[u].event] = -1
             \/ \E o \in Senders \ {u} : sub[o].event = sub[u].event
      PROVE  CrowdedAt(at, clock)
  <2>1. sub[u].event \in Events /\ InHand(sub[u].event)
    BY <1>6 DEF IngestTypes, Request, InHand
  <2>. QED
    BY <1>2, <1>6, <2>1 DEF Table
<1>7. ASSUME NEW x \in Events, seen'[x] = -1 \/ InHand(x), at[x] >= 0, clock - at[x] <= TTL
      PROVE  CrowdedAt(at, at[x])
  <2>1. at[x] \in Int
    BY DEF IngestTypes
  <2>2. seen'[x] = seen[x]
    BY <1>0, <1>2, <1>7, <2>1
  <2>. QED
    BY <1>7, <2>2 DEF Table
<1>8. \A x \in Events : InHand(x) => seen'[x] \in {-1, clock}
  BY <1>2 DEF Table
<1>. QED
  BY <1>0, <1>1, <1>3, <1>4, <1>5, <1>6, <1>7, <1>8 DEF Table

LEMMA TableTick ==
    ASSUME IngestTypes, Table, Tick
    PROVE  Table'
<1>0. /\ clock' = clock + 1 /\ clock \in Nat /\ TTL \in Nat /\ UNCHANGED <<seen, at, sub>>
      /\ \A s \in Senders : sub[s].event = NoEvent
      /\ NoEvent \notin Events /\ at \in [Events -> Int]
  BY IngestAssumption DEF Tick, IngestTypes
<1>1. \A x \in Events : ~InHand(x) /\ ~InHand(x)'
  BY <1>0 DEF InHand
<1>2. \A x \in Events : at[x] \in -1 .. clock + 1 /\ seen[x] \in -1 .. clock + 1
  BY <1>0 DEF Table
<1>3. ASSUME NEW x \in Events, seen[x] = -1, at[x] >= 0, clock + 1 - at[x] <= TTL
      PROVE  CrowdedAt(at, at[x])
  BY <1>0, <1>3 DEF Table
<1>4. IsFiniteSet(Taken') /\ IsFiniteSet(Marked(seen)')
  BY <1>0 DEF Table, Taken, Marked
<1>. QED
  BY <1>0, <1>1, <1>2, <1>3, <1>4 DEF Table

LEMMA TableStep ==
    ASSUME IngestTypes, IngestTypes', Table, IngestStep \/ UNCHANGED ingestVars
    PROVE  Table'
<1>1. ASSUME NEW s \in Senders, Answer(s) \/ Leave(s) \/ \E events \in Seq(Events) : Submit(s, events)
      PROVE  Table'
  <2>1. SameHands
    <3>1. DOMAIN sub = Senders /\ \A o \in Senders : Request(sub[o])
      BY DEF IngestTypes
    <3>2. CASE Answer(s)
      BY <3>1, <3>2 DEF Answer, Submitted, SameHands, NoRequest
    <3>3. CASE Leave(s)
      BY <3>1, <3>3 DEF Leave, SameHands, Request
    <3>4. CASE \E events \in Seq(Events) : Submit(s, events)
      <4>1. sub[s].event = NoEvent /\ \E r : r.event = NoEvent /\ sub' = [sub EXCEPT ![s] = r]
        BY <3>1, <3>4 DEF Submit, NoRequest, Request
      <4>. QED
        BY <3>1, <4>1 DEF SameHands
    <3>. QED
      BY <1>1, <3>2, <3>3, <3>4
  <2>. QED
    BY <1>1, <2>1, TableUnchanged DEF Answer, Leave, Submit
<1>2. UNCHANGED <<clock, seen, at, sub>> => Table'
  BY TableUnchanged DEF SameHands, IngestTypes
<1>. QED
  BY <1>1, <1>2, TableCheck, TableOffer, TableCleanup, TableTick DEF IngestStep, IngestNext,
     Stop, BeginClose, Exit, Work, Done, SinkTake, SinkFlush, CloseSink, SinkClosed, ingestVars

LEMMA IntakeInductive ==
    /\ Init => CollectorTypes /\ IngestTypes /\ Table
    /\ CollectorTypes /\ IngestTypes /\ Table /\ [Next]_vars
         => CollectorTypes' /\ IngestTypes' /\ Table'
<1>1. Init => CollectorTypes /\ IngestTypes /\ Table
  BY CollectorTypesInit, IngestTypesInit, TableInit
<1>2. ASSUME CollectorTypes, IngestTypes, Table, [Next]_vars
      PROVE  CollectorTypes' /\ IngestTypes' /\ Table'
  <2>1. IngestStep \/ UNCHANGED ingestVars
    BY <1>2, IngestMoves
  <2>2. CollectorTypes' /\ IngestTypes'
    BY <1>2, <2>1, CollectorTypesStep, IngestTypesStep
  <2>. QED
    BY <1>2, <2>1, <2>2, TableStep
<1>. QED
  BY <1>1, <1>2

LEMMA DuplicateStep ==
    ASSUME IngestTypes, Table, IngestStep \/ UNCHANGED ingestVars, NEW s \in Senders,
           sub'[s].result.duplicates > sub[s].result.duplicates
    PROVE  \/ at[Head(sub[s].rest)] >= 0
           \/ \E o \in Senders \ {s} : sub[o].event = Head(sub[s].rest)
<1>0. DOMAIN sub = Senders /\ \A o \in Senders : Request(sub[o])
  BY DEF IngestTypes
<1>1. sub'[s] # sub[s]
  BY <1>0 DEF Request, Answered
<1>2. PICK o \in Senders :
        Check(o) \/ Offer(o) \/ Answer(o) \/ Leave(o) \/ \E events \in Seq(Events) : Submit(o, events)
  BY <1>1 DEF IngestStep, IngestNext, Tick, CleanupSeen, Stop, BeginClose, Exit, Work, Done,
     SinkTake, SinkFlush, CloseSink, SinkClosed, ingestVars
<1>3. o = s
  BY <1>1, <1>2, RequestTypes
<1>4. Check(s) /\ seen[Head(sub[s].rest)] >= 0
  <2>1. ASSUME sub'[s].result = NoResult PROVE FALSE
    BY <1>0, <2>1 DEF Request, Answered, NoResult
  <2>2. ~Answer(s) /\ ~\E events \in Seq(Events) : Submit(s, events)
    <3>1. CASE Answer(s)
      BY <1>0, <2>1, <3>1 DEF Answer, NoRequest
    <3>2. ASSUME NEW events \in Seq(Events), Submit(s, events) PROVE FALSE
      <4>1. sub'[s] = [NoRequest EXCEPT !.open = TRUE, !.rest = events]
        BY <1>0, <3>2 DEF Submit
      <4>. QED
        BY <2>1, <4>1 DEF NoRequest
    <3>. QED
      BY <3>1, <3>2
  <2>3. ASSUME sub'[s].result.duplicates = sub[s].result.duplicates PROVE FALSE
    BY <1>0, <2>3 DEF Request, Answered
  <2>4. ~Offer(s) /\ ~Leave(s)
    <3>1. CASE Leave(s)
      BY <1>0, <2>3, <3>1 DEF Leave, Request, Answered
    <3>2. CASE Offer(s)
      <4>1. \/ sub' = [sub EXCEPT ![s].event = NoEvent, ![s].result.accepted = @ + 1]
            \/ sub' = [sub EXCEPT ![s].event = NoEvent, ![s].result.dropped = @ + 1]
        BY <3>2 DEF Offer
      <4>. QED
        BY <1>0, <2>3, <4>1 DEF Request, Answered
    <3>. QED
      BY <3>1, <3>2
  <2>5. Check(s)
    BY <1>2, <1>3, <2>2, <2>4
  <2>. QED
    BY <1>0, <2>3, <2>5 DEF Check, Request
<1>5. Head(sub[s].rest) \in Events /\ sub[s].event = NoEvent
  BY <1>0, <1>4 DEF Check, Request
<1>6. CASE InHand(Head(sub[s].rest))
  BY <1>5, <1>6, IngestAssumption DEF InHand
<1>7. CASE at[Head(sub[s].rest)] = seen[Head(sub[s].rest)]
  BY <1>4, <1>7
<1>. QED
  BY <1>4, <1>5, <1>6, <1>7 DEF Table

(* A sender is told "duplicate" only of an event that was taken or that    *)
(* another request has in hand at that moment, for any number of requests  *)
(* and any room in the table, whatever is pruned or dropped in between     *)
(* (Submit, isDuplicate, markDropped and cleanupSeen of pipeline.go).      *)
THEOREM DuplicatesWereTaken == Spec => DuplicateWasTaken
<1>1. /\ CollectorTypes /\ IngestTypes /\ Table /\ [Next]_vars
      => [\A s \in Senders : sub'[s].result.duplicates > sub[s].result.duplicates =>
            LET e == Head(sub[s].rest)
            IN  at[e] >= 0 \/ \E o \in Senders \ {s} : sub[o].event = e]_ingestVars
  BY DuplicateStep, IngestMoves
<1>. QED
  BY <1>1, IntakeInductive, PTL DEF Spec, DuplicateWasTaken

-----------------------------------------------------------------------------
(* The refinement of Intake.                                               *)

Queued(e) == {i \in DOMAIN queue : queue[i] = e}
Busy(e) == {w \in Workers : doing[w] = e}

LEMMA HoldingIsNat ==
    ASSUME IngestTypes, NEW e
    PROVE  /\ IsFiniteSet(Queued(e)) /\ IsFiniteSet(Busy(e))
           /\ Cardinality(Queued(e)) \in Nat /\ Cardinality(Busy(e)) \in Nat
           /\ Holding(e) = Cardinality(Queued(e)) + Cardinality(Busy(e))
<1>1. IsFiniteSet(DOMAIN queue)
  <2>1. DOMAIN queue = 1 .. Len(queue) /\ Len(queue) \in Nat
    BY DEF IngestTypes
  <2>. QED
    BY <2>1, FS_Interval
<1>2. IsFiniteSet(Queued(e)) /\ IsFiniteSet(Busy(e))
  BY <1>1, IngestAssumption, FS_Subset DEF Queued, Busy
<1>. QED
  BY <1>2, FS_CardinalityType DEF Holding, Queued, Busy

(* One event more at the end of the queue is one more held. *)
LEMMA HoldingAppend ==
    ASSUME IngestTypes, IngestTypes', NEW e \in Events, queue' = Append(queue, e), UNCHANGED doing,
           NEW x \in Events
    PROVE  Holding(x)' = IF x = e THEN Holding(x) + 1 ELSE Holding(x)
<1>. DEFINE n == Len(queue) + 1
<1>1. /\ n \in Nat /\ DOMAIN queue = 1 .. n - 1 /\ DOMAIN queue' = 1 .. n /\ queue'[n] = e
      /\ \A i \in 1 .. n - 1 : queue'[i] = queue[i]
  BY DEF IngestTypes
<1>. HIDE DEF n
<1>2. Queued(x)' = IF x = e THEN Queued(x) \union {n} ELSE Queued(x)
  BY <1>1 DEF Queued
<1>3. n \notin Queued(x)
  BY <1>1 DEF Queued
<1>4. Cardinality(Queued(x)') = IF x = e THEN Cardinality(Queued(x)) + 1 ELSE Cardinality(Queued(x))
  BY <1>2, <1>3, HoldingIsNat, FS_AddElement
<1>5. Busy(x)' = Busy(x)
  BY DEF Busy
<1>6. Holding(x)' = Cardinality(Queued(x)') + Cardinality(Busy(x)')
  BY DEF Holding, Queued, Busy
<1>. QED
  BY <1>4, <1>5, <1>6, HoldingIsNat

(* An event that a worker takes from the queue is held as before. *)
LEMMA HoldingMoves ==
    ASSUME IngestTypes, IngestTypes', queue # <<>>, queue' = Tail(queue),
           NEW w \in Workers, doing[w] = NoEvent, doing' = [doing EXCEPT ![w] = Head(queue)],
           NEW x \in Events
    PROVE  Holding(x)' = Holding(x)
<1>. DEFINE n == Len(queue)
            rest == {i \in 2 .. n : queue[i] = x}
<1>1. /\ n \in Nat \ {0} /\ DOMAIN queue = 1 .. n /\ DOMAIN queue' = 1 .. n - 1
      /\ Head(queue) = queue[1] /\ \A i \in 1 .. n - 1 : queue'[i] = queue[i + 1]
  BY DEF IngestTypes
<1>. HIDE DEF n
<1>2. x # NoEvent /\ doing \in [Workers -> Events \union {NoEvent}]
  BY IngestAssumption DEF IngestTypes
<1>3. IsFiniteSet(rest) /\ Cardinality(rest) \in Nat
  <2>1. IsFiniteSet(2 .. n)
    BY <1>1, FS_Interval
  <2>2. IsFiniteSet(rest)
    BY <2>1, FS_Subset
  <2>. QED
    BY <2>2, FS_CardinalityType
<1>4. Queued(x) = IF queue[1] = x THEN rest \union {1} ELSE rest
  BY <1>1 DEF Queued
<1>5. Cardinality(Queued(x)) = IF queue[1] = x THEN Cardinality(rest) + 1 ELSE Cardinality(rest)
  <2>1. 1 \notin rest
    BY <1>1
  <2>. QED
    BY <1>3, <1>4, <2>1, FS_AddElement
<1>6. Cardinality(Queued(x)') = Cardinality(rest)
  <2>. DEFINE f == [i \in rest |-> i - 1]
  <2>1. f \in Bijection(rest, Queued(x)')
    <3>1. f \in Injection(rest, Queued(x)')
      BY <1>1 DEF Injection, IsInjective, Queued
    <3>2. ASSUME NEW j \in Queued(x)' PROVE \E i \in rest : f[i] = j
      <4>1. j + 1 \in rest /\ f[j + 1] = j
        BY <1>1, <3>2 DEF Queued
      <4>. QED
        BY <4>1
    <3>. QED
      BY <3>1, <3>2 DEF Bijection, Surjection, Injection
  <2>2. ExistsBijection(rest, Queued(x)')
    BY <2>1 DEF ExistsBijection
  <2>. QED
    BY <1>3, <2>2, FS_Bijection
<1>7. Busy(x)' = IF queue[1] = x THEN Busy(x) \union {w} ELSE Busy(x)
  BY <1>1, <1>2 DEF Busy
<1>8. Cardinality(Busy(x)') = IF queue[1] = x THEN Cardinality(Busy(x)) + 1 ELSE Cardinality(Busy(x))
  <2>1. w \notin Busy(x)
    BY <1>2 DEF Busy
  <2>. QED
    BY <1>7, <2>1, HoldingIsNat, FS_AddElement
<1>9. Holding(x)' = Cardinality(Queued(x)') + Cardinality(Busy(x)')
  BY DEF Holding, Queued, Busy
<1>. QED
  BY <1>3, <1>5, <1>6, <1>8, <1>9, HoldingIsNat

(* What a worker has done is held once less. *)
LEMMA HoldingDone ==
    ASSUME IngestTypes, IngestTypes', UNCHANGED queue, NEW w \in Workers, doing[w] # NoEvent,
           doing' = [doing EXCEPT ![w] = NoEvent], NEW x \in Events
    PROVE  /\ Holding(x)' = IF x = doing[w] THEN Holding(x) - 1 ELSE Holding(x)
           /\ x = doing[w] => Holding(x) > 0
<1>1. x # NoEvent /\ doing \in [Workers -> Events \union {NoEvent}]
  BY IngestAssumption DEF IngestTypes
<1>2. Busy(x)' = IF x = doing[w] THEN Busy(x) \ {w} ELSE Busy(x)
  BY <1>1 DEF Busy
<1>3. x = doing[w] => w \in Busy(x)
  BY DEF Busy
<1>4. Cardinality(Busy(x)') = IF x = doing[w] THEN Cardinality(Busy(x)) - 1 ELSE Cardinality(Busy(x))
  BY <1>2, <1>3, HoldingIsNat, FS_RemoveElement
<1>5. x = doing[w] => Cardinality(Busy(x)) # 0
  BY <1>3, HoldingIsNat, FS_EmptySet
<1>6. Holding(x)' = Cardinality(Queued(x)') + Cardinality(Busy(x)')
  BY DEF Holding, Queued, Busy
<1>7. Queued(x)' = Queued(x)
  BY DEF Queued
<1>. QED
  BY <1>4, <1>5, <1>6, <1>7, HoldingIsNat

Held == [e \in Events |-> Holding(e)]

(* An event that is taken a second time within TTL found a crowd before. *)
LEMMA TakenAgain ==
    ASSUME IngestTypes, Table, NEW s \in Senders, Offer(s), sub[s].event \in Events,
           at[sub[s].event] >= 0, clock - at[sub[s].event] <= TTL
    PROVE  Promise!Crowded
<1>. DEFINE e == sub[s].event
            c == at[e]
            A == {x \in Events : at[x] >= 0 /\ at[x] >= c - TTL}
            B == {x \in Events : at[x] >= 0 /\ clock - at[x] <= 2 * TTL}
<1>1. TTL \in Nat /\ Room \in Nat /\ clock \in Nat /\ at \in [Events -> Int] /\ c \in Int
  BY IngestAssumption DEF IngestTypes
<1>2. CrowdedAt(at, c)
  BY DEF Table, InHand
<1>3. IsFiniteSet(B)
  BY FS_Subset DEF Table, Taken
<1>. HIDE DEF c
<1>4. A \subseteq B
  <2>. SUFFICES ASSUME NEW x \in Events, at[x] >= 0, at[x] >= c - TTL PROVE clock - at[x] <= 2 * TTL
    OBVIOUS
  <2>1. clock - c <= TTL /\ at[x] \in Int
    BY <1>1 DEF c
  <2>. QED
    BY <1>1, <2>1
<1>5. IsFiniteSet(A) /\ Cardinality(A) <= Cardinality(B)
  BY <1>3, <1>4, FS_Subset
<1>6. Cardinality(A) \in Nat /\ Cardinality(B) \in Nat /\ Cardinality(Senders) \in Nat
  BY <1>3, <1>5, FS_CardinalityType, IngestAssumption
<1>7. Cardinality(A) + (Cardinality(Senders) - 1) >= Room
  BY <1>2 DEF CrowdedAt
<1>. HIDE DEF A, B
<1>8. Cardinality(B) + (Cardinality(Senders) - 1) >= Room
  BY <1>1, <1>5, <1>6, <1>7
<1>9. Promise!Cardinality(B) = Cardinality(B)
  BY DEF Promise!Cardinality, Cardinality
<1>. QED
  BY <1>8, <1>9 DEF Promise!Crowded, B

LEMMA Refines ==
    ASSUME IngestTypes, IngestTypes', Table, IngestStep \/ UNCHANGED ingestVars
    PROVE  Promise!Next \/ UNCHANGED Promise!vars
<1>1. ASSUME UNCHANGED <<queue, doing>> PROVE Held' = Held
  BY <1>1 DEF Held, Holding
<1>2. ASSUME UNCHANGED <<clock, queue, doing, at, phase>> PROVE UNCHANGED Promise!vars
  BY <1>1, <1>2 DEF Promise!vars, Held
<1>3. CASE Tick
  BY <1>1, <1>3 DEF Tick, Promise!Next, Promise!Tick, Held
<1>4. CASE Stop
  BY <1>1, <1>4 DEF Stop, Promise!Next, Promise!Stop, Held
<1>5. CASE BeginClose \/ Exit
  BY <1>1, <1>5 DEF BeginClose, Exit, Promise!vars, Held
<1>6. ASSUME NEW s \in Senders, Offer(s) PROVE Promise!Next \/ UNCHANGED Promise!vars
  <2>1. CASE UNCHANGED <<queue, at>>
    BY <1>2, <1>6, <2>1 DEF Offer
  <2>2. CASE queue' = Append(queue, sub[s].event) /\ at' = [at EXCEPT ![sub[s].event] = clock]
    <3>. SUFFICES ASSUME NEW e \in Events, e = sub[s].event PROVE Promise!Take(e)
      BY <1>6 DEF Offer, IngestTypes, Request, Promise!Next
    <3>1. UNCHANGED <<clock, doing, phase>>
      BY <1>6 DEF Offer
    <3>2. \A x \in Events : Holding(x)' = IF x = e THEN Holding(x) + 1 ELSE Holding(x)
      BY <2>2, <3>1, HoldingAppend
    <3>3. Held' = [Held EXCEPT ![e] = @ + 1]
      BY <3>2 DEF Held
    <3>4. ~Promise!Recent(e) \/ Promise!Crowded
      BY <1>6, TakenAgain DEF Promise!Recent
    <3>. QED
      BY <2>2, <3>1, <3>3, <3>4 DEF Promise!Take, Held
  <2>. QED
    BY <1>6, <2>1, <2>2 DEF Offer
<1>7. ASSUME NEW w \in Workers, Work(w) PROVE UNCHANGED Promise!vars
  <2>1. \A x \in Events : Holding(x)' = Holding(x)
    BY <1>7, HoldingMoves DEF Work
  <2>2. Held' = Held
    BY <2>1 DEF Held
  <2>. QED
    BY <1>7, <2>2 DEF Work, Promise!vars, Held
<1>8. ASSUME NEW w \in Workers, Done(w) PROVE Promise!Next
  <2>. SUFFICES ASSUME NEW e \in Events, e = doing[w] PROVE Promise!Handle(e)
    BY <1>8 DEF Done, IngestTypes, Promise!Next
  <2>1. \A x \in Events : /\ Holding(x)' = IF x = e THEN Holding(x) - 1 ELSE Holding(x)
                          /\ x = e => Holding(x) > 0
    BY <1>8, HoldingDone DEF Done
  <2>2. Held' = [Held EXCEPT ![e] = @ - 1] /\ Held[e] > 0
    BY <2>1 DEF Held
  <2>. QED
    BY <1>8, <2>2 DEF Done, Promise!Handle, Held
<1>. QED
  BY <1>2, <1>3, <1>4, <1>5, <1>6, <1>7, <1>8 DEF IngestStep, IngestNext, CleanupSeen, Check,
     SinkTake, SinkFlush, CloseSink, SinkClosed, Answer, Leave, Submit, ingestVars

(* The intake keeps Intake's promise in every step: an event that was      *)
(* taken is handled once for each time it was taken and is not taken again *)
(* within TTL except in a crowd, for any number of requests, workers and   *)
(* events and any sizes.  That handling goes on in the end is fairness's   *)
(* part and left to TLC.                                                   *)
THEOREM IntakeKept == Spec => Promise!Init /\ [][Promise!Next]_(Promise!vars)
<1>1. Init => Promise!Init
  <2>. SUFFICES ASSUME Init PROVE Promise!Init
    OBVIOUS
  <2>1. \A e \in Events : Queued(e) = {} /\ Busy(e) = {}
    BY IngestAssumption DEF Init, IngestInit, Queued, Busy
  <2>2. \A e \in Events : Holding(e) = 0
    BY <2>1, FS_EmptySet DEF Holding, Queued, Busy
  <2>. QED
    BY <2>2 DEF Init, IngestInit, Promise!Init
<1>2. /\ CollectorTypes /\ IngestTypes /\ Table /\ [Next]_vars
      => [Promise!Next]_(Promise!vars)
  <2>. SUFFICES ASSUME CollectorTypes, IngestTypes, Table, [Next]_vars
                PROVE  [Promise!Next]_(Promise!vars)
    OBVIOUS
  <2>1. IngestStep \/ UNCHANGED ingestVars
    BY IngestMoves
  <2>. QED
    BY <2>1, IngestTypesStep, Refines
<1>. QED
  BY <1>1, <1>2, IntakeInductive, PTL DEF Spec

-----------------------------------------------------------------------------
(* The tail of a log that is renamed: pieces follow each other in a file,  *)
(* and the gateway's new file goes on where the old one ended.             *)

Whole(c) ==
    /\ Len(c) > 0 => c[1].part # "rest"
    /\ \A i \in DOMAIN c : i + 1 \in DOMAIN c =>
         IF c[i].part = "start"
         THEN c[i + 1].part = "rest" /\ c[i + 1].line = c[i].line
         ELSE c[i + 1].part # "rest" /\ c[i + 1].line = c[i].line + 1

LastLine(c, before) == IF Len(c) = 0 THEN before ELSE c[Len(c)].line

(* Where the tail is in content c: what it has handled and what it keeps.  *)
At(c, offset, partial, last) ==
    /\ offset <= Len(c)
    /\ offset = 0 => partial = 0 /\ (Len(c) > 0 => c[1].line = last + 1)
    /\ offset > 0 => \/ partial = 0 /\ last = c[offset].line
                     \/ c[offset].part = "start" /\ partial = c[offset].line
                        /\ last + 1 = c[offset].line

Renamed ==
    /\ \A f \in Files : Whole(file[f])
    /\ fd \in Files /\ Len(file[fd]) > 0 =>
         /\ file[fd][Len(file[fd])].line = written
         /\ half <=> file[fd][Len(file[fd])].part = "start"
    /\ half => Len(file[fd]) > 0
    /\ path = NoFile => IF tail.pc = "wait" THEN fd = NoFile ELSE tail.file = fd
    /\ tail.pc # "wait" =>
         /\ At(file[tail.file], tail.offset, tail.partial, tail.last)
         /\ tail.file = fd /\ Len(file[fd]) = 0 => written = tail.last
         /\ tail.file # fd =>
              /\ path = fd /\ fd \in Files
              /\ LET c == file[tail.file] IN
                 /\ Len(c) > 0 => c[Len(c)].part # "start"
                 /\ IF Len(file[fd]) = 0 THEN written = LastLine(c, tail.last)
                    ELSE file[fd][1].line = LastLine(c, tail.last) + 1
    /\ tail.pc \in {"drainAgain", "open"} => path # NoFile /\ path # tail.file
    /\ tail.pc = "open" => tail.offset = Len(file[tail.file])

(* The tail of a log that is truncated: what it has not read is new, also  *)
(* what it reads again from the start or goes on with in the middle.       *)
Sorted(c) ==
    \A i, j \in DOMAIN c : i < j =>
      \/ c[i].line < c[j].line
      \/ c[i].line = c[j].line /\ c[i].part = "start" /\ c[j].part = "rest"

NewTo(last, piece) == piece.line > last \/ (piece.line = last /\ piece.part = "rest")

Truncating ==
    /\ \A f \in Files : Sorted(file[f])
    /\ half => \A i \in DOMAIN file[fd] : file[fd][i].line = written => file[fd][i].part = "start"
    /\ path = fd
    /\ tail.last <= written
    /\ tail.partial = 0 \/ tail.partial > tail.last
    /\ tail.pc # "wait" =>
         /\ tail.pc \in {"drain", "stat"} /\ tail.file = fd
         /\ \A i \in DOMAIN file[fd] :
              i > tail.offset \/ Len(file[fd]) < tail.offset => NewTo(tail.last, file[fd][i])

InOrder ==
    /\ tail.pc = "wait" => tail.partial = 0 /\ tail.file = NoFile
    /\ IF mode.rotate = "truncate" THEN Truncating ELSE Renamed

LEMMA InOrderInit == Init => InOrder
<1>. SUFFICES ASSUME Init PROVE InOrder
  OBVIOUS
<1>1. \A f \in Files : file[f] = <<>>
  BY DEF Init, CollectorInit
<1>2. Len(<<>>) = 0 /\ DOMAIN <<>> = {}
  OBVIOUS
<1>3. Whole(<<>>) /\ Sorted(<<>>)
  BY <1>2 DEF Whole, Sorted
<1>4. /\ path = fd /\ ~half /\ written \in Nat
      /\ tail.pc = "wait" /\ tail.partial = 0 /\ tail.file = NoFile /\ tail.last = 0
  BY DeliveryAssumption DEF Init, CollectorInit
<1>. QED
  BY <1>1, <1>2, <1>3, <1>4 DEF InOrder, Truncating, Renamed

(* The content of the gateway's file as it grows by one piece. *)
LEMMA WholeGrows ==
    ASSUME NEW c \in Seq(Piece), NEW d \in Seq(Piece), Whole(c), Len(d) = Len(c) + 1,
           \A i \in DOMAIN c : d[i] = c[i],
           IF Len(c) = 0 THEN d[1].part # "rest"
           ELSE IF c[Len(c)].part = "start"
           THEN d[Len(d)].part = "rest" /\ d[Len(d)].line = c[Len(c)].line
           ELSE d[Len(d)].part # "rest" /\ d[Len(d)].line = c[Len(c)].line + 1
    PROVE  Whole(d)
<1>1. /\ Len(c) \in Nat /\ DOMAIN c = 1 .. Len(c) /\ DOMAIN d = 1 .. Len(c) + 1
  OBVIOUS
<1>2. d[1].part # "rest"
  BY <1>1 DEF Whole
<1>3. ASSUME NEW i \in DOMAIN d, i + 1 \in DOMAIN d
      PROVE  IF d[i].part = "start"
             THEN d[i + 1].part = "rest" /\ d[i + 1].line = d[i].line
             ELSE d[i + 1].part # "rest" /\ d[i + 1].line = d[i].line + 1
  <2>1. i \in DOMAIN c /\ d[i] = c[i]
    BY <1>1, <1>3
  <2>2. CASE i = Len(c)
    BY <1>1, <2>1, <2>2
  <2>3. CASE i # Len(c)
    BY <1>1, <1>3, <2>1, <2>3 DEF Whole
  <2>. QED
    BY <2>2, <2>3
<1>. QED
  BY <1>2, <1>3 DEF Whole

LEMMA RenamedWrite ==
    ASSUME CollectorTypes, InOrder, mode.rotate # "truncate", UNCHANGED <<mode, tail, path, fd>>,
           WriteLine \/ WriteRest
    PROVE  Renamed'
<1>0. Renamed /\ NoFile \notin Files
  BY CollectorAssumption DEF InOrder
<1>1. PICK line \in Nat, part \in {"whole", "start", "rest"} :
        /\ Write(line, part) /\ fd \in Files
        /\ written' = line /\ (half' <=> part = "start")
        /\ IF half THEN part = "rest" /\ line = written ELSE part # "rest" /\ line = written + 1
  <2>1. CASE WriteLine
    BY <2>1 DEF WriteLine, CollectorTypes
  <2>2. CASE WriteRest
    BY <2>2 DEF WriteRest, CollectorTypes
  <2>. QED
    BY <2>1, <2>2
<1>. DEFINE c == file[fd]
<1>2. PICK d : d = file'[fd]
  OBVIOUS
<1>3. /\ c \in Seq(Piece) /\ d \in Seq(Piece) /\ Len(d) = Len(c) + 1 /\ Len(c) \in Nat
      /\ DOMAIN c = 1 .. Len(c) /\ DOMAIN d = 1 .. Len(c) + 1
      /\ d[Len(c) + 1].line = line /\ d[Len(c) + 1].part = part
      /\ \A i \in DOMAIN c : d[i] = c[i]
      /\ \A f \in Files : f # fd => file'[f] = file[f]
  <2>1. /\ file' \in [Files -> Seq(Piece)]
        /\ \A f \in Files : f # fd => file'[f] = file[f]
        /\ Len(file'[fd]) = Len(file[fd]) + 1
        /\ file'[fd][Len(file[fd]) + 1].line = line
        /\ file'[fd][Len(file[fd]) + 1].part = part
        /\ \A i \in DOMAIN file[fd] : file'[fd][i] = file[fd][i]
    BY <1>1, WriteAppends
  <2>. QED
    BY <1>1, <1>2, <2>1 DEF CollectorTypes
<1>4. Len(c) = 0 => ~half /\ line = written + 1
  BY <1>0, <1>1 DEF Renamed
<1>5. Len(c) > 0 => c[Len(c)].line = written /\ (half <=> c[Len(c)].part = "start")
  BY <1>0, <1>1 DEF Renamed
<1>6. Whole(d)
  <2>1. Whole(c)
    BY <1>0, <1>1 DEF Renamed
  <2>2. /\ c \in Seq(Piece) /\ d \in Seq(Piece) /\ Len(d) = Len(c) + 1
        /\ \A i \in DOMAIN c : d[i] = c[i]
    BY <1>3
  <2>3. IF Len(c) = 0 THEN d[Len(c) + 1].part # "rest"
        ELSE IF c[Len(c)].part = "start"
        THEN d[Len(c) + 1].part = "rest" /\ d[Len(c) + 1].line = c[Len(c)].line
        ELSE d[Len(c) + 1].part # "rest" /\ d[Len(c) + 1].line = c[Len(c)].line + 1
    BY <1>1, <1>3, <1>4, <1>5
  <2>. HIDE DEF c
  <2>. QED
    BY <2>1, <2>2, <2>3, WholeGrows
<1>7. \A f \in Files : Whole(file'[f])
  BY <1>0, <1>2, <1>3, <1>6 DEF Renamed
<1>8. ASSUME tail.pc # "wait"
      PROVE  /\ At(file'[tail.file], tail.offset, tail.partial, tail.last)
             /\ tail.file = fd => Len(d) > 0
             /\ tail.file # fd =>
                  /\ file'[tail.file] = file[tail.file]
                  /\ d[1].line = LastLine(file[tail.file], tail.last) + 1
  <2>1. tail.file \in Files /\ tail.offset \in Nat
    BY <1>8 DEF CollectorTypes
  <2>2. CASE tail.file = fd
    <3>1. At(c, tail.offset, tail.partial, tail.last) /\ (Len(c) = 0 => written = tail.last)
      BY <1>0, <1>8, <2>2 DEF Renamed
    <3>2. At(d, tail.offset, tail.partial, tail.last)
      BY <1>3, <1>4, <2>1, <3>1 DEF At
    <3>. QED
      BY <1>2, <1>3, <2>2, <3>2
  <2>3. CASE tail.file # fd
    <3>1. file'[tail.file] = file[tail.file]
      BY <1>3, <2>1, <2>3
    <3>2. /\ At(file[tail.file], tail.offset, tail.partial, tail.last)
          /\ IF Len(c) = 0 THEN written = LastLine(file[tail.file], tail.last)
             ELSE c[1].line = LastLine(file[tail.file], tail.last) + 1
      BY <1>0, <1>8, <2>3 DEF Renamed
    <3>3. d[1].line = LastLine(file[tail.file], tail.last) + 1
      BY <1>3, <1>4, <3>2
    <3>. QED
      BY <2>3, <3>1, <3>2, <3>3
  <2>. QED
    BY <2>2, <2>3
<1>9. tail.pc = "open" => tail.file # fd /\ tail.file \in Files
  BY <1>0 DEF Renamed, CollectorTypes
<1>. HIDE DEF c
<1>. QED
  BY <1>0, <1>1, <1>2, <1>3, <1>7, <1>8, <1>9 DEF Renamed

LEMMA RenamedRotate ==
    ASSUME CollectorTypes, InOrder, mode.rotate # "truncate",
           UNCHANGED <<mode, tail, file, written, half>>, Rename \/ OpenLog
    PROVE  Renamed'
<1>0. Renamed /\ NoFile \notin Files
  BY CollectorAssumption DEF InOrder
<1>1. CASE Rename
  <2>1. path' = NoFile /\ fd' = fd /\ path = fd /\ tail.file = fd /\ fd \in Files
    BY <1>1 DEF Rename, CollectorTypes
  <2>2. tail.pc # "wait"
    BY <1>0, <2>1 DEF InOrder
  <2>. QED
    BY <1>0, <2>1, <2>2 DEF Renamed
<1>2. CASE OpenLog
  <2>1. PICK f \in Files : f # fd /\ Len(file[f]) = 0 /\ path' = f /\ fd' = f
    BY <1>2 DEF OpenLog, Unused
  <2>2. path = NoFile /\ ~half /\ f # NoFile
    BY <1>0, <1>2 DEF OpenLog
  <2>3. tail.pc \notin {"drainAgain", "open"}
    BY <1>0, <2>2 DEF Renamed
  <2>4. ASSUME tail.pc # "wait"
        PROVE  /\ tail.file = fd /\ fd \in Files
               /\ Len(file[fd]) > 0 => file[fd][Len(file[fd])].part # "start"
               /\ written = LastLine(file[fd], tail.last)
    <3>1. tail.file = fd /\ fd \in Files
      BY <1>0, <2>2, <2>4 DEF Renamed, CollectorTypes
    <3>2. Len(file[fd]) \in Nat
      BY <3>1 DEF CollectorTypes
    <3>. QED
      BY <1>0, <2>2, <2>4, <3>1, <3>2 DEF Renamed, LastLine
  <2>. QED
    BY <1>0, <2>1, <2>2, <2>3, <2>4 DEF Renamed
<1>. QED
  BY <1>1, <1>2

(* The piece that the tail reads next, and where it is then. *)
LEMMA NextPiece ==
    ASSUME NEW c \in Seq(Piece), Whole(c), \A i \in DOMAIN c : c[i].line > 0,
           NEW o \in Nat, o < Len(c), NEW partial \in Nat, NEW last \in Nat, At(c, o, partial, last)
    PROVE  LET piece == c[o + 1] IN
           /\ piece.part = "start" => At(c, o + 1, piece.line, last)
           /\ piece.part # "start" =>
                IF partial = IF piece.part = "rest" THEN piece.line ELSE 0
                THEN piece.line = last + 1 /\ At(c, o + 1, 0, piece.line)
                ELSE At(c, o + 1, 0, last)
<1>1. /\ Len(c) \in Nat /\ DOMAIN c = 1 .. Len(c) /\ o + 1 \in DOMAIN c
      /\ c[o + 1].line \in Nat /\ c[o + 1].part \in {"whole", "start", "rest"}
      /\ c[o + 1].line > 0
  <2>1. Len(c) \in Nat /\ DOMAIN c = 1 .. Len(c) /\ o + 1 \in DOMAIN c
    OBVIOUS
  <2>2. c[o + 1] \in Piece
    BY <2>1
  <2>. QED
    BY <2>1, <2>2 DEF Piece
<1>2. CASE o = 0
  BY <1>1, <1>2 DEF At, Whole
<1>3. CASE o > 0
  <2>1. /\ o \in DOMAIN c /\ c[o].line \in Nat /\ c[o].part \in {"whole", "start", "rest"}
    <3>1. o \in DOMAIN c /\ c[o] \in Piece
      BY <1>1, <1>3
    <3>. QED
      BY <3>1 DEF Piece
  <2>2. \/ partial = 0 /\ last = c[o].line
        \/ c[o].part = "start" /\ partial = c[o].line /\ last + 1 = c[o].line
    BY <1>3 DEF At
  <2>3. IF c[o].part = "start"
        THEN c[o + 1].part = "rest" /\ c[o + 1].line = c[o].line
        ELSE c[o + 1].part # "rest" /\ c[o + 1].line = c[o].line + 1
    BY <1>1, <2>1 DEF Whole
  <2>. QED
    BY <1>1, <1>3, <2>1, <2>2, <2>3 DEF At
<1>. QED
  BY <1>2, <1>3

(* What a step of the tail must keep of Renamed. *)
LEMMA RenamedTail ==
    ASSUME Renamed, UNCHANGED gatewayVars,
           path = NoFile => tail'.pc # "wait" /\ tail'.file = fd,
           tail'.pc # "wait" =>
             /\ At(file[tail'.file], tail'.offset, tail'.partial, tail'.last)
             /\ tail'.file = fd /\ Len(file[fd]) = 0 => written = tail'.last
             /\ tail'.file # fd =>
                  /\ path = fd /\ fd \in Files
                  /\ LET c == file[tail'.file] IN
                     /\ Len(c) > 0 => c[Len(c)].part # "start"
                     /\ IF Len(file[fd]) = 0 THEN written = LastLine(c, tail'.last)
                        ELSE file[fd][1].line = LastLine(c, tail'.last) + 1,
           tail'.pc \in {"drainAgain", "open"} => path # NoFile /\ path # tail'.file,
           tail'.pc = "open" => tail'.offset = Len(file[tail'.file])
    PROVE  Renamed'
BY DEF Renamed, gatewayVars

LEMMA RenamedFollow ==
    ASSUME CollectorTypes, InOrder, mode.rotate # "truncate", FollowLog
    PROVE  /\ Renamed'
           /\ tail.pc # "wait" /\ tail'.last # tail.last => tail'.last = tail.last + 1
<1>0. /\ Renamed /\ NoFile \notin Files /\ UNCHANGED gatewayVars
      /\ DOMAIN tail = {"pc", "file", "offset", "partial", "last"}
      /\ tail.offset \in Nat /\ tail.partial \in Nat /\ tail.last \in Nat
  BY CollectorAssumption DEF InOrder, FollowLog, CollectorTypes
<1>1. CASE OpenTail
  <2>1. /\ tail.pc = "wait" /\ path \in Files /\ path = fd
        /\ tail'.pc = "drain" /\ tail'.file = fd /\ tail'.offset = Len(file[fd])
        /\ tail'.last = written /\ tail'.partial = tail.partial
    BY <1>0, <1>1 DEF OpenTail, CollectorTypes
  <2>2. tail.partial = 0 /\ Len(file[fd]) \in Nat
    BY <2>1 DEF InOrder, CollectorTypes
  <2>3. At(file[fd], Len(file[fd]), 0, written)
    BY <1>0, <2>1, <2>2 DEF Renamed, At
  <2>. QED
    BY <1>0, <2>1, <2>2, <2>3, RenamedTail
<1>2. ASSUME tail.pc # "wait"
      PROVE  /\ tail.file \in Files /\ file[tail.file] \in Seq(Piece) /\ Whole(file[tail.file])
             /\ \A i \in DOMAIN file[tail.file] : file[tail.file][i].line > 0
             /\ Len(file[tail.file]) \in Nat
             /\ At(file[tail.file], tail.offset, tail.partial, tail.last)
             /\ tail.offset <= Len(file[tail.file])
             /\ path = NoFile => tail.file = fd
  <2>1. tail.file \in Files /\ file[tail.file] \in Seq(Piece)
    BY <1>2 DEF CollectorTypes
  <2>2. \A i \in DOMAIN file[tail.file] : file[tail.file][i].line > 0
    BY <2>1 DEF CollectorTypes, Seen
  <2>. QED
    BY <1>0, <1>2, <2>1, <2>2 DEF Renamed, At
<1>3. CASE ReadPiece
  <2>1. tail.pc \in {"drain", "drainAgain"} /\ tail.offset < Len(file[tail.file])
    BY <1>3 DEF ReadPiece, Draining, Content
  <2>. DEFINE c == file[tail.file]
              piece == c[tail.offset + 1]
  <2>2. /\ piece.part = "start" => At(c, tail.offset + 1, piece.line, tail.last)
        /\ piece.part # "start" =>
             IF tail.partial = IF piece.part = "rest" THEN piece.line ELSE 0
             THEN piece.line = tail.last + 1 /\ At(c, tail.offset + 1, 0, piece.line)
             ELSE At(c, tail.offset + 1, 0, tail.last)
    BY <1>0, <1>2, <2>1, NextPiece
  <2>3. /\ tail'.pc = tail.pc /\ tail'.file = tail.file /\ tail'.offset = tail.offset + 1
        /\ IF piece.part = "start" THEN tail'.partial = piece.line /\ tail'.last = tail.last
           ELSE /\ tail'.partial = 0
                /\ tail'.last = IF tail.partial = IF piece.part = "rest" THEN piece.line ELSE 0
                                THEN piece.line ELSE tail.last
    BY <1>0, <1>3 DEF ReadPiece, Content
  <2>4. /\ At(c, tail'.offset, tail'.partial, tail'.last)
        /\ tail'.last # tail.last => tail'.last = tail.last + 1
    BY <2>2, <2>3
  <2>5. Len(c) > 0 /\ LastLine(c, tail'.last) = LastLine(c, tail.last)
    BY <1>0, <1>2, <2>1 DEF LastLine
  <2>6. tail.file # fd =>
          /\ path = fd /\ fd \in Files
          /\ Len(c) > 0 => c[Len(c)].part # "start"
          /\ IF Len(file[fd]) = 0 THEN written = LastLine(c, tail'.last)
             ELSE file[fd][1].line = LastLine(c, tail'.last) + 1
    BY <1>0, <2>1, <2>5 DEF Renamed
  <2>7. tail.pc \in {"drainAgain", "open"} => path # NoFile /\ path # tail.file
    BY <1>0 DEF Renamed
  <2>8. tail'.file = tail.file /\ tail'.pc \in {"drain", "drainAgain"} /\ tail'.pc = tail.pc
    BY <2>1, <2>3
  <2>9. tail'.file = fd /\ Len(file[fd]) = 0 => written = tail'.last
    BY <2>5, <2>8
  <2>. HIDE DEF c
  <2>10. At(file[tail'.file], tail'.offset, tail'.partial, tail'.last)
    BY <2>4, <2>8 DEF c
  <2>11. tail'.file # fd =>
                  /\ path = fd /\ fd \in Files
                  /\ LET d == file[tail'.file] IN
                     /\ Len(d) > 0 => d[Len(d)].part # "start"
                     /\ IF Len(file[fd]) = 0 THEN written = LastLine(d, tail'.last)
                        ELSE file[fd][1].line = LastLine(d, tail'.last) + 1
    BY <2>6, <2>8 DEF c
  <2>12. Renamed'
    BY <1>0, <1>2, <2>1, <2>7, <2>8, <2>9, <2>10, <2>11, RenamedTail
  <2>. QED
    BY <2>4, <2>12
<1>4. CASE AtEnd
  <2>1. /\ tail.pc \in {"drain", "drainAgain"} /\ tail.offset >= Len(file[tail.file])
        /\ tail'.pc = IF tail.pc = "drain" THEN "stat" ELSE "open"
        /\ tail'.file = tail.file /\ tail'.offset = tail.offset
        /\ tail'.partial = tail.partial /\ tail'.last = tail.last
    BY <1>0, <1>4 DEF AtEnd, Draining, Content
  <2>2. tail.offset = Len(file[tail.file])
    BY <1>0, <1>2, <2>1
  <2>. QED
    BY <1>0, <1>2, <2>1, <2>2, RenamedTail DEF Renamed
<1>5. CASE Stat
  <2>1. tail.pc = "stat" /\ tail.offset <= Len(file[tail.file])
    BY <1>2, <1>5 DEF Stat
  <2>2. /\ tail'.pc = IF path # NoFile /\ path # tail.file THEN "drainAgain" ELSE "drain"
        /\ tail'.file = tail.file /\ tail'.offset = tail.offset
        /\ tail'.partial = tail.partial /\ tail'.last = tail.last
    BY <1>0, <1>2, <1>5, <2>1 DEF Stat, Truncated, Content, Replaced
  <2>. QED
    BY <1>0, <1>2, <2>1, <2>2, RenamedTail DEF Renamed
<1>6. CASE Reopen
  <2>1. /\ tail.pc = "open" /\ path = fd /\ fd \in Files /\ path # tail.file
        /\ tail.offset = Len(file[tail.file])
    BY <1>0, <1>6 DEF Reopen, Renamed, CollectorTypes
  <2>2. /\ tail'.pc = "drain" /\ tail'.file = fd /\ tail'.offset = 0 /\ tail'.partial = 0
        /\ tail'.last = tail.last
    BY <1>0, <1>6, <2>1 DEF Reopen, FromStart
  <2>3. LastLine(file[tail.file], tail.last) = tail.last
    <3>1. CASE Len(file[tail.file]) = 0
      BY <3>1 DEF LastLine
    <3>2. CASE Len(file[tail.file]) > 0
      BY <1>0, <1>2, <2>1, <3>2 DEF LastLine, Renamed, At
    <3>. QED
      BY <1>2, <2>1, <3>1, <3>2
  <2>4. /\ Len(file[fd]) = 0 => written = tail.last
        /\ Len(file[fd]) > 0 => file[fd][1].line = tail.last + 1
        /\ Len(file[fd]) \in Nat
    BY <1>0, <2>1, <2>3 DEF Renamed, CollectorTypes
  <2>5. At(file[fd], 0, 0, tail.last)
    BY <2>4 DEF At
  <2>. QED
    BY <1>0, <2>1, <2>2, <2>4, <2>5, RenamedTail
<1>. QED
  BY <1>1, <1>3, <1>4, <1>5, <1>6 DEF FollowLog

LEMMA TruncatingWrite ==
    ASSUME CollectorTypes, InOrder, mode.rotate = "truncate", UNCHANGED <<mode, tail, path, fd>>,
           WriteLine \/ WriteRest
    PROVE  Truncating'
<1>0. Truncating
  BY DEF InOrder
<1>1. PICK line \in Nat, part \in {"whole", "start", "rest"} :
        /\ Write(line, part) /\ fd \in Files
        /\ written' = line /\ (half' <=> part = "start") /\ line \in Nat
        /\ IF half THEN part = "rest" /\ line = written ELSE line = written + 1
  <2>1. CASE WriteLine
    BY <2>1 DEF WriteLine, CollectorTypes
  <2>2. CASE WriteRest
    BY <2>2 DEF WriteRest, CollectorTypes
  <2>. QED
    BY <2>1, <2>2
<1>2. PICK d : d = file'[fd]
  OBVIOUS
<1>3. PICK c : c = file[fd]
  OBVIOUS
<1>4. /\ Len(c) \in Nat /\ Len(d) = Len(c) + 1
      /\ DOMAIN c = 1 .. Len(c) /\ DOMAIN d = 1 .. Len(c) + 1
      /\ d[Len(c) + 1].line = line /\ d[Len(c) + 1].part = part
      /\ \A i \in DOMAIN c : d[i] = c[i]
      /\ \A f \in Files : f # fd => file'[f] = file[f]
  <2>1. /\ file' \in [Files -> Seq(Piece)]
        /\ \A f \in Files : f # fd => file'[f] = file[f]
        /\ Len(file'[fd]) = Len(file[fd]) + 1
        /\ file'[fd][Len(file[fd]) + 1].line = line
        /\ file'[fd][Len(file[fd]) + 1].part = part
        /\ \A i \in DOMAIN file[fd] : file'[fd][i] = file[fd][i]
    BY <1>1, WriteAppends
  <2>. QED
    BY <1>1, <1>2, <1>3, <2>1 DEF CollectorTypes
<1>5. \A i \in DOMAIN c : c[i].line \in Nat /\ c[i].line <= written /\ written \in Nat
  BY <1>1, <1>3 DEF CollectorTypes, Seen
<1>6. \A i \in DOMAIN c : c[i].line < line \/ (c[i].line = line /\ c[i].part = "start" /\ part = "rest")
  <2>1. CASE half
    BY <1>0, <1>1, <1>3, <1>5, <2>1 DEF Truncating
  <2>2. CASE ~half
    BY <1>1, <1>5, <2>2
  <2>. QED
    BY <2>1, <2>2
<1>7. Sorted(d)
  <2>1. Sorted(c)
    BY <1>0, <1>1, <1>3 DEF Truncating
  <2>2. ASSUME NEW i \in DOMAIN d, NEW j \in DOMAIN d, i < j
        PROVE  \/ d[i].line < d[j].line
               \/ d[i].line = d[j].line /\ d[i].part = "start" /\ d[j].part = "rest"
    <3>1. i \in DOMAIN c /\ d[i] = c[i]
      BY <1>4, <2>2
    <3>2. CASE j \in DOMAIN c
      BY <1>4, <2>1, <2>2, <3>1, <3>2 DEF Sorted
    <3>3. CASE j \notin DOMAIN c
      <4>1. j = Len(c) + 1
        BY <1>4, <3>3
      <4>. QED
        BY <1>4, <1>6, <3>1, <4>1
    <3>. QED
      BY <3>2, <3>3
  <2>. QED
    BY <2>2 DEF Sorted
<1>8. \A f \in Files : Sorted(file'[f])
  BY <1>0, <1>2, <1>4, <1>7 DEF Truncating
<1>9. half' => \A i \in DOMAIN d : d[i].line = line => d[i].part = "start"
  BY <1>1, <1>4, <1>6
<1>10. tail.last \in Nat /\ tail.last <= written /\ tail.last <= line /\ tail.offset \in Nat
  BY <1>0, <1>1 DEF Truncating, CollectorTypes
<1>11. ASSUME tail.pc # "wait", NEW i \in DOMAIN d, i > tail.offset \/ Len(d) < tail.offset
       PROVE  NewTo(tail.last, d[i])
  <2>1. CASE i \in DOMAIN c
    <3>1. i > tail.offset \/ Len(c) < tail.offset
      BY <1>4, <1>10, <1>11
    <3>2. NewTo(tail.last, c[i])
      BY <1>0, <1>3, <1>11, <2>1, <3>1 DEF Truncating
    <3>. QED
      BY <1>4, <2>1, <3>2
  <2>2. CASE i \notin DOMAIN c
    <3>1. i = Len(c) + 1
      BY <1>4, <2>2
    <3>. QED
      BY <1>1, <1>4, <1>10, <3>1, <1>0 DEF NewTo, Truncating, CollectorTypes
  <2>. QED
    BY <2>1, <2>2
<1>. QED
  BY <1>0, <1>1, <1>2, <1>8, <1>9, <1>10, <1>11 DEF Truncating

LEMMA TruncatingRotate ==
    ASSUME CollectorTypes, InOrder, mode.rotate = "truncate",
           UNCHANGED <<mode, tail>>, Truncate \/ Rename \/ OpenLog
    PROVE  Truncating'
<1>0. Truncating /\ NoFile \notin Files
  BY CollectorAssumption DEF InOrder
<1>1. CASE Truncate
  <2>1. UNCHANGED <<path, fd, written, half>>
    BY <1>1 DEF Truncate
  <2>2. \A f \in Files : file'[f] = file[f] \/ DOMAIN file'[f] = {}
    BY <1>1 DEF Truncate, CollectorTypes
  <2>3. fd \in Files /\ DOMAIN file'[fd] = {}
    BY <1>1 DEF Truncate, CollectorTypes
  <2>4. \A f \in Files : Sorted(file'[f])
    BY <1>0, <2>2 DEF Truncating, Sorted
  <2>. QED
    BY <1>0, <2>1, <2>3, <2>4 DEF Truncating
<1>2. CASE Rename
  BY <1>2 DEF Rename
<1>3. CASE OpenLog
  <2>1. /\ path = NoFile /\ fd = NoFile /\ ~half /\ UNCHANGED <<file, written, half>>
        /\ path' = fd'
    BY <1>0, <1>3 DEF OpenLog, Truncating
  <2>2. tail.pc = "wait"
    BY <1>0, <2>1 DEF Truncating, CollectorTypes
  <2>. QED
    BY <1>0, <2>1, <2>2 DEF Truncating
<1>. QED
  BY <1>1, <1>2, <1>3

LEMMA TruncatingFollow ==
    ASSUME CollectorTypes, InOrder, mode.rotate = "truncate", FollowLog
    PROVE  /\ Truncating'
           /\ tail.pc # "wait" /\ tail'.last # tail.last => tail'.last > tail.last
<1>0. /\ Truncating /\ NoFile \notin Files /\ UNCHANGED gatewayVars
      /\ DOMAIN tail = {"pc", "file", "offset", "partial", "last"}
      /\ tail.offset \in Nat /\ tail.partial \in Nat /\ tail.last \in Nat /\ written \in Nat
  BY CollectorAssumption DEF InOrder, FollowLog, CollectorTypes
<1>1. CASE OpenTail
  <2>1. /\ tail.pc = "wait" /\ path \in Files /\ path = fd
        /\ tail'.pc = "drain" /\ tail'.file = fd /\ tail'.offset = Len(file[fd])
        /\ tail'.last = written /\ tail'.partial = tail.partial
    BY <1>0, <1>1 DEF OpenTail, CollectorTypes
  <2>2. tail.partial = 0 /\ Len(file[fd]) \in Nat /\ DOMAIN file[fd] = 1 .. Len(file[fd])
    BY <2>1 DEF InOrder, CollectorTypes
  <2>. QED
    BY <1>0, <2>1, <2>2 DEF Truncating, gatewayVars
<1>2. ASSUME tail.pc # "wait"
      PROVE  /\ tail.file = fd /\ fd \in Files /\ path = fd /\ file[fd] \in Seq(Piece)
             /\ Len(file[fd]) \in Nat /\ DOMAIN file[fd] = 1 .. Len(file[fd])
             /\ \A i \in DOMAIN file[fd] : file[fd][i].line \in 1 .. written
             /\ Sorted(file[fd])
  BY <1>0, <1>2 DEF CollectorTypes, Seen, Truncating
<1>3. CASE ReadPiece
  <2>1. tail.pc = "drain" /\ tail.offset < Len(file[fd])
    BY <1>0, <1>2, <1>3 DEF ReadPiece, Draining, Content, Truncating
  <2>2. PICK c : c = file[fd]
    OBVIOUS
  <2>3. PICK piece : piece = c[tail.offset + 1]
    OBVIOUS
  <2>4. tail.offset + 1 \in DOMAIN c /\ piece.line \in Nat /\ piece.line > 0 /\ piece.line <= written
    BY <1>0, <1>2, <2>1, <2>2, <2>3
  <2>5. NewTo(tail.last, piece)
    BY <1>0, <2>1, <2>2, <2>3, <2>4 DEF Truncating
  <2>6. /\ tail'.pc = tail.pc /\ tail'.file = tail.file /\ tail'.offset = tail.offset + 1
        /\ IF piece.part = "start" THEN tail'.partial = piece.line /\ tail'.last = tail.last
           ELSE /\ tail'.partial = 0
                /\ tail'.last = IF tail.partial = IF piece.part = "rest" THEN piece.line ELSE 0
                                THEN piece.line ELSE tail.last
    BY <1>0, <1>2, <1>3, <2>1, <2>2, <2>3 DEF ReadPiece, Content
  <2>7. /\ tail'.partial = 0 \/ tail'.partial > tail'.last
        /\ tail'.last # tail.last => tail'.last > tail.last /\ tail'.last = piece.line /\ piece.part # "start"
        /\ tail'.last <= written
    BY <1>0, <2>4, <2>5, <2>6 DEF NewTo, Truncating
  <2>8. ASSUME NEW i \in DOMAIN c, i > tail.offset + 1
        PROVE  NewTo(tail'.last, c[i])
    <3>1. CASE tail'.last = tail.last
      BY <1>0, <1>2, <2>1, <2>2, <2>8, <3>1 DEF Truncating
    <3>2. CASE tail'.last # tail.last
      BY <1>2, <2>1, <2>2, <2>3, <2>4, <2>7, <2>8, <3>2 DEF Sorted, NewTo
    <3>. QED
      BY <3>1, <3>2
  <2>9. \A i \in DOMAIN file[fd] :
          i > tail'.offset \/ Len(file[fd]) < tail'.offset => NewTo(tail'.last, file[fd][i])
    BY <1>0, <1>2, <2>1, <2>2, <2>6, <2>8
  <2>10. tail'.pc = "drain" /\ tail'.file = fd
    BY <1>2, <2>1, <2>6
  <2>. QED
    BY <1>0, <2>7, <2>9, <2>10 DEF Truncating, gatewayVars
<1>4. CASE AtEnd
  <2>1. /\ tail.pc = "drain" /\ tail'.pc = "stat"
        /\ tail'.file = tail.file /\ tail'.offset = tail.offset
        /\ tail'.partial = tail.partial /\ tail'.last = tail.last
    BY <1>0, <1>4 DEF AtEnd, Draining, Truncating
  <2>. QED
    BY <1>0, <2>1 DEF Truncating, gatewayVars
<1>5. CASE Stat
  <2>1. tail.pc = "stat" /\ path = tail.file /\ path # NoFile /\ path = fd
    BY <1>0, <1>2, <1>5 DEF Stat
  <2>2. /\ tail'.pc = "drain" /\ tail'.file = fd /\ tail'.last = tail.last
        /\ IF Len(file[fd]) < tail.offset THEN tail'.offset = 0 /\ tail'.partial = 0
           ELSE tail'.offset = tail.offset /\ tail'.partial = tail.partial
    BY <1>0, <1>5, <2>1 DEF Stat, Truncated, Content, FromStart
  <2>3. \A i \in DOMAIN file[fd] :
          i > tail'.offset \/ Len(file[fd]) < tail'.offset => NewTo(tail.last, file[fd][i])
    BY <1>0, <1>2, <2>1, <2>2 DEF Truncating
  <2>. QED
    BY <1>0, <2>1, <2>2, <2>3 DEF Truncating, gatewayVars
<1>6. CASE Reopen
  BY <1>0, <1>6 DEF Reopen, Truncating
<1>. QED
  BY <1>1, <1>3, <1>4, <1>5, <1>6 DEF FollowLog

LEMMA InOrderStep ==
    ASSUME CollectorTypes, InOrder, CollectorStep \/ UNCHANGED collectorVars
    PROVE  /\ InOrder'
           /\ tail.pc # "wait" /\ tail'.last # tail.last =>
                IF mode.rotate = "truncate" THEN tail'.last > tail.last
                ELSE tail'.last = tail.last + 1
<1>1. CASE Gateway
  <2>1. UNCHANGED <<mode, tail>>
    BY <1>1 DEF Gateway
  <2>2. CASE WriteLine \/ WriteRest
    <3>1. UNCHANGED <<path, fd>>
      BY <2>2 DEF WriteLine, WriteRest
    <3>. QED
      BY <2>1, <2>2, <3>1, RenamedWrite, TruncatingWrite DEF InOrder
  <2>3. CASE Truncate \/ Rename \/ OpenLog
    <3>1. mode.rotate # "truncate" =>
            (Rename \/ OpenLog) /\ UNCHANGED <<file, written, half>>
      BY <2>3 DEF Truncate, Rename, OpenLog
    <3>. QED
      BY <2>1, <2>3, <3>1, RenamedRotate, TruncatingRotate DEF InOrder
  <2>. QED
    BY <1>1, <2>2, <2>3 DEF Gateway
<1>2. CASE FollowLog
  <2>1. UNCHANGED mode /\ tail'.pc # "wait"
    BY <1>2 DEF FollowLog, OpenTail, ReadPiece, AtEnd, Stat, Reopen, Draining, FromStart, Replaced,
       CollectorTypes
  <2>. QED
    BY <1>2, <2>1, RenamedFollow, TruncatingFollow DEF InOrder
<1>3. CASE UNCHANGED <<mode, gatewayVars, tail>>
  BY <1>3 DEF InOrder, Truncating, Renamed, gatewayVars
<1>. QED
  BY <1>1, <1>2, <1>3 DEF CollectorStep, Collect, Flush, StopAgent, Finish, collectorVars

(* The tail of the log handles each line the gateway completes, in the     *)
(* order of the lines, whenever and however often the log is renamed, and  *)
(* never the same line twice when it is truncated (tailLoop).  It follows  *)
(* from where the tail is between the pieces of its file, and from what    *)
(* the gateway's new file begins with when the tail still reads the old.   *)
THEOREM LinesComeInOrder == Spec => EveryLineInOrder
<1>1. /\ CollectorTypes /\ InOrder /\ [Next]_vars
      => /\ InOrder'
         /\ [tail.pc # "wait" /\ tail'.last # tail.last =>
               IF mode.rotate = "truncate" THEN tail'.last > tail.last
               ELSE tail'.last = tail.last + 1]_collectorVars
  BY CollectorMoves, InOrderStep
<1>. QED
  BY <1>1, InOrderInit, TypesCorrect, PTL DEF Spec, EveryLineInOrder

-----------------------------------------------------------------------------
(* What the agent sends.  A line's event is sent once: it is in one place  *)
(* between the tail and a request, and what is farther on was read before. *)

ToCome == {chan[i] : i \in DOMAIN chan} \union {batch[i] : i \in DOMAIN batch}
Posted == {sending.events[i] : i \in DOMAIN sending.events}

FromLog(r) == ({r.rest[i] : i \in DOMAIN r.rest} \union ({r.event} \ {NoEvent})) \intersect Lines(mode)

SentOnce ==
    /\ \A i, j \in DOMAIN chan : i < j => chan[i] < chan[j]
    /\ \A i \in DOMAIN batch, j \in DOMAIN chan : batch[i] < chan[j]
    /\ \A p \in Posted, c \in ToCome : p < c
    /\ \A s \in Senders : \A e \in FromLog(sub[s]) :
         /\ e \in Seen
         /\ \A c \in ToCome : e < c
         /\ s # sending.via => \A p \in Posted : e < p
         /\ tail.pc # "wait" => e <= tail.last
    /\ tail.pc # "wait" => \A e \in ToCome \union Posted : e <= tail.last

(* The line of an event the tail emits is newer than all it has handled.   *)
LEMMA EmitsNewer ==
    ASSUME CollectorTypes, InOrder, FollowLog
    PROVE  /\ tail'.pc # "wait"
           /\ IF tail.pc = "wait" THEN tail'.last = written ELSE tail'.last >= tail.last
           /\ \/ chan' = chan
              \/ tail.pc # "wait" /\ tail'.last > tail.last /\ chan' = Append(chan, tail'.last)
<1>0. /\ DOMAIN tail = {"pc", "file", "offset", "partial", "last"}
      /\ tail.offset \in Nat /\ tail.partial \in Nat /\ tail.last \in Nat
  BY DEF CollectorTypes
<1>1. CASE OpenTail \/ AtEnd \/ Stat \/ Reopen
  <2>1. chan' = chan
    BY <1>1 DEF OpenTail, AtEnd, Stat, Reopen
  <2>2. CASE OpenTail
    BY <1>0, <2>1, <2>2 DEF OpenTail
  <2>3. CASE AtEnd
    BY <1>0, <2>1, <2>3 DEF AtEnd, Draining
  <2>4. CASE Stat
    BY <1>0, <2>1, <2>4 DEF Stat, FromStart, Replaced
  <2>5. CASE Reopen
    BY <1>0, <2>1, <2>5 DEF Reopen, FromStart
  <2>. QED
    BY <1>1, <2>2, <2>3, <2>4, <2>5
<1>2. CASE ReadPiece
  <2>1. PICK piece : piece = file[tail.file][tail.offset + 1]
    OBVIOUS
  <2>2. /\ tail.pc \in {"drain", "drainAgain"} /\ tail.offset < Len(file[tail.file])
        /\ tail'.pc = tail.pc
        /\ \/ tail'.last = tail.last /\ chan' = chan
           \/ /\ piece.part # "start"
              /\ tail.partial = IF piece.part = "rest" THEN piece.line ELSE 0
              /\ tail'.last = piece.line
              /\ chan' \in {chan, Append(chan, piece.line)}
    BY <1>0, <1>2, <2>1 DEF ReadPiece, Draining, Content, Emit
  <2>3. /\ tail.file \in Files /\ file[tail.file] \in Seq(Piece)
        /\ \A i \in DOMAIN file[tail.file] : file[tail.file][i].line \in Nat /\ file[tail.file][i].line > 0
    BY <2>2 DEF CollectorTypes, Seen
  <2>4. tail.offset + 1 \in DOMAIN file[tail.file]
    BY <1>0, <2>2, <2>3
  <2>5. ASSUME piece.part # "start", tail.partial = IF piece.part = "rest" THEN piece.line ELSE 0
        PROVE  piece.line > tail.last
    <3>1. CASE mode.rotate = "truncate"
      <4>1. Truncating /\ tail.file = fd
        BY <2>2, <3>1 DEF InOrder, Truncating
      <4>2. NewTo(tail.last, piece)
        BY <1>0, <2>1, <2>2, <2>4, <4>1 DEF Truncating
      <4>. QED
        BY <1>0, <2>1, <2>3, <2>4, <2>5, <4>1, <4>2 DEF NewTo, Truncating
    <3>2. CASE mode.rotate # "truncate"
      <4>1. Whole(file[tail.file]) /\ At(file[tail.file], tail.offset, tail.partial, tail.last)
        BY <2>2, <2>3, <3>2 DEF InOrder, Renamed
      <4>2. piece.line = tail.last + 1
        BY <1>0, <2>1, <2>2, <2>3, <2>5, <4>1, NextPiece
      <4>. QED
        BY <1>0, <4>2
    <3>. QED
      BY <3>1, <3>2
  <2>. QED
    BY <1>0, <2>1, <2>2, <2>3, <2>4, <2>5
<1>. QED
  BY <1>1, <1>2 DEF FollowLog

LEMMA SentOnceInit == Init => SentOnce
<1>. SUFFICES ASSUME Init PROVE SentOnce
  OBVIOUS
<1>1. /\ \A i \in DOMAIN chan : chan[i] = i
      /\ DOMAIN chan \subseteq Nat /\ batch = <<>> /\ sending.events = <<>> /\ tail.pc = "wait"
  BY DeliveryAssumption DEF Init, CollectorInit, NoRequestOut
<1>2. \A s \in Senders : FromLog(sub[s]) = {}
  BY DEF Init, IngestInit, NoRequest, FromLog
<1>3. DOMAIN batch = {} /\ DOMAIN sending.events = {}
  BY <1>1
<1>. QED
  BY <1>1, <1>2, <1>3 DEF SentOnce, Posted, ToCome

(* Steps after which there is less on the way, and what is, is where it    *)
(* was.                                                                    *)
LEMMA SentOnceLess ==
    ASSUME CollectorTypes, SentOnce, UNCHANGED <<mode, tail, chan>>, Seen \subseteq Seen',
           batch' \in {batch, <<>>},
           sending'.events = <<>> \/ UNCHANGED sending,
           \A s \in Senders : FromLog(sub[s])' \subseteq FromLog(sub[s])
    PROVE  SentOnce'
<1>1. ToCome' \subseteq ToCome /\ Posted' \subseteq Posted
  BY DEF ToCome, Posted
<1>2. \A s \in Senders : s # sending'.via => Posted' = {} \/ s # sending.via
  BY DEF Posted
<1>. QED
  BY <1>1, <1>2 DEF SentOnce

LEMMA SentOnceCollect ==
    ASSUME CollectorTypes, SentOnce, Collect \/ Flush, UNCHANGED sub
    PROVE  SentOnce'
<1>0. /\ chan \in Seq(Nat) /\ batch \in Seq(Nat)
  BY DEF CollectorTypes, Seen
<1>1. /\ UNCHANGED <<mode, tail, written>> /\ sending = NoRequestOut /\ sending.events = <<>>
  BY DEF Collect, Flush, Idle, gatewayVars, NoRequestOut
<1>2. \A s \in Senders : FromLog(sub[s])' = FromLog(sub[s])
  BY <1>1 DEF FromLog
<1>3. /\ \A i, j \in DOMAIN chan' : i < j => chan'[i] < chan'[j]
      /\ \A i \in DOMAIN batch', j \in DOMAIN chan' : batch'[i] < chan'[j]
      /\ \A p \in Posted', c \in ToCome' : p < c
      /\ Posted' \subseteq ToCome /\ ToCome' \subseteq ToCome
  <2>1. CASE Flush
    BY <1>0, <2>1 DEF Flush, NoRequestOut, SentOnce, ToCome, Posted
  <2>2. CASE Collect
    <3>. DEFINE more == Append(batch, Head(chan))
    <3>1. /\ chan # <<>> /\ chan' = Tail(chan)
          /\ \/ batch' = <<>> /\ sending'.events = more
             \/ batch' = more /\ sending'.events = <<>>
      BY <1>1, <2>2 DEF Collect, NoRequestOut
    <3>2. /\ 1 \in DOMAIN chan /\ Head(chan) = chan[1]
          /\ \A i \in DOMAIN chan' : /\ i + 1 \in DOMAIN chan /\ i \in Nat /\ i > 0
                                     /\ chan'[i] = chan[i + 1]
      BY <1>0, <3>1
    <3>3. /\ \A i \in DOMAIN more : (i \in DOMAIN batch /\ more[i] = batch[i]) \/ more[i] = chan[1]
      BY <1>0, <3>1, <3>2
    <3>4. \A i \in DOMAIN chan' : chan[1] < chan'[i] /\ chan'[i] \in ToCome
      BY <1>0, <3>2 DEF SentOnce, ToCome
    <3>5. /\ \A i, j \in DOMAIN chan' : i < j => chan'[i] < chan'[j]
      BY <1>0, <3>2 DEF SentOnce
    <3>6. \A i \in DOMAIN more, j \in DOMAIN chan' : more[i] < chan'[j]
      BY <1>0, <3>2, <3>3, <3>4 DEF SentOnce
    <3>7. \A i \in DOMAIN more : more[i] \in ToCome
      BY <3>2, <3>3 DEF ToCome
    <3>8. DOMAIN <<>> = {}
      OBVIOUS
    <3>. HIDE DEF more
    <3>9. CASE batch' = <<>> /\ sending'.events = more
      BY <3>4, <3>5, <3>6, <3>7, <3>8, <3>9 DEF ToCome, Posted
    <3>10. CASE batch' = more /\ sending'.events = <<>>
      BY <3>4, <3>5, <3>6, <3>7, <3>8, <3>10 DEF ToCome, Posted
    <3>. QED
      BY <3>1, <3>9, <3>10
  <2>. QED
    BY <2>1, <2>2
<1>. QED
  BY <1>1, <1>2, <1>3 DEF SentOnce, Seen

LEMMA SentOnceFollow ==
    ASSUME CollectorTypes, CollectorTypes', InOrder, SentOnce, FollowLog, UNCHANGED sub
    PROVE  SentOnce'
<1>0. /\ chan \in Seq(Nat) /\ batch \in Seq(Nat) /\ sending.events \in Seq(Nat)
      /\ chan \in Seq(Seen) /\ batch \in Seq(Seen) /\ sending.events \in Seq(Seen)
      /\ written \in Nat /\ tail.last \in Nat /\ tail'.last \in Nat
  BY DEF CollectorTypes, Seen
<1>1. /\ UNCHANGED <<mode, gatewayVars, batch, sending>>
  BY DEF FollowLog, loopVars
<1>2. /\ Seen' = Seen /\ Posted' = Posted
      /\ \A s \in Senders : FromLog(sub[s])' = FromLog(sub[s])
  BY <1>1 DEF FromLog, Seen, gatewayVars, Posted
<1>3. /\ \A c \in ToCome \union Posted : c \in Nat /\ c <= written
      /\ \A s \in Senders : \A e \in FromLog(sub[s]) : e \in Nat /\ e <= written
  <2>1. ToCome \union Posted \subseteq Seen
    BY <1>0 DEF ToCome, Posted
  <2>2. \A s \in Senders : FromLog(sub[s]) \subseteq Seen
    BY DEF SentOnce
  <2>3. \A x \in Seen : x \in Nat /\ x <= written
    BY <1>0 DEF Seen
  <2>. QED
    BY <2>1, <2>2, <2>3
<1>. DEFINE Behind(x) == x \in Nat /\ x <= written /\ (tail.pc # "wait" => x <= tail.last)
<1>6. /\ \A c \in ToCome \union Posted : Behind(c)
      /\ \A s \in Senders : \A e \in FromLog(sub[s]) : Behind(e)
  BY <1>3 DEF SentOnce
<1>7. \A x : Behind(x) => x <= tail'.last
  BY <1>0, EmitsNewer
<1>. HIDE DEF Behind
<1>4. CASE chan' = chan
  <2>1. ToCome' = ToCome
    BY <1>1, <1>4 DEF ToCome
  <2>. QED
    BY <1>1, <1>2, <1>4, <1>6, <1>7, <2>1 DEF SentOnce
<1>5. CASE tail.pc # "wait" /\ tail'.last > tail.last /\ chan' = Append(chan, tail'.last)
  <2>1. /\ \A i \in DOMAIN chan' :
             (i \in DOMAIN chan /\ chan'[i] = chan[i]) \/ (i = Len(chan) + 1 /\ chan'[i] = tail'.last)
        /\ \A i \in DOMAIN chan : i <= Len(chan)
        /\ Len(chan) \in Nat /\ DOMAIN chan' \subseteq Nat
    BY <1>0, <1>5
  <2>2. ToCome' \subseteq ToCome \union {tail'.last}
    BY <1>1, <2>1 DEF ToCome
  <2>0. \A x : Behind(x) => x < tail'.last
    BY <1>0, <1>5 DEF Behind
  <2>3. \A c \in ToCome \union Posted : c < tail'.last
    BY <1>6, <2>0
  <2>4. \A s \in Senders : \A e \in FromLog(sub[s]) : e < tail'.last
    BY <1>6, <2>0
  <2>5. \A i, j \in DOMAIN chan' : i < j => chan'[i] < chan'[j]
    <3>1. \A i \in DOMAIN chan : chan[i] < tail'.last
      BY <2>3 DEF ToCome
    <3>2. \A i, j \in DOMAIN chan : i < j => chan[i] < chan[j]
      BY DEF SentOnce
    <3>. QED
      BY <2>1, <3>1, <3>2
  <2>6. \A i \in DOMAIN batch, j \in DOMAIN chan' : batch[i] < chan'[j]
    BY <1>0, <2>1, <2>3 DEF SentOnce, ToCome
  <2>. QED
    <3>1. \A p \in Posted', c \in ToCome' : p < c
      BY <1>2, <2>2, <2>3 DEF SentOnce
    <3>2. \A s \in Senders : \A e \in FromLog(sub[s]) : \A c \in ToCome' : e < c
      BY <2>2, <2>4 DEF SentOnce
    <3>3. \A x \in ToCome' \union Posted' : x <= tail'.last
      BY <1>0, <1>2, <1>6, <1>7, <2>2
    <3>4. \A s \in Senders : \A e \in FromLog(sub[s]) : e <= tail'.last
      BY <1>6, <1>7
    <3>. QED
      BY <1>1, <1>2, <2>5, <2>6, <3>1, <3>2, <3>3, <3>4 DEF SentOnce
<1>. QED
  BY <1>4, <1>5, EmitsNewer

(* The steps of the platform that concern a request only shorten what is   *)
(* left of it.                                                             *)
LEMMA RequestShrinks ==
    ASSUME IngestTypes, UNCHANGED mode, NEW s \in Senders,
           Check(s) \/ Offer(s) \/ Answer(s) \/ Leave(s)
    PROVE  \A o \in Senders : FromLog(sub[o])' \subseteq FromLog(sub[o])
<1>0. DOMAIN sub = Senders /\ \A o \in Senders : Request(sub[o])
  BY DEF IngestTypes
<1>1. \A o \in Senders : o # s => sub'[o] = sub[o]
  BY RequestTypes
<1>. DEFINE All(r) == {r.rest[i] : i \in DOMAIN r.rest} \union ({r.event} \ {NoEvent})
<1>2. All(sub'[s]) \subseteq All(sub[s])
  <2>1. CASE Check(s)
    <3>1. sub[s].rest \in Seq(Events) /\ sub[s].rest # <<>>
      BY <1>0, <2>1 DEF Check, Request
    <3>2. Head(sub[s].rest) = sub[s].rest[1] /\ 1 \in DOMAIN sub[s].rest
      BY <3>1
    <3>3. \A i \in DOMAIN Tail(sub[s].rest) :
            i + 1 \in DOMAIN sub[s].rest /\ Tail(sub[s].rest)[i] = sub[s].rest[i + 1]
      BY <3>1
    <3>4. /\ sub'[s].rest = Tail(sub[s].rest)
          /\ sub'[s].event \in {Head(sub[s].rest), sub[s].event}
      <4>1. CASE sub' = [sub EXCEPT ![s].rest = Tail(@), ![s].result.duplicates = @ + 1]
        BY <1>0, <4>1 DEF Request
      <4>2. CASE sub' = [sub EXCEPT ![s].event = Head(sub[s].rest), ![s].rest = Tail(@)]
        BY <1>0, <4>2 DEF Request
      <4>. QED
        BY <2>1, <4>1, <4>2 DEF Check
    <3>. QED
      BY <3>2, <3>3, <3>4
  <2>2. CASE Offer(s)
    <3>1. \/ sub' = [sub EXCEPT ![s].event = NoEvent, ![s].result.accepted = @ + 1]
          \/ sub' = [sub EXCEPT ![s].event = NoEvent, ![s].result.dropped = @ + 1]
      BY <2>2 DEF Offer
    <3>2. sub'[s].rest = sub[s].rest /\ sub'[s].event = NoEvent
      BY <1>0, <3>1 DEF Request
    <3>. QED
      BY <3>2
  <2>3. CASE Leave(s)
    BY <1>0, <2>3 DEF Leave, Request
  <2>4. CASE Answer(s)
    <3>1. sub'[s].rest = <<>> /\ sub'[s].event = NoEvent
      BY <1>0, <2>4 DEF Answer, NoRequest
    <3>. QED
      BY <3>1
  <2>. QED
    BY <2>1, <2>2, <2>3, <2>4
<1>. QED
  BY <1>1, <1>2 DEF FromLog

LEMMA SentOnceDeliver ==
    ASSUME CollectorTypes, IngestTypes, SentOnce, NEW s \in Senders, Deliver(s)
    PROVE  SentOnce'
<1>0. DOMAIN sub = Senders /\ DOMAIN sending = {"events", "via"} /\ sending.via = "none"
  BY DEF IngestTypes, CollectorTypes, Deliver
<1>1. /\ UNCHANGED <<mode, gatewayVars, tail, chan, batch>>
      /\ sending' = [sending EXCEPT !.via = s]
      /\ sub' = [sub EXCEPT ![s] = [NoRequest EXCEPT !.open = TRUE, !.rest = sending.events]]
  BY DEF Deliver, Submit
<1>2. ToCome' = ToCome /\ Posted' = Posted /\ Seen' = Seen /\ sending'.via = s
  BY <1>0, <1>1 DEF ToCome, Posted, Seen, gatewayVars
<1>3. sub'[s].rest = sending.events /\ sub'[s].event = NoEvent
  BY <1>0, <1>1 DEF NoRequest
<1>4. FromLog(sub[s])' \subseteq Posted
  BY <1>3 DEF FromLog, Posted
<1>5. \A o \in Senders : o # s => FromLog(sub[o])' = FromLog(sub[o])
  BY <1>0, <1>1 DEF FromLog
<1>6. Posted \subseteq Seen
  BY DEF Posted, CollectorTypes
<1>7. \A o \in Senders : o # sending.via
  BY <1>0, DeliveryAssumption
<1>. QED
  BY <1>1, <1>2, <1>4, <1>5, <1>6, <1>7 DEF SentOnce

LEMMA SentOnceStep ==
    ASSUME CollectorTypes, CollectorTypes', IngestTypes, InOrder, SentOnce, [Next]_vars
    PROVE  SentOnce'
<1>. DEFINE Less == /\ UNCHANGED <<mode, tail, chan>> /\ written' = written
                    /\ batch' \in {batch, <<>>}
                    /\ sending'.events = <<>> \/ UNCHANGED sending
<1>1. ASSUME Less,
             \/ UNCHANGED sub
             \/ \E s \in Senders : Check(s) \/ Offer(s) \/ Answer(s) \/ Leave(s)
             \/ \E s \in Senders : \E events \in mode.batches : Submit(s, events)
      PROVE  SentOnce'
  <2>1. Seen' = Seen
    BY <1>1 DEF Seen
  <2>2. CASE UNCHANGED sub
    BY <1>1, <2>1, <2>2, SentOnceLess DEF FromLog
  <2>3. CASE \E s \in Senders : Check(s) \/ Offer(s) \/ Answer(s) \/ Leave(s)
    BY <1>1, <2>1, <2>3, RequestShrinks, SentOnceLess
  <2>4. ASSUME NEW s \in Senders, NEW events \in mode.batches, Submit(s, events) PROVE SentOnce'
    <3>1. DOMAIN sub = Senders
      BY DEF IngestTypes
    <3>2. /\ sub'[s].rest = events /\ sub'[s].event = NoEvent
          /\ \A o \in Senders : o # s => sub'[o] = sub[o]
      BY <2>4, <3>1 DEF Submit, NoRequest
    <3>3. FromLog(sub[s])' = {}
      BY <1>1, <3>2, DeliveryAssumption DEF FromLog, CollectorTypes
    <3>4. \A o \in Senders : FromLog(sub[o])' \subseteq FromLog(sub[o])
      BY <1>1, <3>2, <3>3 DEF FromLog
    <3>. QED
      BY <1>1, <2>1, <3>4, SentOnceLess
  <2>. QED
    BY <1>1, <2>2, <2>3, <2>4
<1>2. CASE AgentOnly /\ (FollowLog \/ Collect \/ Flush)
  <2>1. UNCHANGED sub
    BY <1>2 DEF AgentOnly, ingestVars
  <2>. QED
    BY <1>2, <2>1, SentOnceFollow, SentOnceCollect
<1>3. CASE AgentOnly /\ Gateway
  <2>1. UNCHANGED <<sub, mode, tail, chan, batch, sending>>
    BY <1>3 DEF AgentOnly, Gateway, ingestVars, loopVars
  <2>2. Seen \subseteq Seen'
    <3>1. written' \in Nat /\ written \in Nat /\ written' >= written
      BY <1>3 DEF CollectorTypes, Gateway, WriteLine, WriteRest, Truncate, Rename, OpenLog
    <3>. QED
      BY <3>1 DEF Seen
  <2>. QED
    BY <2>1, <2>2, SentOnceLess DEF FromLog
<1>4. CASE AgentOnly /\ Unreachable
  <2>1. Less /\ UNCHANGED sub
    BY <1>4 DEF AgentOnly, Unreachable, Finish, ingestVars, gatewayVars, NoRequestOut
  <2>. QED
    BY <1>1, <2>1
<1>5. CASE Platform \/ UNCHANGED vars
  <2>1. Less
    BY <1>5 DEF Platform, IngestOnly, vars, collectorVars, gatewayVars, loopVars
  <2>2. UNCHANGED sub \/ \E s \in Senders : Check(s) \/ Offer(s)
    BY <1>5 DEF Platform, IngestNext, Tick, CleanupSeen, Stop, BeginClose, Exit, Work, Done,
       SinkTake, SinkFlush, CloseSink, SinkClosed, vars, ingestVars
  <2>. QED
    BY <1>1, <2>1, <2>2
<1>6. CASE StopRunning
  <2>1. Less
    BY <1>6 DEF StopRunning, StopAgent, gatewayVars, NoRequestOut
  <2>2. UNCHANGED sub \/ \E s \in Senders : Leave(s)
    BY <1>6 DEF StopRunning, ingestVars
  <2>. QED
    BY <1>1, <2>1, <2>2
<1>7. ASSUME NEW s \in Senders, Foreign(s) \/ Reply(s) \/ GiveUp(s) \/ ForeignGivesUp(s)
      PROVE  SentOnce'
  <2>1. Less
    BY <1>7 DEF Foreign, Reply, GiveUp, ForeignGivesUp, Finish, IngestOnly, collectorVars,
       gatewayVars, loopVars, NoRequestOut
  <2>2. \/ Answer(s) \/ Leave(s)
        \/ \E events \in mode.batches : Submit(s, events)
    BY <1>7 DEF Foreign, Reply, GiveUp, ForeignGivesUp
  <2>. QED
    BY <1>1, <2>1, <2>2
<1>. QED
  BY <1>2, <1>3, <1>4, <1>5, <1>6, <1>7, SentOnceDeliver DEF Next

-----------------------------------------------------------------------------
(* The agent's request.  Of the events that are settled, at most the       *)
(* dropped ones have never been taken: an event that is a duplicate was,   *)
(* as no other request has it.                                             *)

Passed(r) == Len(sending.events) - Len(r.rest)

Settled(r) == IF r.event = NoEvent THEN Passed(r) ELSE Passed(r) - 1

Untaken(n) == {i \in 1 .. n : at[sending.events[i]] = -1}

CountedFor(r) ==
    /\ r.open
    /\ Len(r.rest) <= Len(sending.events)
    /\ \A i \in DOMAIN r.rest : r.rest[i] = sending.events[Passed(r) + i]
    /\ r.event # NoEvent => Passed(r) > 0 /\ r.event = sending.events[Passed(r)]
    /\ Cardinality(Untaken(Settled(r))) <= r.result.dropped

Counted == sending.via \in Senders => mode.reachable /\ CountedFor(sub[sending.via])

LEMMA PassedIsBetween ==
    ASSUME NEW r, Len(r.rest) \in Nat, Len(sending.events) \in Nat, Len(r.rest) <= Len(sending.events)
    PROVE  /\ Passed(r) \in Nat /\ Passed(r) <= Len(sending.events)
           /\ Len(r.rest) > 0 => Passed(r) + 1 \in 1 .. Len(sending.events)
           /\ Settled(r) \in Int /\ Settled(r) <= Len(sending.events)
<1>1. PICK a, b : a = Len(r.rest) /\ b = Len(sending.events)
  OBVIOUS
<1>2. Passed(r) = b - a /\ Settled(r) \in {b - a, b - a - 1}
  BY <1>1 DEF Passed, Settled
<1>3. a \in Nat /\ b \in Nat /\ a <= b
  BY <1>1
<1>4. /\ b - a \in Nat /\ b - a <= b
      /\ a > 0 => b - a + 1 \in 1 .. b
  BY <1>3
<1>5. \A x \in {b - a, b - a - 1} : x \in Int /\ x <= b
  BY <1>3
<1>. QED
  BY <1>1, <1>2, <1>4, <1>5

LEMMA UntakenIsFinite ==
    ASSUME NEW n \in Int
    PROVE  IsFiniteSet(Untaken(n)) /\ Cardinality(Untaken(n)) \in Nat
<1>1. IsFiniteSet(1 .. n)
  BY FS_Interval
<1>2. Untaken(n) \subseteq 1 .. n
  BY DEF Untaken
<1>. QED
  BY <1>1, <1>2, FS_Subset, FS_CardinalityType

(* No step makes an event one that was never taken. *)
LEMMA TakenStaysTaken ==
    ASSUME IngestTypes, Table, IngestStep \/ UNCHANGED ingestVars
    PROVE  \A e \in Events : at'[e] = -1 => at[e] = -1
<1>0. clock \in Nat /\ at \in [Events -> Int]
  BY DEF IngestTypes
<1>1. ASSUME NEW s \in Senders, Offer(s) PROVE \A e \in Events : at'[e] = -1 => at[e] = -1
  <2>1. at' = at \/ at' = [at EXCEPT ![sub[s].event] = clock]
    BY <1>1 DEF Offer
  <2>. QED
    BY <1>0, <2>1
<1>2. ASSUME at' = at PROVE \A e \in Events : at'[e] = -1 => at[e] = -1
  BY <1>2
<1>. QED
  BY <1>1, <1>2 DEF IngestStep, IngestNext, Check, Tick, CleanupSeen, Stop, BeginClose, Exit, Work,
     Done, SinkTake, SinkFlush, CloseSink, SinkClosed, Answer, Leave, Submit, ingestVars

(* A step that leaves the agent's request alone. *)
LEMMA CountedKept ==
    ASSUME CollectorTypes, IngestTypes, Table, Counted, IngestStep \/ UNCHANGED ingestVars,
           UNCHANGED <<mode, sending>>, sending.via \in Senders,
           sub'[sending.via].open = sub[sending.via].open,
           sub'[sending.via].rest = sub[sending.via].rest,
           sub'[sending.via].event = sub[sending.via].event,
           sub'[sending.via].result = sub[sending.via].result
    PROVE  Counted'
<1>. DEFINE r == sub[sending.via]
<1>1. CountedFor(r) /\ mode.reachable
  BY DEF Counted
<1>2. /\ sending.events \in Seq(Events) /\ Len(sending.events) \in Nat
  BY <1>1, DeliveryAssumption DEF CollectorTypes
<1>3. Request(r) /\ Len(r.rest) \in Nat
  BY DEF IngestTypes, Request
<1>4. Passed(r) \in Nat /\ Passed(r) <= Len(sending.events) /\ Settled(r) \in Int /\ Settled(r) <= Len(sending.events)
  <2>1. Len(r.rest) <= Len(sending.events)
    BY <1>1 DEF CountedFor
  <2>. QED
    BY <1>2, <1>3, <2>1, PassedIsBetween
<1>5. Untaken(Settled(r))' \subseteq Untaken(Settled(r))
  <2>1. \A i \in 1 .. Settled(r) : sending.events[i] \in Events
    BY <1>2, <1>4
  <2>2. Settled(r)' = Settled(r)
    BY DEF Settled, Passed
  <2>. QED
    BY <2>1, <2>2, TakenStaysTaken DEF Untaken
<1>6. Cardinality(Untaken(Settled(r))') <= Cardinality(Untaken(Settled(r)))
  BY <1>4, <1>5, UntakenIsFinite, FS_Subset
<1>7. Cardinality(Untaken(Settled(r))') \in Nat
  BY <1>4, <1>5, UntakenIsFinite, FS_Subset, FS_CardinalityType
<1>8. r.result.dropped \in Nat
  BY <1>3 DEF Request, Answered
<1>9. Cardinality(Untaken(Settled(r))') <= r.result.dropped
  <2>1. Cardinality(Untaken(Settled(r))) <= r.result.dropped
    BY <1>1 DEF CountedFor
  <2>2. Cardinality(Untaken(Settled(r))) \in Nat
    BY <1>4, UntakenIsFinite
  <2>. QED
    BY <1>6, <1>7, <1>8, <2>1, <2>2
<1>10. sub'[sending'.via].result.dropped = r.result.dropped
  OBVIOUS
<1>11. Passed(r)' = Passed(r) /\ r' = sub'[sending.via]
  BY DEF Passed
<1>12. CountedFor(r)'
  BY <1>1, <1>9, <1>11 DEF CountedFor
<1>. QED
  BY <1>1, <1>12 DEF Counted

(* The agent's request is the only one that has its events. *)
LEMMA OnlyTheAgents ==
    ASSUME CollectorTypes, SentOnce, Counted, sending.via \in Senders,
           NEW i \in DOMAIN sending.events, NEW o \in Senders, o # sending.via
    PROVE  sub[o].event # sending.events[i]
<1>1. sending.events \in Seq(Seen) /\ mode \in Modes /\ mode.reachable
  BY DEF CollectorTypes, Counted
<1>2. sending.events[i] \in Seen /\ sending.events[i] \in Posted /\ sending.events[i] \in Nat
  <2>1. sending.events[i] \in Seen
    BY <1>1
  <2>. QED
    BY <2>1 DEF Posted, Seen
<1>3. sending.events[i] \in Lines(mode) /\ sending.events[i] # NoEvent
  BY <1>1, <1>2, DeliveryAssumption, IngestAssumption DEF CollectorTypes
<1>4. sub[o].event = sending.events[i] => sending.events[i] \in FromLog(sub[o])
  BY <1>3 DEF FromLog
<1>5. ~(sending.events[i] < sending.events[i])
  BY <1>2
<1>. QED
  BY <1>2, <1>4, <1>5 DEF SentOnce

(* The first of what is left of the agent's request is its next event.     *)
LEMMA NextOfTheAgents ==
    ASSUME CollectorTypes, IngestTypes, Counted, sending.via \in Senders,
           sub[sending.via].rest # <<>>
    PROVE  LET r == sub[sending.via] IN
           /\ Passed(r) \in Nat /\ Len(r.rest) \in Nat /\ Len(sending.events) \in Nat
           /\ Passed(r) + 1 \in DOMAIN sending.events
           /\ Head(r.rest) = sending.events[Passed(r) + 1]
           /\ Head(r.rest) \in Events
           /\ Len(Tail(r.rest)) = Len(r.rest) - 1
           /\ \A i \in DOMAIN Tail(r.rest) : Tail(r.rest)[i] = sending.events[Passed(r) + 1 + i]
<1>. DEFINE r == sub[sending.via]
<1>1. CountedFor(r) /\ sending.events \in Seq(Seen)
  BY DEF Counted, CollectorTypes
<1>2. r.rest \in Seq(Events) /\ r.rest # <<>>
  BY DEF IngestTypes, Request
<1>3. /\ Len(r.rest) \in Nat /\ Len(r.rest) > 0 /\ 1 \in DOMAIN r.rest /\ Head(r.rest) = r.rest[1]
      /\ Len(Tail(r.rest)) = Len(r.rest) - 1 /\ Head(r.rest) \in Events
      /\ \A i \in DOMAIN Tail(r.rest) : i \in Nat /\ i + 1 \in DOMAIN r.rest /\ Tail(r.rest)[i] = r.rest[i + 1]
  BY <1>2
<1>4. Len(sending.events) \in Nat /\ DOMAIN sending.events = 1 .. Len(sending.events)
  BY <1>1
<1>5. Len(r.rest) <= Len(sending.events)
  BY <1>1 DEF CountedFor
<1>6. /\ Passed(r) \in Nat /\ Passed(r) + 1 \in DOMAIN sending.events
  BY <1>3, <1>4, <1>5, PassedIsBetween
<1>7. Head(r.rest) = sending.events[Passed(r) + 1]
  BY <1>1, <1>3 DEF CountedFor
<1>8. \A i \in DOMAIN Tail(r.rest) : Tail(r.rest)[i] = sending.events[Passed(r) + 1 + i]
  <2>1. ASSUME NEW i \in DOMAIN Tail(r.rest) PROVE r.rest[i + 1] = sending.events[Passed(r) + 1 + i]
    <3>1. i + 1 \in DOMAIN r.rest /\ Passed(r) + (i + 1) = Passed(r) + 1 + i
      BY <1>3, <1>6
    <3>2. r.rest[i + 1] = sending.events[Passed(r) + (i + 1)]
      BY <1>1, <3>1 DEF CountedFor
    <3>. QED
      BY <3>1, <3>2
  <2>. QED
    BY <1>3, <2>1
<1>. QED
  BY <1>3, <1>4, <1>6, <1>7, <1>8

(* The agent's request checks its next event. *)
LEMMA CountedCheck ==
    ASSUME CollectorTypes, IngestTypes, Table, SentOnce, Counted,
           UNCHANGED <<mode, sending>>, sending.via \in Senders, Check(sending.via)
    PROVE  Counted'
<1>. DEFINE s == sending.via
            r == sub[s]
            e == Head(r.rest)
            k == Passed(r)
<1>1. CountedFor(r) /\ mode.reachable
  BY DEF Counted
<1>2. Request(r) /\ DOMAIN sub = Senders /\ Request(sub'[s])
  BY RequestTypes DEF IngestTypes
<1>3. r.rest # <<>> /\ r.event = NoEvent /\ at' = at
  BY DEF Check
<1>4. /\ k \in Nat /\ Len(r.rest) \in Nat /\ Len(sending.events) \in Nat
      /\ k + 1 \in DOMAIN sending.events /\ e = sending.events[k + 1]
      /\ e \in Events /\ e # NoEvent
      /\ Len(Tail(r.rest)) = Len(r.rest) - 1
      /\ \A i \in DOMAIN Tail(r.rest) : Tail(r.rest)[i] = sending.events[k + 1 + i]
  BY <1>3, NextOfTheAgents, IngestAssumption
<1>5. /\ sub'[s].open = r.open /\ sub'[s].rest = Tail(r.rest)
      /\ \/ seen[e] >= 0 /\ sub'[s].event = NoEvent /\ sub'[s].result.dropped = r.result.dropped
         \/ sub'[s].event = e /\ sub'[s].result.dropped = r.result.dropped
  <2>1. CASE seen[e] >= 0
    <3>1. sub' = [sub EXCEPT ![s].rest = Tail(@), ![s].result.duplicates = @ + 1]
      BY <2>1 DEF Check
    <3>. QED
      BY <1>2, <1>3, <2>1, <3>1 DEF Request, Answered
  <2>2. CASE ~(seen[e] >= 0)
    <3>1. sub' = [sub EXCEPT ![s].event = e, ![s].rest = Tail(@)]
      BY <2>2 DEF Check
    <3>. QED
      BY <1>2, <3>1 DEF Request, Answered
  <2>. QED
    BY <2>1, <2>2
<1>6. Passed(sub[s])' = k + 1
  <2>1. Passed(sub[s])' = Len(sending.events) - Len(Tail(r.rest))
    BY <1>5 DEF Passed
  <2>2. k = Len(sending.events) - Len(r.rest)
    BY DEF Passed
  <2>3. /\ Len(sending.events) \in Nat /\ Len(r.rest) \in Nat
        /\ Len(Tail(r.rest)) = Len(r.rest) - 1
    BY <1>4
  <2>4. \A a, b \in Nat : a - (b - 1) = a - b + 1
    OBVIOUS
  <2>5. Passed(sub[s])' = Len(sending.events) - (Len(r.rest) - 1)
    BY <2>1, <2>3
  <2>. HIDE DEF r, k
  <2>6. Len(sending.events) - (Len(r.rest) - 1) = Len(sending.events) - Len(r.rest) + 1
    BY <2>3, <2>4
  <2>. QED
    BY <2>2, <2>5, <2>6
<1>7. Settled(r) = k /\ Cardinality(Untaken(k)) <= r.result.dropped
  BY <1>1, <1>3 DEF Settled, CountedFor
<1>8. Cardinality(Untaken(Settled(sub[s]))') <= sub'[s].result.dropped
  <2>1. CASE sub'[s].event = e
    <3>1. Settled(sub[s])' = k
      BY <1>4, <1>6, <2>1 DEF Settled
    <3>2. Untaken(Settled(sub[s]))' = Untaken(k)
      BY <1>3, <3>1 DEF Untaken
    <3>. QED
      BY <1>5, <1>7, <3>2
  <2>2. CASE seen[e] >= 0 /\ sub'[s].event = NoEvent
    <3>1. \A o \in Senders : sub[o].event # e
      BY <1>3, <1>4, OnlyTheAgents
    <3>2. at[e] = seen[e]
      BY <1>4, <2>2, <3>1 DEF Table, InHand
    <3>3. Settled(sub[s])' = k + 1
      BY <1>6, <2>2 DEF Settled
    <3>4. at[e] # -1
      BY <1>4, <2>2, <3>2 DEF IngestTypes
    <3>5. Untaken(Settled(sub[s]))' = Untaken(k)
      BY <1>3, <1>4, <3>3, <3>4 DEF Untaken
    <3>. QED
      BY <1>4, <1>5, <1>7, <2>2, <3>5
  <2>. QED
    BY <1>5, <2>1, <2>2
<1>9. CountedFor(sub[s])'
  <2>1. Len(sub'[s].rest) <= Len(sending.events)
    BY <1>1, <1>4, <1>5 DEF CountedFor
  <2>2. \A i \in DOMAIN sub'[s].rest : sub'[s].rest[i] = sending.events[Passed(sub[s])' + i]
    BY <1>4, <1>5, <1>6
  <2>3. sub'[s].event # NoEvent => Passed(sub[s])' > 0 /\ sub'[s].event = sending.events[Passed(sub[s])']
    BY <1>4, <1>5, <1>6
  <2>. QED
    BY <1>1, <1>5, <1>8, <2>1, <2>2, <2>3 DEF CountedFor
<1>. QED
  BY <1>1, <1>9 DEF Counted

(* ... and offers the one at hand, which is taken or dropped. *)
LEMMA CountedOffer ==
    ASSUME CollectorTypes, IngestTypes, Counted,
           UNCHANGED <<mode, sending>>, sending.via \in Senders, Offer(sending.via)
    PROVE  Counted'
<1>. DEFINE s == sending.via
            r == sub[s]
            k == Passed(r)
<1>1. CountedFor(r) /\ mode.reachable
  BY DEF Counted
<1>2. /\ Request(r) /\ DOMAIN sub = Senders /\ clock \in Nat /\ at \in [Events -> Int]
  BY DEF IngestTypes
<1>3. r.event # NoEvent /\ r.event \in Events
  BY <1>2 DEF Offer, Request
<1>4. Len(r.rest) \in Nat /\ Len(sending.events) \in Nat /\ r.result.dropped \in Nat
  BY <1>2 DEF Request, Answered, CollectorTypes
<1>5. /\ Len(r.rest) <= Len(sending.events)
      /\ \A i \in DOMAIN r.rest : r.rest[i] = sending.events[k + i]
      /\ k > 0 /\ r.event = sending.events[k]
      /\ Cardinality(Untaken(Settled(r))) <= r.result.dropped
  BY <1>1, <1>3 DEF CountedFor
<1>6. k \in Nat /\ k <= Len(sending.events)
  BY <1>4, <1>5, PassedIsBetween
<1>7. Settled(r) = k - 1 /\ IsFiniteSet(Untaken(k - 1)) /\ Cardinality(Untaken(k - 1)) \in Nat
  BY <1>3, <1>6, UntakenIsFinite DEF Settled
<1>8. /\ sub'[s].open = r.open /\ sub'[s].rest = r.rest /\ sub'[s].event = NoEvent
      /\ \/ at' = [at EXCEPT ![r.event] = clock] /\ sub'[s].result.dropped = r.result.dropped
         \/ at' = at /\ sub'[s].result.dropped = r.result.dropped + 1
  <2>1. CASE /\ sub' = [sub EXCEPT ![s].event = NoEvent, ![s].result.accepted = @ + 1]
             /\ at' = [at EXCEPT ![r.event] = clock]
    BY <1>2, <2>1 DEF Request, Answered
  <2>2. CASE /\ sub' = [sub EXCEPT ![s].event = NoEvent, ![s].result.dropped = @ + 1]
             /\ at' = at
    BY <1>2, <2>2 DEF Request, Answered
  <2>. QED
    BY <2>1, <2>2 DEF Offer
<1>9. Passed(sub[s])' = k /\ Settled(sub[s])' = k
  BY <1>8 DEF Settled, Passed
<1>10. Cardinality(Untaken(Settled(sub[s]))') <= sub'[s].result.dropped
  <2>1. CASE at' = [at EXCEPT ![r.event] = clock] /\ sub'[s].result.dropped = r.result.dropped
    <3>1. \A i \in 1 .. k : at'[sending.events[i]] = -1 => i # k /\ at[sending.events[i]] = -1
      <4>1. at'[r.event] = clock /\ clock # -1
        BY <1>2, <1>3, <2>1
      <4>2. \A e : e # r.event => at'[e] = at[e]
        BY <1>2, <2>1
      <4>. QED
        BY <1>5, <4>1, <4>2
    <3>2. Untaken(Settled(sub[s]))' \subseteq Untaken(k - 1)
      BY <1>6, <1>9, <3>1 DEF Untaken
    <3>3. Cardinality(Untaken(Settled(sub[s]))') <= Cardinality(Untaken(k - 1))
      BY <1>7, <3>2, FS_Subset
    <3>4. Cardinality(Untaken(Settled(sub[s]))') \in Nat
      BY <1>7, <3>2, FS_Subset, FS_CardinalityType
    <3>. QED
      BY <1>4, <1>5, <1>7, <2>1, <3>3, <3>4
  <2>2. CASE at' = at /\ sub'[s].result.dropped = r.result.dropped + 1
    <3>1. Untaken(Settled(sub[s]))' \subseteq Untaken(k - 1) \union {k}
      BY <1>6, <1>9, <2>2 DEF Untaken
    <3>2. /\ IsFiniteSet(Untaken(k - 1) \union {k})
          /\ Cardinality(Untaken(k - 1) \union {k}) <= Cardinality(Untaken(k - 1)) + 1
          /\ Cardinality(Untaken(k - 1) \union {k}) \in Nat
      <4>1. /\ IsFiniteSet(Untaken(k - 1) \union {k})
            /\ Cardinality(Untaken(k - 1) \union {k})
                 = IF k \in Untaken(k - 1) THEN Cardinality(Untaken(k - 1)) ELSE Cardinality(Untaken(k - 1)) + 1
        BY <1>7, FS_AddElement
      <4>. QED
        BY <1>7, <4>1
    <3>3. Cardinality(Untaken(Settled(sub[s]))') <= Cardinality(Untaken(k - 1) \union {k})
      BY <3>1, <3>2, FS_Subset
    <3>4. Cardinality(Untaken(Settled(sub[s]))') \in Nat
      BY <3>1, <3>2, FS_Subset, FS_CardinalityType
    <3>. QED
      BY <1>4, <1>5, <1>7, <2>2, <3>2, <3>3, <3>4
  <2>. QED
    BY <1>8, <2>1, <2>2
<1>11. CountedFor(sub[s])'
  BY <1>1, <1>5, <1>8, <1>9, <1>10 DEF CountedFor
<1>. QED
  BY <1>1, <1>11 DEF Counted

LEMMA CountedDeliver ==
    ASSUME CollectorTypes, IngestTypes, NEW s \in Senders, Deliver(s)
    PROVE  Counted'
<1>0. DOMAIN sub = Senders /\ DOMAIN sending = {"events", "via"} /\ sending.events \in Seq(Seen)
  BY DEF IngestTypes, CollectorTypes
<1>1. /\ mode' = mode /\ mode.reachable
      /\ sending' = [sending EXCEPT !.via = s]
      /\ sub' = [sub EXCEPT ![s] = [NoRequest EXCEPT !.open = TRUE, !.rest = sending.events]]
  BY DEF Deliver, Submit
<1>2. sending'.via = s /\ sending'.events = sending.events
  BY <1>0, <1>1
<1>3. /\ sub'[s].open /\ sub'[s].rest = sending.events /\ sub'[s].event = NoEvent
      /\ sub'[s].result.dropped = 0
  BY <1>0, <1>1 DEF NoRequest, NoResult
<1>4. Len(sending.events) \in Nat
  BY <1>0
<1>5. Passed(sub[s])' = 0 /\ Settled(sub[s])' = 0
  BY <1>2, <1>3, <1>4 DEF Passed, Settled
<1>6. Untaken(Settled(sub[s]))' = {}
  BY <1>5 DEF Untaken
<1>7. Cardinality(Untaken(Settled(sub[s]))') <= sub'[s].result.dropped
  BY <1>3, <1>6, FS_EmptySet
<1>8. \A i \in DOMAIN sub'[s].rest : sub'[s].rest[i] = sending'.events[Passed(sub[s])' + i]
  BY <1>0, <1>2, <1>3, <1>5
<1>9. CountedFor(sub[s])'
  BY <1>2, <1>3, <1>4, <1>5, <1>7, <1>8 DEF CountedFor
<1>. QED
  BY <1>1, <1>2, <1>9 DEF Counted

LEMMA CountedStep ==
    ASSUME CollectorTypes, CollectorTypes', IngestTypes, Table, SentOnce, Counted, [Next]_vars
    PROVE  Counted'
<1>1. IngestStep \/ UNCHANGED ingestVars
  BY IngestMoves
<1>2. ASSUME sending'.via = "none" PROVE Counted'
  BY <1>2, DeliveryAssumption DEF Counted
<1>3. ASSUME UNCHANGED <<mode, sending>>, sending.via \in Senders => sub'[sending.via] = sub[sending.via]
      PROVE  Counted'
  <2>1. CASE sending.via \in Senders
    BY <1>1, <1>3, <2>1, CountedKept
  <2>2. CASE sending.via \notin Senders
    BY <1>3, <2>2 DEF Counted
  <2>. QED
    BY <2>1, <2>2
<1>4. ASSUME UNCHANGED <<mode, sending>>, NEW s \in Senders,
             s # sending.via, Check(s) \/ Offer(s) \/ Answer(s) \/ Leave(s) \/ \E events \in Seq(Events) : Submit(s, events)
      PROVE  Counted'
  <2>1. sending.via \in Senders => sub'[sending.via] = sub[sending.via]
    BY <1>4, RequestTypes
  <2>. QED
    BY <1>3, <1>4, <2>1
<1>5. CASE AgentOnly /\ (Gateway \/ FollowLog)
  <2>1. UNCHANGED <<mode, sending, sub>>
    BY <1>5 DEF AgentOnly, Gateway, FollowLog, loopVars, ingestVars
  <2>. QED
    BY <1>3, <2>1
<1>6. CASE AgentOnly /\ (Collect \/ Flush \/ Unreachable)
  BY <1>2, <1>6 DEF Collect, Flush, Idle, Unreachable, Finish, NoRequestOut
<1>7. CASE UNCHANGED vars
  BY <1>3, <1>7 DEF vars, collectorVars, loopVars, ingestVars
<1>8. CASE Platform
  <2>1. UNCHANGED <<mode, sending>>
    BY <1>8 DEF Platform, IngestOnly, collectorVars, loopVars
  <2>2. UNCHANGED sub \/ \E s \in Senders : Check(s) \/ Offer(s)
    BY <1>8 DEF Platform, IngestNext, Tick, CleanupSeen, Stop, BeginClose, Exit, Work, Done,
       SinkTake, SinkFlush, CloseSink, SinkClosed
  <2>. QED
    BY <1>3, <1>4, <2>1, <2>2, CountedCheck, CountedOffer
<1>9. CASE StopRunning
  BY <1>2, <1>9 DEF StopRunning, StopAgent, NoRequestOut
<1>10. ASSUME NEW s \in Senders, Foreign(s) PROVE Counted'
  <2>1. UNCHANGED <<mode, sending>> /\ ~sub[s].open /\ \E events \in mode.batches : Submit(s, events)
    BY <1>10 DEF Foreign, Submit, collectorVars, loopVars
  <2>2. \E events \in Seq(Events) : Submit(s, events)
    BY <2>1, DeliveryAssumption DEF CollectorTypes
  <2>3. s # sending.via
    BY <2>1 DEF Counted, CountedFor
  <2>. QED
    BY <1>4, <2>1, <2>2, <2>3
<1>11. ASSUME NEW s \in Senders, Reply(s) PROVE Counted'
  <2>1. CASE sending.via = s
    BY <1>2, <1>11, <2>1 DEF Reply, Finish, NoRequestOut
  <2>2. CASE sending.via # s
    <3>1. Answer(s) /\ UNCHANGED <<mode, sending>>
      BY <1>11, <2>2 DEF Reply, collectorVars, loopVars
    <3>. QED
      BY <1>4, <2>2, <3>1
  <2>. QED
    BY <2>1, <2>2
<1>12. ASSUME NEW s \in Senders, GiveUp(s) PROVE Counted'
  BY <1>2, <1>12 DEF GiveUp, Finish, NoRequestOut
<1>13. ASSUME NEW s \in Senders, ForeignGivesUp(s) PROVE Counted'
  <2>1. s # sending.via /\ Leave(s) /\ UNCHANGED <<mode, sending>>
    BY <1>13 DEF ForeignGivesUp, IngestOnly, collectorVars, loopVars
  <2>. QED
    BY <1>4, <2>1
<1>. QED
  BY <1>5, <1>6, <1>7, <1>8, <1>9, <1>10, <1>11, <1>12, <1>13, CountedDeliver DEF Next

(* When a request has been served, what was never taken of it was dropped, *)
(* and the answer says so, by its status or by its count.                  *)
LEMMA LossReported ==
    ASSUME CollectorTypes, IngestTypes, Counted, NEW s \in Senders, Reply(s), sending.via = s
    PROVE  rate' >= Cardinality({e \in Posted : at[e] = -1})
<1>. DEFINE r == sub[s]
            n == Len(sending.events)
            lost == {e \in Posted : at[e] = -1}
<1>1. /\ r.rest = <<>> /\ r.event = NoEvent /\ rate' = Reported(Status(r.result))
  BY DEF Reply, Answer, Submitted, Finish
<1>2. /\ n \in Nat /\ sending.events \in Seq(Seen) /\ r.result.dropped \in Nat /\ r.result.accepted \in Nat
  BY DEF CollectorTypes, IngestTypes, Request, Answered
<1>3. Settled(r) = n
  <2>1. Len(r.rest) = 0
    BY <1>1
  <2>. QED
    BY <1>1, <1>2, <2>1 DEF Settled, Passed
<1>4. Cardinality(Untaken(n)) <= r.result.dropped
  BY <1>3 DEF Counted, CountedFor
<1>5. DOMAIN sending.events = 1 .. n
  BY <1>2
<1>6. /\ IsFiniteSet(Untaken(n)) /\ Cardinality(Untaken(n)) \in Nat
      /\ IsFiniteSet(1 .. n) /\ Cardinality(1 .. n) = n
      /\ Untaken(n) \subseteq 1 .. n
  <2>1. n \in Int /\ 1 \in Int /\ n - 1 + 1 = n
    BY <1>2
  <2>2. IsFiniteSet(1 .. n) /\ Cardinality(1 .. n) = IF 1 > n THEN 0 ELSE n - 1 + 1
    BY <2>1, FS_Interval
  <2>3. Cardinality(1 .. n) = n
    BY <1>2, <2>2
  <2>4. Untaken(n) \subseteq 1 .. n
    BY DEF Untaken
  <2>. QED
    BY <2>1, <2>2, <2>3, <2>4, UntakenIsFinite
<1>7. /\ IsFiniteSet(lost) /\ Cardinality(lost) <= Cardinality(Untaken(n))
  <2>. DEFINE f == [i \in Untaken(n) |-> sending.events[i]]
  <2>1. f \in Surjection(Untaken(n), lost)
    BY <1>5, <1>6 DEF Surjection, Untaken, Posted
  <2>. QED
    BY <1>6, <2>1, FS_Surjection
<1>8. Cardinality(lost) \in Nat /\ Cardinality(Untaken(n)) <= n
  BY <1>6, <1>7, FS_CardinalityType, FS_Subset
<1>9. rate' \in {n, r.result.dropped}
  BY <1>1, <1>2 DEF Reported, Status
<1>. QED
  BY <1>2, <1>4, <1>6, <1>7, <1>8, <1>9

(* Whatever the platform drops of a batch it answers is in the drop rate   *)
(* the agent reports, for any batches, any sizes and any senders, and      *)
(* although the answer is a bare status for a batch of which nothing was   *)
(* taken (SendEvents, ingestStatus, Submit).  It rests on a line's being   *)
(* sent once: otherwise an event could be answered as a duplicate, which   *)
(* nobody counts, of one that another request has in hand and then drops.  *)
THEOREM LossCounted == Spec => LossIsCounted
<1>. DEFINE Inv == CollectorTypes /\ IngestTypes /\ Table /\ InOrder /\ SentOnce /\ Counted
<1>1. Init => Inv
  <2>1. Init => Counted
    BY DeliveryAssumption DEF Init, CollectorInit, NoRequestOut, Counted
  <2>. QED
    BY <2>1, IntakeInductive, InOrderInit, SentOnceInit
<1>2. Inv /\ [Next]_vars => Inv'
  <2>1. Inv /\ [Next]_vars => CollectorTypes' /\ IngestTypes' /\ Table'
    BY IntakeInductive
  <2>2. Inv /\ [Next]_vars => InOrder'
    BY CollectorMoves, InOrderStep
  <2>. QED
    BY <2>1, <2>2, SentOnceStep, CountedStep
<1>3. Inv /\ [Next]_vars
      => [\A s \in Senders : Reply(s) /\ sending.via = s =>
            LET batched == {sending.events[i] : i \in DOMAIN sending.events}
            IN  rate' >= Cardinality({e \in batched : at[e] = -1})]_vars
  BY LossReported DEF Posted
<1>. QED
  BY <1>1, <1>2, <1>3, PTL DEF Spec, LossIsCounted
=============================================================================
