----------------------------- MODULE Collector -----------------------------
(***************************************************************************)
(* The agent next to a gateway: the tail of the gateway's log, which the   *)
(* gateway or logrotate may truncate or replace (gateway_log.go), the      *)
(* channel it feeds (collector.go), the loop that makes batches of events  *)
(* (processEvents in cmd/main.go) and the client that posts them           *)
(* (mgmt/client.go).  A line's event is the line's number.                 *)
(***************************************************************************)
EXTENDS Integers, Sequences

CONSTANTS
    Files,        \* files the log's path may name in turn; without a log the
                  \* events are those of another collector
    NoFile,
    ChanSize, BatchSize,
    Modes         \* the circumstances of a behaviour

ASSUME CollectorAssumption ==
    /\ NoFile \notin Files
    /\ {ChanSize, BatchSize} \subseteq Nat \ {0}

VARIABLES
    mode,      \* rotate, and bounds of the model: lines, backlog, ...
    file,      \* content of each file: pieces of lines
    path,      \* the file the path names
    fd,        \* the file the gateway writes to
    written,   \* lines begun
    half,      \* the last one is not complete
    tail,      \* tailLoop: file, offset, partial line; the last line handled
    chan,      \* events
    batch,
    sending,   \* the request of SendEvents
    rate,      \* how many events the last flush reported as dropped
    running

gatewayVars == <<file, path, fd, written, half>>
loopVars == <<batch, sending, rate, running>>
collectorVars == <<mode, gatewayVars, tail, chan, loopVars>>

NoRequestOut == [events |-> <<>>, via |-> "none"]

CollectorInit ==
    /\ mode \in Modes
    /\ file = [f \in Files |-> <<>>]
    /\ path \in (IF mode.rotate = "none" THEN {} ELSE Files) \union {NoFile} /\ fd = path
    /\ written = mode.backlog /\ half = FALSE
    /\ tail = [pc |-> "wait", file |-> NoFile, offset |-> 0, partial |-> 0, last |-> 0]
    /\ chan = [i \in 1..mode.backlog |-> i]
    /\ batch = <<>> /\ sending = NoRequestOut
    /\ rate = 0
    /\ running = TRUE

-----------------------------------------------------------------------------
(* The gateway and logrotate.                                              *)

Write(line, part) == file' = [file EXCEPT ![fd] = Append(@, [line |-> line, part |-> part])]

(* A line, or the first part of one, and later the rest of it. *)
WriteLine ==
    /\ fd # NoFile /\ ~half /\ written < mode.lines /\ written' = written + 1
    /\ \/ Write(written + 1, "whole") /\ UNCHANGED half
       \/ Write(written + 1, "start") /\ half' = TRUE
    /\ UNCHANGED <<path, fd>>

WriteRest ==
    /\ half /\ half' = FALSE /\ Write(written, "rest")
    /\ UNCHANGED <<path, fd, written>>

(* copytruncate *)
Truncate ==
    /\ mode.rotate = "truncate" /\ fd # NoFile /\ file[fd] # <<>>
    /\ file' = [file EXCEPT ![fd] = <<>>]
    /\ UNCHANGED <<path, fd, written, half>>

Unused == {f \in Files \ {fd} : file[f] = <<>>}

(* The log is renamed; the gateway writes to it until it opens a new one.  *)
(* Rotations are farther apart than the ticks of the tail.                 *)
Rename ==
    /\ mode.rotate = "rename" /\ path # NoFile /\ path' = NoFile
    /\ tail.file = path /\ Unused # {}
    /\ UNCHANGED <<file, fd, written, half>>

OpenLog ==
    /\ path = NoFile /\ ~half
    /\ \E f \in Unused : path' = f /\ fd' = f
    /\ UNCHANGED <<file, written, half>>

Gateway ==
    /\ WriteLine \/ WriteRest \/ Truncate \/ Rename \/ OpenLog
    /\ UNCHANGED <<mode, tail, chan, loopVars>>

-----------------------------------------------------------------------------
(* tailLoop.                                                               *)

Content == file[tail.file]

(* openLog, and the seek to the end. *)
OpenTail ==
    /\ tail.pc = "wait" /\ path # NoFile
    /\ tail' = [tail EXCEPT !.pc = "drain", !.file = path, !.offset = Len(file[path]),
                            !.last = written]
    /\ UNCHANGED chan

Draining == tail.pc \in {"drain", "drainAgain"}

(* Emit drops the event if the channel is full. *)
Emit(line) == chan' = IF Len(chan) < ChanSize THEN Append(chan, line) ELSE chan

(* The next piece: a piece without an end of line is kept, one that does   *)
(* not go with what was kept makes no event.                               *)
ReadPiece ==
    LET piece == Content[tail.offset + 1]
        complete == tail.partial = IF piece.part = "rest" THEN piece.line ELSE 0
    IN  /\ Draining /\ tail.offset < Len(Content)
        /\ IF piece.part = "start"
           THEN tail' = [tail EXCEPT !.offset = @ + 1, !.partial = piece.line] /\ UNCHANGED chan
           ELSE IF complete
           THEN /\ tail' = [tail EXCEPT !.offset = @ + 1, !.partial = 0, !.last = piece.line]
                /\ Emit(piece.line)
           ELSE tail' = [tail EXCEPT !.offset = @ + 1, !.partial = 0] /\ UNCHANGED chan

AtEnd ==
    /\ Draining /\ tail.offset >= Len(Content)
    /\ tail' = [tail EXCEPT !.pc = IF @ = "drain" THEN "stat" ELSE "open"]
    /\ UNCHANGED chan

FromStart(f) == [tail EXCEPT !.pc = "drain", !.file = f, !.offset = 0, !.partial = 0]

(* Mutant of Replaced: the new file is opened without a last look at the   *)
(* old one.                                                                *)
ReplacedAtOnce == "open"

(* Mutant of Replaced: the old file is followed for ever. *)
ReplacedNever == "drain"

(* What is done first when the path names another file. *)
Replaced == "drainAgain"

Truncated == Len(Content) < tail.offset

Stat ==
    /\ tail.pc = "stat"
    /\ tail' = IF path # NoFile /\ path # tail.file THEN [tail EXCEPT !.pc = Replaced]
               ELSE IF path # NoFile /\ Truncated THEN FromStart(path)
               ELSE [tail EXCEPT !.pc = "drain"]
    /\ UNCHANGED chan

Reopen ==
    /\ tail.pc = "open"
    /\ tail' = IF path = NoFile THEN [tail EXCEPT !.pc = "drain"] ELSE FromStart(path)
    /\ UNCHANGED chan

FollowLog ==
    /\ running /\ (OpenTail \/ ReadPiece \/ AtEnd \/ Stat \/ Reopen)
    /\ UNCHANGED <<mode, gatewayVars, loopVars>>

-----------------------------------------------------------------------------
(* processEvents and SendEvents.  The loop waits for its request.          *)

Idle == sending = NoRequestOut /\ running

(* An event from the channel; a full batch is flushed. *)
Collect ==
    /\ Idle /\ chan # <<>> /\ chan' = Tail(chan)
    /\ UNCHANGED <<mode, gatewayVars, tail, rate, running>>
    /\ LET more == Append(batch, Head(chan))
       IN  IF Len(more) >= BatchSize
           THEN batch' = <<>> /\ sending' = [NoRequestOut EXCEPT !.events = more]
           ELSE batch' = more /\ UNCHANGED sending

(* The ticker. *)
Flush ==
    /\ Idle /\ batch # <<>>
    /\ batch' = <<>> /\ sending' = [NoRequestOut EXCEPT !.events = batch]
    /\ UNCHANGED <<mode, gatewayVars, tail, chan, rate, running>>

(* flush has its answer, or none, and reports a drop rate. *)
Finish(dropped) ==
    /\ sending # NoRequestOut /\ sending' = NoRequestOut
    /\ rate' = dropped
    /\ UNCHANGED <<mode, gatewayVars, tail, chan, batch, running>>

(* The platform could not be reached: nothing is counted. *)
Unreachable == sending.via = "none" /\ Finish(0)

(* The signal: what is being sent is broken off, and the last flush fails  *)
(* as its context is cancelled already.                                    *)
StopAgent ==
    /\ running /\ mode.stops /\ running' = FALSE
    /\ batch' = <<>> /\ sending' = NoRequestOut
    /\ UNCHANGED <<mode, gatewayVars, tail, chan, rate>>

-----------------------------------------------------------------------------
(* Properties.                                                             *)

(* Lines are handled in the order they were written and none is passed     *)
(* over, the log being rotated by renaming it at any moment; when it is    *)
(* truncated, lines may be lost but none comes twice (tailLoop).           *)
EveryLineInOrder ==
    [][tail.pc # "wait" /\ tail'.last # tail.last =>
          IF mode.rotate = "truncate" THEN tail'.last > tail.last
          ELSE tail'.last = tail.last + 1]_collectorVars

(* However often the log is renamed and opened anew, the tail catches up   *)
(* with the gateway again and again while the agent runs (tailLoop).       *)
KeepsFollowing ==
    []<>(running /\ tail.pc # "wait" /\ mode.rotate = "rename" =>
            tail.last >= IF half THEN written - 1 ELSE written)
=============================================================================
