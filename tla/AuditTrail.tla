----------------------------- MODULE AuditTrail -----------------------------
(***************************************************************************)
(* The platform's own audit trail (platform/internal/audit/audit.go and    *)
(* the audit half of both stores): records chained by their hashes, the    *)
(* verification of the chain, and retention.                               *)
(*                                                                         *)
(* Records are appended one after the other, from any number of            *)
(* instances; a verification reads the trail in batches while others       *)
(* append and while retention drops one month after the other.  Any call   *)
(* of PostgreSQL may fail; MemStore's do not.                              *)
(*                                                                         *)
(* The table has a row for each sequence number it still holds.  A hash is *)
(* a number: s for the record with sequence number s as it was appended,   *)
(* -s for one rewritten together with its hash, 0 for the hash before the  *)
(* first.  The hash covers the number and the previous hash.               *)
(***************************************************************************)
EXTENDS Integers, FiniteSets

CONSTANTS
    Handlers,    \* requests to verify that are served at a time
    Daily,       \* the background thread that verifies the whole trail
    Batch,       \* 10000 rows read at a time from PostgreSQL
    Month,       \* a partition of the table holds that long
    Retention,   \* AuditRetentionDays
    Modes,       \* circumstances to consider
    MaxRecords, MaxTime  \* bounds of the model

Threads == Handlers \cup {Daily}
Seqs == 1 .. MaxRecords
Times == 0 .. MaxTime
NoPoint == [seq |-> 0, hash |-> 0]
Unknown == MaxRecords + 1

(* memory: MemStore and not PostgreSQL; verifications, damages, time: how  *)
(* many, and how long it goes on (bounds).                                 *)
Mode == [memory : BOOLEAN, verifications : Nat, damages : Nat, time : Nat]

ASSUME AuditTrailAssumption ==
    /\ Daily \notin Handlers
    /\ Batch \in Nat \ {0} /\ Month \in Nat \ {0} /\ Retention \in Nat
    /\ Modes \subseteq Mode
    /\ MaxRecords \in Nat \ {0} /\ MaxTime \in Nat

VARIABLES
    mode,
    clock,
    trail,     \* fl_audit_logs: a record for each number
    head,      \* fl_audit_head: what the next record follows
    point,     \* the checkpoint in the settings
    pc, job,   \* what each verification is doing, and its local variables
    dropping,  \* months the purge under way has still to drop
    count,     \* verifications that were started
    damage,    \* damaged records: <<seq, how>>
    torn,      \* a purge broke off and may have left a gap
    vouched    \* records that a verification walked and passed

vars == <<mode, clock, trail, head, point, pc, job, dropping, count, damage, torn, vouched>>

Record == [time : Times, prev : Int, hash : Int, intact : BOOLEAN]

(* A verification, anchor is its checkpoint, next the first number of the  *)
(* next batch and prev the last record's hash.  disturbed: retention       *)
(* dropped records since it started; hurt: damage there was at the start.  *)
NoJob == [anchor |-> NoPoint, next |-> 0, prev |-> Unknown, first |-> 0, last |-> 0,
          ok |-> TRUE, disturbed |-> FALSE, hurt |-> {}]

Init ==
    /\ mode \in Modes
    /\ clock = 0 /\ trail = [s \in {} |-> {}] /\ point = NoPoint
    /\ head = [seq |-> 0, hash |-> 0, time |-> 0]
    /\ pc = [t \in Threads |-> "idle"] /\ job = [t \in Threads |-> NoJob]
    /\ dropping = {} /\ count = 0
    /\ damage = {} /\ torn = FALSE /\ vouched = {}

Numbers == DOMAIN trail

First(S) == CHOOSE s \in S : \A u \in S : s <= u
Last(S) == CHOOSE s \in S : \A u \in S : u <= s

(* What is left of the trail. *)
Keep(S) == trail' = [s \in S |-> trail[s]]

Goto(t, l, j) == pc' = [pc EXCEPT ![t] = l] /\ job' = [job EXCEPT ![t] = j]
Return(t) == Goto(t, "idle", NoJob)

Tick ==
    /\ clock < mode.time /\ clock < MaxTime /\ clock' = clock + 1
    /\ UNCHANGED <<mode, trail, head, point, pc, job, dropping, count, damage, torn, vouched>>

-----------------------------------------------------------------------------
(* Appending.                                                              *)

Latest(a, b) == IF a > b THEN a ELSE b

(* Mutant of RecordTime: the time is the caller's. *)
RecordTimeAsGiven(t) == t

(* The time a record gets is never before the previous one's. *)
RecordTime(t) == Latest(t, head.time)

(* The hash a record follows: MemStore looks at the records there are,     *)
(* PostgreSQL at the head row.                                             *)
PrevHash ==
    IF ~mode.memory THEN head.hash
    ELSE IF Numbers = {} THEN 0 ELSE trail[Last(Numbers)].hash

(* AppendAudit of a record whose caller took the time at t. *)
Append1(t) ==
    LET n == head.seq + 1
        r == [time |-> RecordTime(t), prev |-> PrevHash, hash |-> n, intact |-> TRUE]
    IN  /\ n \in Seqs
        /\ trail' = [s \in Numbers \cup {n} |-> IF s = n THEN r ELSE trail[s]]
        /\ head' = [seq |-> n, hash |-> r.hash, time |-> r.time]

(* Record takes the time before the store appends, on the clock of its     *)
(* instance.                                                               *)
TakenAt == {clock, clock - 1} \cap Times

(* A request was served and is recorded. *)
RecordRequest ==
    /\ \E t \in TakenAt : Append1(t)
    /\ UNCHANGED <<mode, clock, point, pc, job, dropping, count, damage, torn, vouched>>

-----------------------------------------------------------------------------
(* Retention.                                                              *)

MonthOf(s) == trail[s].time \div Month

Cutoff == clock - Retention

(* Mutant of IsOver: the month in which the cutoff lies is dropped too.    *)
IsOverEarly(m) == m * Month <= Cutoff

(* The month lies entirely before the cutoff. *)
IsOver(m) == (m + 1) * Month <= Cutoff

Disturb == job' = [t \in Threads |->
                     IF pc[t] = "idle" THEN NoJob ELSE [job[t] EXCEPT !.disturbed = TRUE]]

(* MemStore deletes at once. *)
PurgeMemory ==
    /\ mode.memory /\ \E s \in Numbers : trail[s].time < Cutoff
    /\ Keep({s \in Numbers : trail[s].time >= Cutoff})
    /\ Disturb
    /\ UNCHANGED <<mode, clock, head, point, pc, dropping, count, damage, torn, vouched>>

(* PostgreSQL: list the months to drop. *)
Purge ==
    /\ ~mode.memory /\ dropping = {}
    /\ dropping' = {m \in {MonthOf(s) : s \in Numbers} : IsOver(m)}
    /\ dropping' # {}
    /\ UNCHANGED <<mode, clock, trail, head, point, pc, job, count, damage, torn, vouched>>

(* One partition, in whatever order the catalogue lists them.  The purge   *)
(* is recorded after the last.                                             *)
DropPartition ==
    \E m \in dropping :
      /\ dropping' = dropping \ {m} /\ Disturb
      /\ Keep({s \in Numbers : MonthOf(s) # m})
      /\ UNCHANGED <<mode, clock, head, point, pc, count, damage, torn, vouched>>

(* A partition cannot be dropped, or the list of them was cut short: those *)
(* dropped so far stay dropped.                                            *)
PurgeFails ==
    /\ dropping # {} /\ dropping' = {} /\ torn' = TRUE
    /\ UNCHANGED <<mode, clock, trail, head, point, pc, job, count, damage, vouched>>

(* The process ends, and starts again.  MemStore starts empty.             *)
Restart ==
    /\ ~mode.memory
    /\ pc' = [t \in Threads |-> "idle"] /\ job' = [t \in Threads |-> NoJob]
    /\ torn' = (torn \/ dropping # {}) /\ dropping' = {}
    /\ UNCHANGED <<mode, clock, trail, head, point, count, damage, vouched>>

(* A record changes in the database, alone or with its hash, or is lost.   *)
Damage ==
    \E s \in Numbers, how \in {"altered", "rewritten", "lost"} :
      /\ ~mode.memory /\ Cardinality(damage) < mode.damages
      /\ damage' = damage \cup {<<s, how>>}
      /\ \/ how = "altered" /\ trail' = [trail EXCEPT ![s].intact = FALSE]
         \/ how = "rewritten" /\ trail' = [trail EXCEPT ![s].hash = -s]
         \/ how = "lost" /\ Keep(Numbers \ {s})
      /\ UNCHANGED <<mode, clock, head, point, pc, job, dropping, count, torn, vouched>>

-----------------------------------------------------------------------------
(* Verification.                                                           *)

Begin(t) ==
    /\ pc[t] = "idle" /\ count < mode.verifications /\ count' = count + 1

(* loadCheckpoint: there is none if it cannot be read. *)
Loaded == {point} \cup (IF mode.memory THEN {} ELSE {NoPoint})

(* VerifyIncremental, from the checkpoint if there is one. *)
VerifyIncremental(t) ==
    /\ t \in Handlers /\ Begin(t)
    /\ \E cp \in Loaded :
         Goto(t, "walk", [NoJob EXCEPT !.anchor = cp, !.next = cp.seq, !.hurt = damage,
                                       !.disturbed = dropping # {}])
    /\ UNCHANGED <<mode, clock, trail, head, point, dropping, damage, torn, vouched>>

(* StartFullVerify, unless one is running. *)
StartFullVerify ==
    /\ Begin(Daily)
    /\ Goto(Daily, "walk", [NoJob EXCEPT !.hurt = damage, !.disturbed = dropping # {}])
    /\ UNCHANGED <<mode, clock, trail, head, point, dropping, damage, torn, vouched>>

(* The records of the next batch. *)
NextBatch(j) ==
    LET rest == {s \in Numbers : s >= j.next}
    IN  IF mode.memory THEN rest
        ELSE {s \in rest : Cardinality({u \in rest : u <= s}) <= Batch}

(* The checkpoint's record must be the first, as it was. *)
AnchorGone(j, s) ==
    j.anchor # NoPoint /\ j.first = 0 /\ [seq |-> s, hash |-> trail[s].hash] # j.anchor

(* s comes right after p in batch b. *)
Follows(b, p, s) == p < s /\ \A u \in b : u <= p \/ s <= u

(* Mutant of Unlinked: links are checked within a batch only. *)
UnlinkedInBatch(j, b, s) == \E p \in b : Follows(b, p, s) /\ trail[s].prev # trail[p].hash

(* The record does not follow the one read before it, maybe in the batch   *)
(* before.                                                                 *)
Unlinked(j, b, s) ==
    \/ \E p \in b : Follows(b, p, s) /\ trail[s].prev # trail[p].hash
    \/ s = First(b) /\ j.prev # Unknown /\ trail[s].prev # j.prev

Broken(j, b, s) ==
    \/ s = First(b) /\ AnchorGone(j, s)
    \/ Unlinked(j, b, s)
    \/ ~trail[s].intact

(* One batch of verifyFrom. *)
Walk(t) ==
    LET j == job[t]
        b == NextBatch(j)
        first == IF j.first = 0 /\ b # {} THEN First(b) ELSE j.first
        ok == ~\E s \in b : Broken(j, b, s)
    IN  /\ pc[t] = "walk"
        /\ IF ok /\ Cardinality(b) = Batch /\ ~mode.memory
           THEN Goto(t, "walk", [j EXCEPT !.first = first, !.last = Last(b),
                                          !.next = Last(b) + 1,
                                          !.prev = trail[Last(b)].hash])
           ELSE Goto(t, "judge",
                  [j EXCEPT !.first = first,
                            !.last = IF b = {} THEN @ ELSE Last(b),
                            !.ok = ok /\ ~(j.anchor # NoPoint /\ first = 0)])
        /\ UNCHANGED <<mode, clock, trail, head, point, dropping, count, damage, torn, vouched>>

(* A batch cannot be read.  The caller of a verification is told so; the   *)
(* one in the background counts as failed.                                 *)
WalkFails(t) ==
    /\ ~mode.memory /\ pc[t] = "walk"
    /\ IF t = Daily THEN Goto(t, "interrupted", job[t]) ELSE Return(t)
    /\ UNCHANGED <<mode, clock, trail, head, point, dropping, count, damage, torn, vouched>>

(* purgedBefore: no older record remains, or it cannot be read. *)
PurgedBefore(n) == {\A s \in Numbers : s >= n} \cup (IF mode.memory THEN {} ELSE {TRUE})

(* A checkpoint that fell to retention: verify the whole trail instead.    *)
Judge(t) ==
    LET j == job[t]
    IN  /\ pc[t] = "judge"
        /\ \E purged \in PurgedBefore(j.first) :
           IF ~j.ok /\ j.anchor # NoPoint /\ j.first > j.anchor.seq /\ purged
           THEN Goto(t, "walk", [NoJob EXCEPT !.hurt = j.hurt, !.disturbed = j.disturbed])
           ELSE Goto(t, IF j.ok THEN "save" ELSE "report", j)
        /\ vouched' = IF j.ok /\ j.first > 0 THEN vouched \cup (j.first .. j.last) ELSE vouched
        /\ UNCHANGED <<mode, clock, trail, head, point, dropping, count, damage, torn>>

(* Mutant of LastWalked: the checkpoint is the end of the trail. *)
LastWalkedOrLater(j) == {s \in Numbers : \A u \in Numbers : u <= s}

(* The last record of the walk, if it is still there. *)
LastWalked(j) == {j.last} \cap Numbers

(* A checkpoint that cannot be read or written back is not saved. *)
SaveCheckpoint(t) ==
    LET j == job[t]
    IN  /\ pc[t] = "save" /\ Goto(t, "report", j)
        /\ \/ \E s \in LastWalked(j) : point' = [seq |-> s, hash |-> trail[s].hash]
           \/ (LastWalked(j) = {} \/ ~mode.memory) /\ UNCHANGED point
        /\ UNCHANGED <<mode, clock, trail, head, dropping, count, damage, torn, vouched>>

(* Report the result: to the caller, or as a record of the trail.          *)
Report(t) ==
    /\ pc[t] \in {"report", "interrupted"} /\ Return(t)
    /\ \/ t = Daily /\ Append1(clock)
       \/ (t # Daily \/ ~mode.memory \/ head.seq = MaxRecords) /\ UNCHANGED <<trail, head>>
    /\ UNCHANGED <<mode, clock, point, dropping, count, damage, torn, vouched>>

Next ==
    \/ Tick \/ RecordRequest \/ Restart \/ Damage
    \/ PurgeMemory \/ Purge \/ DropPartition \/ PurgeFails \/ StartFullVerify
    \/ \E t \in Threads :
         VerifyIncremental(t) \/ Walk(t) \/ WalkFails(t) \/ Judge(t) \/ SaveCheckpoint(t) \/ Report(t)

Spec == Init /\ [][Next]_vars

-----------------------------------------------------------------------------
(* Properties.                                                             *)

Judged(t) == pc[t] \in {"save", "report"}

(* What is shown, and recorded of the one in the background, as a problem. *)
Alarm(t) == (Judged(t) /\ ~job[t].ok) \/ pc[t] = "interrupted"

(* A verification reports a problem only of a trail that was damaged: not  *)
(* because others append, clocks differ, a checkpoint is old or cannot be  *)
(* read or saved, or retention dropped the checkpoint's record.  It may    *)
(* when a purge overlaps with it or broke off, when nothing at all is left,*)
(* or, in the background, when a read fails (VerifyIncremental,            *)
(* StartFullVerify).                                                       *)
AlarmsAreReal ==
    \A t \in Threads : Alarm(t) =>
        \/ damage # {} \/ job[t].disturbed \/ torn \/ job[t].first = 0
        \/ t = Daily /\ pc[t] = "interrupted"

(* What is left of the damage shows among the records up to number n: an   *)
(* altered record, or a rewritten or lost one that a record there follows. *)
Shows(d, n) ==
    LET s == d[1]
    IN  CASE d[2] = "altered" -> s \in Numbers /\ s <= n
          [] d[2] = "rewritten" -> s \in Numbers /\ s + 1 \in Numbers /\ s + 1 <= n
          [] d[2] = "lost" -> s - 1 \in Numbers /\ s + 1 \in Numbers /\ s + 1 <= n

(* A verification that passes has not walked past damage that was there    *)
(* when it started, whatever was appended and dropped between its batches  *)
(* (verifyFrom).                                                           *)
DamageIsFound ==
    \A t \in Threads : Judged(t) /\ job[t].ok =>
        \A d \in job[t].hurt : d[1] > job[t].anchor.seq => ~Shows(d, job[t].last)

(* Every record left before the checkpoint was walked by a verification    *)
(* that passed, in whatever order verifications save their checkpoints     *)
(* (saveCheckpoint).                                                       *)
CheckpointCovers == \A s \in Numbers : s <= point.seq => s \in vouched

(* Retention deletes no record younger than it (dropPartitionsBefore).     *)
OnlyOldIsPurged ==
    [][damage' = damage =>
         \A s \in Numbers :
             trail[s].time >= Cutoff => s \in Numbers' /\ trail'[s] = trail[s]]_vars
=============================================================================
