-------------------------- MODULE AuditTrailProofs --------------------------
(***************************************************************************)
(* Proofs about AuditTrail, for any number of records, verifications and   *)
(* damages, any batch and month, and any retention.                        *)
(***************************************************************************)
EXTENDS AuditTrail, FiniteSetTheorems, WellFoundedInduction, TLAPS

-----------------------------------------------------------------------------
(* Types.                                                                  *)

Hows == {"altered", "rewritten", "lost"}

IsPoint(p) ==
    p = [f \in {"seq", "hash"} |-> p[f]] /\ p.seq \in 0 .. MaxRecords /\ p.hash \in Int

IsJob(j) ==
    /\ DOMAIN j = {"anchor", "next", "prev", "first", "last", "ok", "disturbed", "hurt"}
    /\ IsPoint(j.anchor)
    /\ j.next \in Nat /\ j.prev \in Int /\ j.first \in Nat /\ j.last \in Nat
    /\ j.ok \in BOOLEAN /\ j.disturbed \in BOOLEAN

(* Where a verification may be. *)
Labels == {"idle", "walk", "judge", "save", "report", "interrupted"}

IsRecord(r) ==
    /\ r = [f \in {"time", "prev", "hash", "intact"} |-> r[f]]
    /\ r.time \in Nat /\ r.prev \in Int /\ r.hash \in Int /\ r.intact \in BOOLEAN

Types ==
    /\ mode \in Modes /\ clock \in Nat
    /\ trail = [s \in Numbers |-> trail[s]] /\ Numbers \subseteq Seqs
    /\ \A s \in Numbers : IsRecord(trail[s])
    /\ DOMAIN head = {"seq", "hash", "time"}
    /\ head.seq \in 0 .. MaxRecords /\ head.hash = head.seq /\ head.time \in Nat
    /\ IsPoint(point)
    /\ pc \in [Threads -> Labels]
    /\ DOMAIN job = Threads /\ \A t \in Threads : IsJob(job[t])
    /\ dropping \subseteq Nat
    /\ damage \subseteq Seqs \X Hows
    /\ torn \in BOOLEAN

-----------------------------------------------------------------------------
(* The inductive invariant.                                                *)

(* A record shows exactly the damage it suffered, is linked to the one     *)
(* before it, and is not older than that.                                  *)
Chain ==
    /\ mode.memory => damage = {}
    /\ \A d \in damage : d[1] <= head.seq
    /\ \A s \in Numbers :
         /\ s <= head.seq /\ trail[s].time <= head.time
         /\ \A u \in Numbers : s < u => trail[s].time <= trail[u].time
         /\ trail[s].hash = IF <<s, "rewritten">> \in damage THEN -s ELSE s
         /\ trail[s].intact <=> <<s, "altered">> \notin damage
         /\ <<s, "lost">> \notin damage
         /\ s - 1 \in Numbers \/ ~mode.memory => trail[s].prev = s - 1

From(s) == \A k \in s .. head.seq : k \in Numbers

(* The months to drop are old, and what stays is younger.  An undamaged    *)
(* trail has no gap behind a record that stays.                            *)
Months ==
    /\ mode.memory => dropping = {}
    /\ \A m \in dropping : IsOver(m) /\ m <= head.time \div Month
    /\ \A s \in Numbers : MonthOf(s) \notin dropping => \A m \in dropping : m < MonthOf(s)
    /\ damage = {} /\ ~torn => \A s \in Numbers : MonthOf(s) \notin dropping => From(s)

(* A checkpoint names a record that was there. *)
Sealed(p) ==
    /\ p.seq <= head.seq
    /\ IF p.seq = 0 THEN p.hash = 0 ELSE p.hash \in {p.seq, -p.seq}
    /\ damage = {} => p.hash = p.seq
    /\ \A s \in Numbers : s <= p.seq => s \in vouched

(* What a verification knows of the records it has read: they are vouched  *)
(* for by its checkpoint or it has walked them; none shows damage that was *)
(* there before; and on an undamaged and undisturbed trail it goes on with *)
(* the record after the last, or has found its checkpoint's record gone.   *)
Progress(l, j) ==
    /\ j.hurt \subseteq damage /\ Sealed(j.anchor)
    /\ j.first <= j.last /\ j.last <= head.seq /\ (j.last > 0 => j.first > 0)
    /\ l \in {"walk", "save"} => j.ok
    /\ l = "walk" /\ j.first = 0 => j.next = j.anchor.seq /\ j.prev = Unknown
    /\ l = "walk" /\ j.first > 0 =>
         /\ j.next = j.last + 1 /\ j.prev \in {j.last, -j.last}
         /\ <<j.last, "lost">> \notin j.hurt
         /\ <<j.last, "rewritten">> \in j.hurt => j.prev = -j.last
         /\ damage = {} => j.prev = j.last

Covered(l, j) ==
    \A s \in Numbers : s <= j.last => s \in vouched \/ (l \in {"walk", "judge"} /\ j.first <= s)

Clean(j) == j.ok => \A d \in j.hurt : d[1] > j.anchor.seq => ~Shows(d, j.last)

Undisturbed(l, j) ==
    damage = {} /\ ~torn /\ ~j.disturbed =>
      /\ \A s \in Numbers : From(s)
      /\ l = "walk" /\ j.first > 0 => j.last \in Numbers
      /\ ~j.ok /\ j.first > 0 =>
           /\ l = "judge" /\ j.anchor.seq > 0 /\ j.anchor.seq < j.first
           /\ \A s \in Numbers : s >= j.anchor.seq => s >= j.first

Good(l, j) == Progress(l, j) /\ (j.ok => Covered(l, j)) /\ Clean(j) /\ Undisturbed(l, j)

Jobs ==
    \A t \in Threads, l \in {"walk", "judge", "save", "report"} :
      \A j : pc[t] = l /\ job[t] = j => Good(l, j)

Interrupted == \A t \in Threads : pc[t] = "interrupted" => t = Daily

Inv == Types /\ Chain /\ Months /\ Sealed(point) /\ Jobs /\ Interrupted

-----------------------------------------------------------------------------
(* The operators of the model.                                             *)

LEMMA FirstIsLeast ==
    ASSUME NEW S \in SUBSET Nat, S # {}
    PROVE  First(S) \in S /\ \A u \in S : First(S) <= u
<1>1. PICK x \in S : \A y \in S : ~(<<y, x>> \in OpToRel(<, Nat))
  BY ONLY S \in SUBSET Nat, S # {}, WFMin, NatLessThanWellFounded
<1>2. \A y \in S : ~(y < x)
  BY <1>1 DEF OpToRel
<1>3. \A y \in S : x <= y
  BY <1>2
<1>. QED  BY <1>3 DEF First

LEMMA LastIsGreatest ==
    ASSUME NEW S \in SUBSET Seqs, S # {}
    PROVE  Last(S) \in S /\ \A u \in S : u <= Last(S)
<1>. DEFINE T == {MaxRecords - s : s \in S}
<1>1. \A s \in S : s \in 1 .. MaxRecords /\ MaxRecords - s \in Nat
  BY AuditTrailAssumption DEF Seqs
<1>2. T \in SUBSET Nat /\ T # {}
  BY <1>1
<1>. HIDE DEF T
<1>3. First(T) \in T /\ \A u \in T : First(T) <= u
  BY <1>2, FirstIsLeast
<1>4. PICK s \in S : First(T) = MaxRecords - s
  BY <1>3 DEF T
<1>5. \A u \in S : u <= s
  <2>. SUFFICES ASSUME NEW u \in S PROVE u <= s
    OBVIOUS
  <2>1. MaxRecords - u \in T
    BY DEF T
  <2>2. MaxRecords - s <= MaxRecords - u
    BY <1>3, <1>4, <2>1
  <2>. QED
    BY <1>1, <2>2, AuditTrailAssumption
<1>. QED
  BY <1>5 DEF Last

(* A batch is a stretch of what there is from its beginning on. *)
LEMMA BatchIsNext ==
    ASSUME Types, NEW j, IsJob(j), NEW b, b = NextBatch(j)
    PROVE  /\ b \subseteq Numbers /\ b \subseteq Seqs /\ \A s \in b : j.next <= s
           /\ \A s \in b, u \in Numbers : j.next <= u /\ u <= s => u \in b
           /\ Cardinality(b) = Batch => b # {}
<1>. DEFINE rest == {s \in Numbers : s >= j.next}
            upto(s) == {u \in rest : u <= s}
<1>1. Numbers \subseteq Seqs /\ IsFiniteSet(rest) /\ rest \subseteq Nat /\ j.next \in Nat
  <2>1. Numbers \subseteq 1 .. MaxRecords /\ MaxRecords \in Nat
    BY AuditTrailAssumption DEF Types, Seqs
  <2>2. IsFiniteSet(1 .. MaxRecords)
    BY <2>1, FS_Interval
  <2>3. rest \subseteq 1 .. MaxRecords
    BY <2>1
  <2>. QED
    BY <2>1, <2>2, <2>3, FS_Subset DEF IsJob, Seqs
<1>2. b = IF mode.memory THEN rest ELSE {s \in rest : Cardinality(upto(s)) <= Batch}
  BY DEF NextBatch
<1>3. ASSUME NEW s \in b, NEW u \in rest, u <= s PROVE u \in b
  <2>1. s \in rest /\ upto(u) \subseteq upto(s) /\ upto(s) \subseteq rest
    BY <1>1, <1>2, <1>3
  <2>2. IsFiniteSet(upto(s)) /\ IsFiniteSet(upto(u))
    BY <1>1, <2>1, FS_Subset
  <2>3. Cardinality(upto(u)) <= Cardinality(upto(s))
    BY <2>1, <2>2, FS_Subset
  <2>4. Cardinality(upto(u)) \in Nat /\ Cardinality(upto(s)) \in Nat
    BY <2>2, FS_CardinalityType
  <2>. QED
    BY <1>2, <1>3, <2>3, <2>4, AuditTrailAssumption
<1>4. Cardinality(b) = Batch => b # {}
  BY FS_EmptySet, AuditTrailAssumption
<1>5. b \subseteq rest
  BY <1>2
<1>. QED
  BY <1>1, <1>3, <1>4, <1>5

LEMMA NoJobTypes == IsJob(NoJob) /\ IsPoint(NoPoint)
BY AuditTrailAssumption DEF IsJob, IsPoint, NoJob, NoPoint, Unknown

(* What Append1 does to the table. *)
LEMMA Appended ==
    ASSUME Types, Chain, NEW t \in Nat, Append1(t)
    PROVE  /\ head.seq + 1 \in Seqs /\ head.seq + 1 \notin Numbers
           /\ Numbers' = Numbers \cup {head.seq + 1}
           /\ trail' = [s \in Numbers' |-> trail'[s]]
           /\ \A s \in Numbers : trail'[s] = trail[s]
           /\ trail'[head.seq + 1].prev \in Int
           /\ head.seq \in Numbers \/ ~mode.memory => trail'[head.seq + 1].prev = head.seq
           /\ trail'[head.seq + 1].time = head'.time
           /\ trail'[head.seq + 1].hash = head.seq + 1 /\ trail'[head.seq + 1].intact \in BOOLEAN
           /\ trail'[head.seq + 1].intact
           /\ IsRecord(trail'[head.seq + 1])
           /\ DOMAIN head' = {"seq", "hash", "time"}
           /\ head'.seq = head.seq + 1 /\ head'.hash = head.seq + 1
           /\ head'.time \in Nat /\ head.time <= head'.time
           /\ t <= head'.time
<1>. DEFINE n == head.seq + 1
            r == [time |-> RecordTime(t), prev |-> PrevHash, hash |-> n, intact |-> TRUE]
<1>1. /\ n \in Seqs
      /\ trail' = [s \in Numbers \cup {n} |-> IF s = n THEN r ELSE trail[s]]
      /\ head' = [seq |-> n, hash |-> r.hash, time |-> r.time]
  BY DEF Append1
<1>2. RecordTime(t) \in Nat /\ t <= RecordTime(t) /\ head.time <= RecordTime(t)
  BY DEF RecordTime, Latest, Types
<1>3. head.seq \in Nat /\ \A s \in Numbers : s <= head.seq /\ s \in Nat
  <2>1. \A s \in Numbers : s <= head.seq
    BY DEF Chain
  <2>2. head.seq \in 0 .. MaxRecords /\ Numbers \subseteq 1 .. MaxRecords
    BY DEF Types, Seqs
  <2>. QED
    BY <2>1, <2>2, AuditTrailAssumption
<1>4. PrevHash \in Int /\ (head.seq \in Numbers \/ ~mode.memory => PrevHash = head.seq)
  <2>1. CASE ~mode.memory
    BY <2>1, AuditTrailAssumption DEF PrevHash, Types
  <2>2. CASE mode.memory /\ Numbers = {}
    BY <2>2 DEF PrevHash
  <2>3. CASE mode.memory /\ Numbers # {}
    <3>1. Last(Numbers) \in Numbers /\ \A u \in Numbers : u <= Last(Numbers)
      BY <2>3, LastIsGreatest DEF Types
    <3>2. PrevHash = trail[Last(Numbers)].hash
      BY <2>3 DEF PrevHash
    <3>3. trail[Last(Numbers)].hash = Last(Numbers)
      BY <2>3, <3>1 DEF Chain
    <3>4. head.seq \in Numbers => Last(Numbers) = head.seq
      BY <1>3, <3>1
    <3>. QED
      BY <1>3, <2>3, <3>1, <3>2, <3>3, <3>4
  <2>. QED
    BY <2>1, <2>2, <2>3
<1>5. Numbers' = Numbers \cup {n} /\ n \notin Numbers
  BY <1>1, <1>3 DEF Numbers
<1>6. /\ r.time = RecordTime(t) /\ r.prev = PrevHash /\ r.hash = n /\ r.intact \in BOOLEAN /\ r.intact
      /\ IsRecord(r)
  <2>1. r.time = RecordTime(t) /\ r.prev = PrevHash /\ r.hash = n /\ r.intact \in BOOLEAN /\ r.intact
    OBVIOUS
  <2>2. n \in Int
    BY <1>3
  <2>3. r = [f \in {"time", "prev", "hash", "intact"} |-> r[f]]
    OBVIOUS
  <2>. HIDE DEF r
  <2>. QED
    BY <1>2, <1>4, <2>1, <2>2, <2>3 DEF IsRecord
<1>7. trail'[n] = r /\ \A s \in Numbers : trail'[s] = trail[s]
  BY <1>1, <1>5
<1>8. trail' = [s \in Numbers' |-> trail'[s]]
  BY <1>1, <1>5
<1>9. /\ DOMAIN head' = {"seq", "hash", "time"}
      /\ head'.seq = n /\ head'.hash = n /\ head'.time = r.time
  BY <1>1
<1>. HIDE DEF r
<1>. QED
  BY <1>1, <1>2, <1>4, <1>5, <1>6, <1>7, <1>8, <1>9

(* What stays of a table. *)
LEMMA KeptRecords ==
    ASSUME NEW S, S \subseteq Numbers, Keep(S)
    PROVE  /\ Numbers' = S /\ trail' = [s \in Numbers' |-> trail'[s]]
           /\ \A s \in S : trail'[s] = trail[s]
BY DEF Keep, Numbers

-----------------------------------------------------------------------------
(* Types are kept.                                                         *)

LEMMA TypesInit == Init => Types
<1>. SUFFICES ASSUME Init PROVE Types
  OBVIOUS
<1>1. Numbers = {} /\ trail = [s \in Numbers |-> trail[s]]
  BY DEF Init, Numbers
<1>2. /\ DOMAIN head = {"seq", "hash", "time"}
      /\ head.seq = 0 /\ head.hash = 0 /\ head.time = 0
  BY DEF Init
<1>3. DOMAIN job = Threads /\ \A t \in Threads : job[t] = NoJob
  BY DEF Init
<1>4. /\ mode \in Modes /\ clock \in Nat /\ point = NoPoint
      /\ pc \in [Threads -> Labels]
      /\ dropping = {} /\ damage = {} /\ torn \in BOOLEAN
  BY DEF Init, Labels
<1>5. head.seq \in 0 .. MaxRecords /\ head.hash = head.seq /\ head.time \in Nat
  BY <1>2, AuditTrailAssumption
<1>. QED
  BY <1>1, <1>2, <1>3, <1>4, <1>5, NoJobTypes DEF Types

(* The records of a table that loses some, or grows by one. *)
LEMMA TypesKeep ==
    ASSUME Types, NEW S, S \subseteq Numbers, Keep(S)
    PROVE  /\ trail' = [s \in Numbers' |-> trail'[s]] /\ Numbers' \subseteq Seqs
           /\ \A s \in Numbers' : IsRecord(trail'[s])
BY KeptRecords DEF Types

LEMMA TypesAppend ==
    ASSUME Types, Chain, NEW t \in Nat, Append1(t)
    PROVE  /\ trail' = [s \in Numbers' |-> trail'[s]] /\ Numbers' \subseteq Seqs
           /\ \A s \in Numbers' : IsRecord(trail'[s])
           /\ DOMAIN head' = {"seq", "hash", "time"}
           /\ head'.seq \in 0 .. MaxRecords /\ head'.hash = head'.seq /\ head'.time \in Nat
<1>1. head.seq + 1 \in 1 .. MaxRecords /\ MaxRecords \in Nat /\ head.seq \in Nat
  BY Appended, AuditTrailAssumption DEF Seqs, Types
<1>2. IsRecord(trail'[head.seq + 1])
  BY Appended
<1>3. \A s \in Numbers' : IsRecord(trail'[s])
  BY <1>2, Appended DEF Types
<1>4. head'.seq \in 0 .. MaxRecords /\ head'.hash = head'.seq
  BY <1>1, Appended
<1>. QED
  BY <1>3, <1>4, Appended DEF Types

LEMMA TakenAtNat == \A t \in TakenAt : t \in Nat
BY AuditTrailAssumption DEF TakenAt, Times

(* A verification that goes to l with j. *)
LEMMA TypesGoto ==
    ASSUME Types, NEW t \in Threads, NEW l \in Labels,
           NEW j, IsJob(j), Goto(t, l, j)
    PROVE  /\ pc' \in [Threads -> Labels]
           /\ DOMAIN job' = Threads /\ \A u \in Threads : IsJob(job'[u])
           /\ pc'[t] = l /\ job'[t] = j
           /\ \A u \in Threads : u # t => pc'[u] = pc[u] /\ job'[u] = job[u]
BY DEF Types, Goto

LEMMA TypesDisturb ==
    ASSUME Types, Disturb
    PROVE  /\ DOMAIN job' = Threads /\ \A t \in Threads : IsJob(job'[t])
           /\ \A t \in Threads : pc[t] # "idle" =>
                job'[t] = [job[t] EXCEPT !.disturbed = TRUE]
<1>1. DOMAIN job' = Threads /\ \A t \in Threads :
        job'[t] = IF pc[t] = "idle" THEN NoJob ELSE [job[t] EXCEPT !.disturbed = TRUE]
  BY DEF Disturb
<1>2. ASSUME NEW t \in Threads PROVE IsJob([job[t] EXCEPT !.disturbed = TRUE])
  <2>1. IsJob(job[t])
    BY DEF Types
  <2>. QED
    BY <2>1 DEF IsJob
<1>. QED
  BY <1>1, <1>2, NoJobTypes

(* What one batch makes of a verification's variables. *)
LEMMA TypesWalk ==
    ASSUME Types, NEW t \in Threads, Walk(t)
    PROVE  \E l \in {"walk", "judge"} : \E j : IsJob(j) /\ Goto(t, l, j)
<1>. DEFINE j == job[t]
            b == NextBatch(j)
            first == IF j.first = 0 /\ b # {} THEN First(b) ELSE j.first
            ok == ~\E s \in b : Broken(j, b, s)
            more == [j EXCEPT !.first = first, !.last = Last(b), !.next = Last(b) + 1,
                              !.prev = trail[Last(b)].hash]
            over == [j EXCEPT !.first = first, !.last = IF b = {} THEN @ ELSE Last(b),
                              !.ok = ok /\ ~(j.anchor # NoPoint /\ first = 0)]
<1>1. IsJob(j) /\ b \subseteq Numbers /\ b \subseteq Seqs /\ (Cardinality(b) = Batch => b # {})
  BY BatchIsNext DEF Types
<1>2. b # {} => First(b) \in Nat /\ Last(b) \in Numbers /\ Last(b) \in Nat
  <2>1. Seqs \subseteq Nat
    BY AuditTrailAssumption DEF Seqs
  <2>. QED
    BY <1>1, <2>1, FirstIsLeast, LastIsGreatest
<1>3. ok \in BOOLEAN
  OBVIOUS
<1>4. first \in Nat
  BY <1>1, <1>2 DEF IsJob
<1>5. \/ b # {} /\ Goto(t, "walk", more)
      \/ Goto(t, "judge", over)
  BY <1>1 DEF Walk
<1>6. ASSUME b # {} PROVE IsJob(more)
  <2>1. trail[Last(b)].hash \in Int
    BY <1>2, <1>6 DEF Types, IsRecord
  <2>. HIDE DEF b, first, ok
  <2>. QED
    BY <1>1, <1>2, <1>4, <1>6, <2>1 DEF IsJob
<1>7. IsJob(over)
  <2>. HIDE DEF b, first, ok
  <2>. QED
    BY <1>1, <1>2, <1>3, <1>4 DEF IsJob
<1>. QED
  BY <1>5, <1>6, <1>7

LEMMA TypesStep == Types /\ Chain /\ [Next]_vars => Types'
<1>. SUFFICES ASSUME Types, Chain, [Next]_vars PROVE Types'
  OBVIOUS
<1>0. /\ clock + 1 \in Nat /\ IsJob(NoJob)
      /\ \A t \in Threads : IsJob(job[t])
      /\ \A p, h, n, d : IsPoint(p) /\ n \in Nat /\ d \in BOOLEAN =>
           IsJob([NoJob EXCEPT !.anchor = p, !.next = n, !.hurt = h, !.disturbed = d])
      /\ \A h, d : d \in BOOLEAN => IsJob([NoJob EXCEPT !.hurt = h, !.disturbed = d])
  BY NoJobTypes DEF Types, IsJob, NoJob
<1>1. CASE Tick
  BY <1>0, <1>1 DEF Tick, Types, Numbers
<1>2. CASE RecordRequest
  <2>1. PICK t \in Nat : Append1(t)
    BY <1>2, TakenAtNat DEF RecordRequest
  <2>. QED
    BY <1>2, <2>1, TypesAppend DEF RecordRequest, Types
<1>3. CASE Restart
  BY <1>0, <1>3 DEF Restart, Types, Numbers, Labels
<1>4. CASE Damage
  <2>1. PICK s \in Numbers, how \in Hows :
          /\ damage' = damage \cup {<<s, how>>}
          /\ \/ trail' = [trail EXCEPT ![s].intact = FALSE]
             \/ trail' = [trail EXCEPT ![s].hash = -s]
             \/ Keep(Numbers \ {s})
    BY <1>4 DEF Damage, Hows
  <2>2. s \in Seqs /\ s \in Int /\ IsRecord(trail[s])
    BY AuditTrailAssumption DEF Types, Seqs
  <2>3. /\ trail' = [u \in Numbers' |-> trail'[u]] /\ Numbers' \subseteq Seqs
        /\ \A u \in Numbers' : IsRecord(trail'[u])
    <3>1. CASE Keep(Numbers \ {s})
      BY <3>1, TypesKeep
    <3>2. CASE trail' = [trail EXCEPT ![s].intact = FALSE]
      <4>1. IsRecord([trail[s] EXCEPT !.intact = FALSE])
        BY <2>2 DEF IsRecord
      <4>2. trail' = [trail EXCEPT ![s] = [trail[s] EXCEPT !.intact = FALSE]]
        BY <3>2
      <4>. QED
        BY <4>1, <4>2 DEF Types, Numbers
    <3>3. CASE trail' = [trail EXCEPT ![s].hash = -s]
      <4>1. IsRecord([trail[s] EXCEPT !.hash = -s])
        BY <2>2 DEF IsRecord
      <4>2. trail' = [trail EXCEPT ![s] = [trail[s] EXCEPT !.hash = -s]]
        BY <3>3
      <4>. QED
        BY <4>1, <4>2 DEF Types, Numbers
    <3>. QED
      BY <2>1, <3>1, <3>2, <3>3
  <2>4. damage' \subseteq Seqs \X Hows
    BY <2>1, <2>2 DEF Types
  <2>. QED
    BY <1>4, <2>3, <2>4 DEF Damage, Types
<1>5. CASE PurgeMemory
  <2>1. /\ Keep({s \in Numbers : trail[s].time >= Cutoff}) /\ Disturb
        /\ UNCHANGED <<mode, clock, head, point, pc, dropping, damage, torn>>
    BY <1>5 DEF PurgeMemory
  <2>. QED
    BY <2>1, TypesKeep, TypesDisturb DEF Types
<1>6. CASE Purge
  <2>1. \A s \in Numbers : MonthOf(s) \in Nat
    BY AuditTrailAssumption DEF MonthOf, Types, IsRecord
  <2>. QED
    BY <1>6, <2>1 DEF Purge, Types, Numbers
<1>7. CASE DropPartition
  <2>1. /\ \E m : Keep({s \in Numbers : MonthOf(s) # m})
        /\ dropping' \subseteq dropping /\ Disturb
        /\ UNCHANGED <<mode, clock, head, point, pc, damage, torn>>
    BY <1>7 DEF DropPartition
  <2>. QED
    BY <2>1, TypesKeep, TypesDisturb DEF Types
<1>8. CASE StartFullVerify
  <2>1. Daily \in Threads /\ IsJob([NoJob EXCEPT !.hurt = damage, !.disturbed = dropping # {}])
    BY <1>0 DEF Threads
  <2>. QED
    BY <1>8, <2>1, TypesGoto DEF StartFullVerify, Types, Numbers, Labels
<1>9. ASSUME NEW t \in Threads, VerifyIncremental(t) PROVE Types'
  <2>1. PICK cp \in Loaded :
          Goto(t, "walk", [NoJob EXCEPT !.anchor = cp, !.next = cp.seq, !.hurt = damage,
                                        !.disturbed = dropping # {}])
    BY <1>9 DEF VerifyIncremental
  <2>2. IsJob([NoJob EXCEPT !.anchor = cp, !.next = cp.seq, !.hurt = damage,
                            !.disturbed = dropping # {}])
    <3>1. IsPoint(cp)
      BY NoJobTypes DEF Loaded, Types
    <3>2. cp.seq \in Nat
      BY <3>1, AuditTrailAssumption DEF IsPoint
    <3>. QED
      BY <1>0, <3>1, <3>2
  <2>. QED
    BY <1>9, <2>1, <2>2, TypesGoto DEF VerifyIncremental, Types, Numbers, Labels
<1>10. ASSUME NEW t \in Threads, Walk(t) PROVE Types'
  <2>1. PICK l, j : l \in {"walk", "judge"} /\ IsJob(j) /\ Goto(t, l, j)
    BY <1>10, TypesWalk
  <2>. QED
    BY <1>10, <2>1, TypesGoto DEF Walk, Types, Numbers, Labels
<1>11. ASSUME NEW t \in Threads, Judge(t) PROVE Types'
  <2>1. PICK l, j : l \in {"walk", "save", "report"} /\ IsJob(j) /\ Goto(t, l, j)
    <3>1. IsJob([NoJob EXCEPT !.hurt = job[t].hurt, !.disturbed = job[t].disturbed])
      BY <1>0 DEF IsJob
    <3>. QED
      BY <1>0, <1>11, <3>1 DEF Judge
  <2>. QED
    BY <1>11, <2>1, TypesGoto DEF Judge, Types, Numbers, Labels
<1>12. ASSUME NEW t \in Threads, SaveCheckpoint(t) PROVE Types'
  <2>1. Goto(t, "report", job[t]) /\ IsJob(job[t])
    BY <1>0, <1>12 DEF SaveCheckpoint
  <2>2. IsPoint(point')
    <3>1. CASE point' = point
      BY <3>1 DEF Types
    <3>2. ASSUME NEW s \in LastWalked(job[t]), point' = [seq |-> s, hash |-> trail[s].hash]
          PROVE  IsPoint(point')
      <4>1. s \in 0 .. MaxRecords /\ trail[s].hash \in Int
        BY AuditTrailAssumption DEF LastWalked, Types, Seqs, IsRecord
      <4>. QED
        BY <3>2, <4>1 DEF IsPoint
    <3>. QED
      BY <1>12, <3>1, <3>2 DEF SaveCheckpoint
  <2>. QED
    BY <1>12, <2>1, <2>2, TypesGoto DEF SaveCheckpoint, Types, Numbers, Labels
<1>13. ASSUME NEW t \in Threads, Report(t) PROVE Types'
  <2>1. Goto(t, "idle", NoJob)
    BY <1>13 DEF Report, Return
  <2>2. Append1(clock) \/ UNCHANGED <<trail, head>>
    BY <1>13 DEF Report
  <2>3. CASE Append1(clock)
    <3>1. clock \in Nat
      BY DEF Types
    <3>. QED
      BY <1>0, <1>13, <2>1, <2>3, <3>1, TypesGoto, TypesAppend DEF Report, Types, Labels
  <2>4. CASE UNCHANGED <<trail, head>>
    <3>1. /\ pc' \in [Threads -> Labels]
          /\ DOMAIN job' = Threads /\ \A u \in Threads : IsJob(job'[u])
      BY <1>0, <2>1, TypesGoto DEF Labels
    <3>. QED
      BY <1>13, <2>4, <3>1 DEF Report, Types, Numbers
  <2>. QED
    BY <2>2, <2>3, <2>4
<1>14. CASE PurgeFails
  BY <1>14 DEF PurgeFails, Types, Numbers
<1>15. ASSUME NEW t \in Threads, WalkFails(t) PROVE Types'
  <2>1. PICK l, j : l \in {"interrupted", "idle"} /\ IsJob(j) /\ Goto(t, l, j)
    BY <1>0, <1>15 DEF WalkFails, Return
  <2>. QED
    BY <1>15, <2>1, TypesGoto DEF WalkFails, Types, Numbers, Labels
<1>16. CASE UNCHANGED vars
  BY <1>16 DEF vars, Types, Numbers
<1>. QED
  BY <1>1, <1>2, <1>3, <1>4, <1>5, <1>6, <1>7, <1>8, <1>9, <1>10, <1>11, <1>12, <1>13, <1>14,
     <1>15, <1>16 DEF Next

(* Only the verification in the background counts one that breaks off.     *)
LEMMA InterruptedStep == Types /\ Interrupted /\ [Next]_vars => Interrupted'
<1>. SUFFICES ASSUME Types, Interrupted, [Next]_vars PROVE Interrupted'
  OBVIOUS
<1>1. ASSUME NEW t \in Threads, NEW l, NEW j, Goto(t, l, j), l = "interrupted" => t = Daily
      PROVE  Interrupted'
  <2>1. \A u \in Threads : pc'[u] = IF u = t THEN l ELSE pc[u]
    BY <1>1 DEF Goto, Types
  <2>. QED
    BY <1>1, <2>1 DEF Interrupted
<1>2. ASSUME NEW t \in Threads,
             VerifyIncremental(t) \/ Walk(t) \/ WalkFails(t) \/ Judge(t) \/ SaveCheckpoint(t) \/ Report(t)
      PROVE  \E l, j : Goto(t, l, j) /\ (l = "interrupted" => t = Daily)
  <2>1. CASE VerifyIncremental(t)
    BY <2>1 DEF VerifyIncremental
  <2>2. CASE Walk(t)
    BY <2>2, TypesWalk
  <2>3. CASE WalkFails(t)
    BY <2>3 DEF WalkFails, Return
  <2>4. CASE Judge(t)
    BY <2>4 DEF Judge
  <2>5. CASE SaveCheckpoint(t)
    BY <2>5 DEF SaveCheckpoint
  <2>6. CASE Report(t)
    BY <2>6 DEF Report, Return
  <2>. QED
    BY <1>2, <2>1, <2>2, <2>3, <2>4, <2>5, <2>6
<1>3. CASE StartFullVerify
  BY <1>1, <1>3 DEF StartFullVerify, Threads
<1>4. CASE Restart
  BY <1>4 DEF Restart, Interrupted
<1>5. CASE UNCHANGED pc
  BY <1>5 DEF Interrupted
<1>. QED
  BY <1>1, <1>2, <1>3, <1>4, <1>5
  DEF Next, vars, Tick, RecordRequest, Damage, PurgeMemory, Purge, DropPartition, PurgeFails

-----------------------------------------------------------------------------
(* The chain of the records.                                               *)

LEMMA NumbersAre ==
    ASSUME Types
    PROVE  /\ head.seq \in Nat /\ MaxRecords \in Nat
           /\ \A s \in Numbers : s \in Nat /\ s > 0 /\ s <= MaxRecords
<1>1. head.seq \in 0 .. MaxRecords /\ Numbers \subseteq 1 .. MaxRecords
  BY DEF Types, Seqs
<1>. QED
  BY <1>1, AuditTrailAssumption

LEMMA ChainKeep ==
    ASSUME Types, Chain, UNCHANGED <<mode, head>>, NEW S, S \subseteq Numbers, Keep(S),
           damage' = damage \/ (~mode.memory /\ \E s \in Numbers \ S : damage' = damage \cup {<<s, "lost">>})
    PROVE  Chain'
<1>1. Numbers' = S /\ \A s \in S : trail'[s] = trail[s]
  BY KeptRecords
<1>2. CASE damage' = damage
  BY <1>1, <1>2 DEF Chain
<1>3. ASSUME ~mode.memory, NEW g \in Numbers \ S, damage' = damage \cup {<<g, "lost">>}
      PROVE  Chain'
  <2>1. \A s \in S : /\ <<s, "rewritten">> \in damage' <=> <<s, "rewritten">> \in damage
                     /\ <<s, "altered">> \in damage' <=> <<s, "altered">> \in damage
                     /\ <<s, "lost">> \in damage' <=> <<s, "lost">> \in damage
    BY <1>3
  <2>2. <<g, "lost">>[1] <= head.seq
    BY DEF Chain
  <2>3. \A d \in damage' : d[1] <= head.seq
    BY <1>3, <2>2 DEF Chain
  <2>. QED
    BY <1>1, <1>3, <2>1, <2>3 DEF Chain
<1>. QED
  BY <1>2, <1>3

LEMMA ChainAppend ==
    ASSUME Types, Chain, UNCHANGED <<mode, damage>>, NEW t \in Nat, Append1(t)
    PROVE  Chain'
<1>. DEFINE n == head.seq + 1
<1>1. /\ n \notin Numbers /\ Numbers' = Numbers \cup {n}
      /\ \A s \in Numbers : trail'[s] = trail[s]
      /\ head.seq \in Numbers \/ ~mode.memory => trail'[n].prev = head.seq
      /\ trail'[n].time = head'.time
      /\ trail'[n].hash = n /\ trail'[n].intact
      /\ head'.seq = n /\ head'.time \in Nat /\ head.time <= head'.time
  BY Appended
<1>0. /\ head.seq \in Nat /\ n \in Nat /\ head.seq < n
      /\ \A s \in Numbers : s \in Nat /\ s <= head.seq /\ s < n
  <2>1. head.seq \in Nat /\ \A s \in Numbers : s \in Nat
    BY NumbersAre
  <2>2. \A s \in Numbers : s <= head.seq
    BY DEF Chain
  <2>. QED
    BY <2>1, <2>2
<1>2. \A d \in damage : d[1] <= head.seq /\ d[1] \in Nat
  BY AuditTrailAssumption DEF Types, Seqs, Chain
<1>3. \A how : <<n, how>> \notin damage
  <2>. SUFFICES ASSUME NEW how, <<n, how>> \in damage PROVE FALSE
    OBVIOUS
  <2>1. <<n, how>>[1] <= head.seq
    BY <1>2
  <2>. QED
    BY <1>0, <2>1
<1>4. head.time \in Nat /\ \A s \in Numbers : trail[s].time \in Nat /\ trail[s].time <= head.time
  BY DEF Types, IsRecord, Chain
<1>5. /\ mode'.memory => damage' = {}
      /\ \A d \in damage' : d[1] <= head'.seq
  <2>1. \A d \in damage : d[1] <= n
    BY <1>0, <1>2
  <2>. QED
    BY <1>1, <2>1 DEF Chain
<1>6. ASSUME NEW s \in Numbers'
      PROVE  /\ s <= head'.seq /\ trail'[s].time <= head'.time
             /\ \A u \in Numbers' : s < u => trail'[s].time <= trail'[u].time
             /\ trail'[s].hash = IF <<s, "rewritten">> \in damage' THEN -s ELSE s
             /\ trail'[s].intact <=> <<s, "altered">> \notin damage'
             /\ <<s, "lost">> \notin damage'
             /\ s - 1 \in Numbers' \/ ~mode'.memory => trail'[s].prev = s - 1
  <2>1. CASE s = n
    <3>1. \A u \in Numbers' : ~(s < u)
      BY <1>0, <1>1, <2>1
    <3>2. s - 1 = head.seq /\ s - 1 # n /\ s <= n
      BY <1>0, <2>1
    <3>. HIDE DEF n
    <3>. QED
      BY <1>1, <1>3, <2>1, <3>1, <3>2
  <2>2. CASE s # n
    <3>1. s \in Numbers /\ trail'[s] = trail[s] /\ s <= head.seq /\ s - 1 # n /\ s <= n
      <4>1. s \in Numbers /\ trail'[s] = trail[s]
        BY <1>1, <2>2
      <4>. QED
        BY <1>0, <4>1
    <3>2. trail[s].time <= head'.time
      BY <1>1, <1>4, <3>1
    <3>3. ASSUME NEW u \in Numbers', s < u PROVE trail'[s].time <= trail'[u].time
      <4>1. CASE u = n
        BY <1>1, <3>1, <3>2, <4>1
      <4>2. CASE u # n
        BY <1>1, <3>1, <3>3, <4>2 DEF Chain
      <4>. QED
        BY <4>1, <4>2
    <3>4. s - 1 \in Numbers' => s - 1 \in Numbers
      BY <1>1, <3>1
    <3>. HIDE DEF n
    <3>. QED
      BY <1>1, <3>1, <3>2, <3>3, <3>4 DEF Chain
  <2>. QED
    BY <2>1, <2>2
<1>. QED
  BY <1>5, <1>6 DEF Chain

(* A damaged record shows it, and no other changes. *)
LEMMA ChainDamage ==
    ASSUME Types, Chain, Damage
    PROVE  /\ Chain' /\ Numbers' \subseteq Numbers /\ damage' # {} /\ damage \subseteq damage'
           /\ \A s \in Numbers' : trail'[s].time = trail[s].time
<1>1. PICK s \in Numbers, how \in Hows :
        /\ ~mode.memory /\ damage' = damage \cup {<<s, how>>}
        /\ \/ how = "altered" /\ trail' = [trail EXCEPT ![s].intact = FALSE]
           \/ how = "rewritten" /\ trail' = [trail EXCEPT ![s].hash = -s]
           \/ how = "lost" /\ Keep(Numbers \ {s})
  BY DEF Damage, Hows
<1>2. UNCHANGED <<mode, head>>
  BY DEF Damage
<1>3. CASE how = "lost" /\ Keep(Numbers \ {s})
  <2>1. Chain'
    BY <1>1, <1>2, <1>3, ChainKeep
  <2>2. Numbers' = Numbers \ {s} /\ \A u \in Numbers \ {s} : trail'[u] = trail[u]
    BY <1>3, KeptRecords
  <2>. QED
    BY <1>1, <2>1, <2>2
<1>4. CASE how # "lost"
  <2>1. IsRecord(trail[s])
    BY DEF Types
  <2>2. /\ Numbers' = Numbers
        /\ \A u \in Numbers : u # s => trail'[u] = trail[u]
        /\ trail'[s].time = trail[s].time /\ trail'[s].prev = trail[s].prev
        /\ trail'[s].hash = IF how = "rewritten" THEN -s ELSE trail[s].hash
        /\ trail'[s].intact <=> how # "altered" /\ trail[s].intact
    BY <1>1, <1>4, <2>1 DEF Numbers, IsRecord, Hows
  <2>3. \A u \in Numbers, h \in Hows :
          <<u, h>> \in damage' <=> <<u, h>> \in damage \/ (u = s /\ h = how)
    BY <1>1
  <2>4. \A d \in damage' : d[1] <= head'.seq
    <3>1. <<s, how>>[1] <= head.seq
      BY DEF Chain
    <3>. QED
      BY <1>1, <1>2, <3>1 DEF Chain
  <2>5. ASSUME NEW u \in Numbers
        PROVE  /\ trail'[u].time = trail[u].time /\ trail'[u].prev = trail[u].prev
               /\ trail'[u].hash = IF <<u, "rewritten">> \in damage' THEN -u ELSE u
               /\ trail'[u].intact <=> <<u, "altered">> \notin damage'
               /\ <<u, "lost">> \notin damage'
    BY <1>4, <2>2, <2>3 DEF Chain, Hows
  <2>6. Chain'
    BY <1>1, <1>2, <2>2, <2>4, <2>5 DEF Chain
  <2>. QED
    BY <1>1, <2>2, <2>5, <2>6
<1>. QED
  BY <1>1, <1>3, <1>4

LEMMA ChainStep == Types /\ Chain /\ [Next]_vars => Chain'
<1>. SUFFICES ASSUME Types, Chain, [Next]_vars PROVE Chain'
  OBVIOUS
<1>1. CASE RecordRequest
  BY <1>1, TakenAtNat, ChainAppend DEF RecordRequest
<1>2. CASE Damage
  BY <1>2, ChainDamage
<1>3. CASE PurgeMemory \/ DropPartition
  <2>1. \E S : S \subseteq Numbers /\ Keep(S)
    BY <1>3 DEF PurgeMemory, DropPartition
  <2>2. UNCHANGED <<mode, head, damage>>
    BY <1>3 DEF PurgeMemory, DropPartition
  <2>. QED
    BY <2>1, <2>2, ChainKeep
<1>4. ASSUME NEW t \in Threads, Report(t) PROVE Chain'
  <2>1. CASE Append1(clock)
    <3>1. clock \in Nat /\ UNCHANGED <<mode, damage>>
      BY <1>4 DEF Report, Types
    <3>. QED
      BY <2>1, <3>1, ChainAppend
  <2>2. CASE UNCHANGED <<trail, head>>
    BY <1>4, <2>2 DEF Report, Chain, Numbers
  <2>. QED
    BY <1>4, <2>1, <2>2 DEF Report
<1>5. CASE UNCHANGED <<mode, trail, head, damage>>
  BY <1>5 DEF Chain, Numbers
<1>. QED
  BY <1>1, <1>2, <1>3, <1>4, <1>5 DEF Next, vars, Tick, Restart, Purge, PurgeFails, StartFullVerify,
     VerifyIncremental, Walk, WalkFails, Judge, SaveCheckpoint

-----------------------------------------------------------------------------
(* Months and retention.                                                   *)

LEMMA MonthFacts ==
    /\ Month \in Nat /\ Month > 0 /\ Retention \in Nat
    /\ \A a \in Nat : a \div Month \in Nat /\ a < (a \div Month + 1) * Month
    /\ \A a, b \in Nat : a <= b => a \div Month <= b \div Month
    /\ \A a, b \in Nat : a <= b => (a + 1) * Month <= (b + 1) * Month
<1>1. Month \in Nat /\ Month > 0 /\ Retention \in Nat
  BY AuditTrailAssumption
<1>2. \A a \in Nat : a \div Month \in Nat /\ a < (a \div Month + 1) * Month
  BY <1>1
<1>3. \A a, b \in Nat : a <= b => (a + 1) * Month <= (b + 1) * Month
  BY <1>1
<1>4. \A a, b \in Nat : a <= b => a \div Month <= b \div Month
  BY <1>1
<1>. QED
  BY <1>1, <1>2, <1>3, <1>4

(* A record in a month that is over is older than the retention. *)
LEMMA OverIsOld ==
    ASSUME Types, NEW s \in Numbers, IsOver(MonthOf(s))
    PROVE  trail[s].time < Cutoff
<1>1. trail[s].time \in Nat /\ clock \in Nat
  BY DEF Types, IsRecord
<1>2. trail[s].time < (MonthOf(s) + 1) * Month /\ MonthOf(s) \in Nat
  BY <1>1, MonthFacts DEF MonthOf
<1>3. (MonthOf(s) + 1) * Month \in Int /\ Cutoff \in Int
  BY <1>1, <1>2, MonthFacts DEF Cutoff
<1>. QED
  BY <1>1, <1>2, <1>3 DEF IsOver

(* The months of what stays do not change, and what is appended is in the  *)
(* month of the last record or a later one.                                *)
LEMMA MonthsAre ==
    ASSUME Types
    PROVE  /\ head.time \in Nat /\ head.time \div Month \in Nat /\ head.seq \in Nat
           /\ dropping \subseteq Nat
           /\ \A s \in Numbers : s \in Nat /\ trail[s].time \in Nat /\ MonthOf(s) \in Nat
<1>1. head.time \in Nat /\ dropping \subseteq Nat /\ \A s \in Numbers : trail[s].time \in Nat
  BY DEF Types, IsRecord
<1>. QED
  BY <1>1, NumbersAre, MonthFacts DEF MonthOf

LEMMA MonthsAppend ==
    ASSUME Types, Chain, Months, UNCHANGED <<mode, clock, dropping, damage, torn>>,
           NEW t \in Nat, Append1(t)
    PROVE  Months'
<1>0. PICK n : n = head.seq + 1
  OBVIOUS
<1>1. /\ n \notin Numbers /\ Numbers' = Numbers \cup {n}
      /\ \A s \in Numbers : trail'[s] = trail[s]
      /\ trail'[n].time = head'.time /\ head'.seq = n
      /\ head'.time \in Nat /\ head.time <= head'.time
  BY <1>0, Appended
<1>2. head.time \div Month <= head'.time \div Month /\ head'.time \div Month \in Nat
  BY <1>1, MonthsAre, MonthFacts
<1>3. /\ \A s \in Numbers : MonthOf(s)' = MonthOf(s)
      /\ MonthOf(n)' = head'.time \div Month
  BY <1>1 DEF MonthOf
<1>4. \A m \in dropping : IsOver(m)' /\ m <= head'.time \div Month /\ m <= head.time \div Month
  BY <1>2, MonthsAre DEF Months, IsOver, Cutoff
<1>5. ASSUME NEW s \in Numbers', MonthOf(s)' \notin dropping', NEW m \in dropping'
      PROVE  m < MonthOf(s)'
  <2>1. CASE s \in Numbers
    BY <1>3, <1>5, <2>1 DEF Months
  <2>2. CASE s = n
    BY <1>2, <1>3, <1>4, <1>5, <2>2, MonthsAre
  <2>. QED
    BY <1>1, <2>1, <2>2
<1>6. ASSUME damage' = {}, ~torn', NEW s \in Numbers', MonthOf(s)' \notin dropping'
      PROVE  From(s)'
  <2>1. head.seq \in Nat /\ n = head.seq + 1 /\ \A u \in Numbers : u \in Nat
    BY <1>0, MonthsAre
  <2>2. CASE s \in Numbers
    <3>1. From(s)
      BY <1>3, <1>6, <2>2 DEF Months
    <3>. QED
      BY <1>1, <2>1, <2>2, <3>1 DEF From
  <2>3. CASE s = n
    BY <1>1, <2>1, <2>3 DEF From
  <2>. QED
    BY <1>1, <2>2, <2>3
<1>. QED
  BY <1>4, <1>5, <1>6 DEF Months

(* Only the oldest of the records go. *)
LEMMA MonthsDrop ==
    ASSUME Types, Chain, Months, PurgeMemory \/ DropPartition
    PROVE  Months'
<1>1. PICK S \in SUBSET Numbers :
        /\ Keep(S) /\ dropping' \subseteq dropping /\ UNCHANGED <<mode, clock, head, damage, torn>>
        /\ \A s \in S : MonthOf(s) \notin dropping' =>
             /\ MonthOf(s) \notin dropping
             /\ \A u \in Numbers : s < u => u \in S
  <2>1. CASE PurgeMemory
    <3>. DEFINE S == {s \in Numbers : trail[s].time >= Cutoff}
    <3>1. Keep(S) /\ dropping = {} /\ UNCHANGED <<mode, clock, head, damage, torn, dropping>>
      BY <2>1 DEF PurgeMemory, Months
    <3>2. Cutoff \in Int
      BY MonthFacts DEF Cutoff, Types
    <3>3. ASSUME NEW s \in S, NEW u \in Numbers, s < u PROVE u \in S
      <4>1. trail[s].time <= trail[u].time
        BY <3>3 DEF Chain
      <4>. QED
        BY <3>2, <3>3, <4>1, MonthsAre
    <3>. QED
      BY <3>1, <3>3
  <2>2. CASE DropPartition
    <3>1. PICK m \in dropping :
            /\ dropping' = dropping \ {m} /\ Keep({s \in Numbers : MonthOf(s) # m})
            /\ UNCHANGED <<mode, clock, head, damage, torn>>
      BY <2>2 DEF DropPartition
    <3>. DEFINE S == {s \in Numbers : MonthOf(s) # m}
    <3>2. ASSUME NEW s \in S, MonthOf(s) \notin dropping
          PROVE  \A u \in Numbers : s < u => u \in S
      <4>1. m < MonthOf(s)
        BY <3>1, <3>2 DEF Months
      <4>2. ASSUME NEW u \in Numbers, s < u PROVE MonthOf(s) <= MonthOf(u)
        <5>1. trail[s].time <= trail[u].time
          BY <3>2, <4>2 DEF Chain
        <5>. QED
          BY <3>2, <4>2, <5>1, MonthsAre, MonthFacts DEF MonthOf
      <4>3. m \in Nat /\ MonthOf(s) \in Nat /\ \A u \in Numbers : MonthOf(u) \in Nat
        BY <3>1, <3>2, MonthsAre
      <4>. QED
        BY <4>1, <4>2, <4>3
    <3>. QED
      BY <3>1, <3>2
  <2>. QED
    BY <2>1, <2>2
<1>2. Numbers' = S /\ \A s \in S : trail'[s] = trail[s] /\ MonthOf(s)' = MonthOf(s)
  <2>1. Numbers' = S /\ \A s \in S : trail'[s] = trail[s]
    BY <1>1, KeptRecords
  <2>. QED
    BY <2>1 DEF MonthOf
<1>3. \A m \in dropping' : IsOver(m)' /\ m <= head'.time \div Month
  BY <1>1 DEF Months, IsOver, Cutoff
<1>4. ASSUME NEW s \in S, MonthOf(s) \notin dropping', damage = {}, ~torn PROVE From(s)'
  <2>1. From(s) /\ MonthOf(s) \notin dropping
    BY <1>1, <1>4 DEF Months
  <2>2. ASSUME NEW k \in s .. head.seq PROVE k \in S
    <3>1. k \in Numbers /\ (k = s \/ s < k)
      BY <1>4, <2>1, <2>2, MonthsAre DEF From
    <3>. QED
      BY <1>1, <1>4, <3>1
  <2>. QED
    BY <1>1, <1>2, <2>2 DEF From
<1>. QED
  BY <1>1, <1>2, <1>3, <1>4 DEF Months

LEMMA MonthsPurge ==
    ASSUME Types, Chain, Months, Purge
    PROVE  Months'
<1>1. /\ dropping = {} /\ dropping' = {m \in {MonthOf(s) : s \in Numbers} : IsOver(m)}
      /\ ~mode.memory /\ UNCHANGED <<mode, clock, trail, head, damage, torn>>
  BY DEF Purge
<1>2. Numbers' = Numbers /\ \A s : MonthOf(s)' = MonthOf(s)
  BY <1>1 DEF Numbers, MonthOf
<1>3. ASSUME NEW s \in Numbers PROVE MonthOf(s) <= head.time \div Month
  <2>1. trail[s].time <= head.time
    BY DEF Chain
  <2>. QED
    BY <2>1, MonthsAre, MonthFacts DEF MonthOf
<1>4. \A m \in dropping' : IsOver(m)' /\ m <= head'.time \div Month
  BY <1>1, <1>3 DEF IsOver, Cutoff
<1>5. ASSUME NEW s \in Numbers, MonthOf(s) \notin dropping', NEW m \in dropping'
      PROVE  m < MonthOf(s)
  <2>1. ~IsOver(MonthOf(s)) /\ IsOver(m) /\ m \in Nat /\ MonthOf(s) \in Nat
    BY <1>1, <1>5, MonthsAre
  <2>2. (m + 1) * Month \in Int /\ (MonthOf(s) + 1) * Month \in Int /\ Cutoff \in Int
    BY <2>1, MonthFacts DEF Cutoff, Types
  <2>3. MonthOf(s) <= m => (MonthOf(s) + 1) * Month <= (m + 1) * Month
    BY <2>1, MonthFacts
  <2>. QED
    BY <2>1, <2>2, <2>3 DEF IsOver
<1>6. damage = {} /\ ~torn => \A s \in Numbers : From(s)'
  BY <1>1, <1>2 DEF Months, From
<1>. QED
  BY <1>1, <1>2, <1>4, <1>5, <1>6 DEF Months

LEMMA MonthsStep == Types /\ Chain /\ Months /\ [Next]_vars => Months'
<1>. SUFFICES ASSUME Types, Chain, Months, [Next]_vars PROVE Months'
  OBVIOUS
<1>1. CASE RecordRequest
  BY <1>1, TakenAtNat, MonthsAppend DEF RecordRequest
<1>2. ASSUME NEW t \in Threads, Report(t) PROVE Months'
  <2>1. clock \in Nat /\ UNCHANGED <<mode, clock, dropping, damage, torn>>
    BY <1>2 DEF Report, Types
  <2>2. CASE Append1(clock)
    BY <2>1, <2>2, MonthsAppend
  <2>3. CASE UNCHANGED <<trail, head>>
    BY <2>1, <2>3 DEF Months, Numbers, MonthOf, From, IsOver, Cutoff
  <2>. QED
    BY <1>2, <2>2, <2>3 DEF Report
<1>3. CASE Damage
  <2>1. /\ Numbers' \subseteq Numbers /\ damage' # {}
        /\ \A s \in Numbers' : MonthOf(s)' = MonthOf(s)
    BY <1>3, ChainDamage DEF MonthOf
  <2>2. UNCHANGED <<mode, clock, head, dropping>>
    BY <1>3 DEF Damage
  <2>. QED
    BY <2>1, <2>2 DEF Months, IsOver, Cutoff
<1>4. CASE Restart \/ PurgeFails
  <2>1. /\ dropping' = {} /\ UNCHANGED <<mode, clock, trail, head, damage>>
        /\ ~torn' => ~torn /\ dropping = {}
    BY <1>4 DEF Restart, PurgeFails, Types
  <2>2. Numbers' = Numbers /\ \A s : From(s)' <=> From(s)
    BY <2>1 DEF Numbers, From
  <2>. QED
    BY <2>1, <2>2 DEF Months
<1>5. CASE Tick
  <2>1. clock' = clock + 1 /\ UNCHANGED <<mode, trail, head, dropping, damage, torn>>
    BY <1>5 DEF Tick
  <2>2. Numbers' = Numbers /\ \A s : (From(s)' <=> From(s)) /\ MonthOf(s)' = MonthOf(s)
    BY <2>1 DEF Numbers, From, MonthOf
  <2>3. ASSUME NEW m \in dropping PROVE IsOver(m)'
    <3>1. m \in Nat /\ IsOver(m) /\ clock \in Nat
      BY DEF Months, Types
    <3>2. (m + 1) * Month \in Int
      BY <3>1, MonthFacts
    <3>. QED
      BY <2>1, <3>1, <3>2, MonthFacts DEF IsOver, Cutoff
  <2>. QED
    BY <2>1, <2>2, <2>3 DEF Months
<1>6. CASE UNCHANGED <<mode, clock, trail, head, dropping, damage, torn>>
  BY <1>6 DEF Months, Numbers, MonthOf, From, IsOver, Cutoff
<1>. QED
  BY <1>1, <1>2, <1>3, <1>4, <1>5, <1>6, MonthsDrop, MonthsPurge
  DEF Next, vars, StartFullVerify, VerifyIncremental, Walk, WalkFails, Judge, SaveCheckpoint

(* What was damaged before is not damaged again in the same way. *)
LEMMA DamagedOnce ==
    ASSUME Types, Chain, Damage, damage' = damage, NEW s \in Numbers
    PROVE  s \in Numbers' /\ trail'[s] = trail[s]
<1>1. PICK d \in Numbers, how \in Hows :
        /\ damage' = damage \cup {<<d, how>>}
        /\ \/ how = "altered" /\ trail' = [trail EXCEPT ![d].intact = FALSE]
           \/ how = "rewritten" /\ trail' = [trail EXCEPT ![d].hash = -d]
           \/ how = "lost" /\ Keep(Numbers \ {d})
  BY DEF Damage, Hows
<1>2. <<d, how>> \in damage /\ IsRecord(trail[d])
  BY <1>1 DEF Types
<1>3. how # "lost"
  BY <1>2 DEF Chain
<1>4. CASE how = "altered"
  <2>1. ~trail[d].intact
    BY <1>2, <1>4 DEF Chain
  <2>2. trail[d].intact = FALSE
    BY <1>2, <2>1 DEF IsRecord
  <2>3. trail' = [trail EXCEPT ![d] = [trail[d] EXCEPT !.intact = FALSE]]
    BY <1>1, <1>4
  <2>4. [trail[d] EXCEPT !.intact = FALSE] = trail[d]
    BY <1>2, <2>2 DEF IsRecord
  <2>. QED
    BY <2>3, <2>4 DEF Numbers
<1>5. CASE how = "rewritten"
  <2>1. trail[d].hash = -d
    BY <1>2, <1>5 DEF Chain
  <2>2. trail' = [trail EXCEPT ![d] = [trail[d] EXCEPT !.hash = -d]]
    BY <1>1, <1>5
  <2>3. [trail[d] EXCEPT !.hash = -d] = trail[d]
    BY <1>2, <2>1 DEF IsRecord
  <2>. QED
    BY <2>2, <2>3 DEF Numbers
<1>. QED
  BY <1>1, <1>3, <1>4, <1>5 DEF Hows

LEMMA Old ==
    ASSUME Types, Chain, Months, [Next]_vars, damage' = damage,
           NEW s \in Numbers, trail[s].time >= Cutoff
    PROVE  s \in Numbers' /\ trail'[s] = trail[s]
<1>1. CASE RecordRequest
  BY <1>1, TakenAtNat, Appended DEF RecordRequest
<1>2. ASSUME NEW t \in Threads, Report(t) PROVE s \in Numbers' /\ trail'[s] = trail[s]
  <2>1. clock \in Nat /\ (Append1(clock) \/ UNCHANGED trail)
    BY <1>2 DEF Report, Types
  <2>. QED
    BY <2>1, Appended DEF Numbers
<1>3. CASE PurgeMemory
  <2>1. Keep({u \in Numbers : trail[u].time >= Cutoff})
    BY <1>3 DEF PurgeMemory
  <2>. QED
    BY <2>1, KeptRecords
<1>4. CASE DropPartition
  <2>1. PICK m \in dropping : Keep({u \in Numbers : MonthOf(u) # m})
    BY <1>4 DEF DropPartition
  <2>2. trail[s].time \in Nat /\ Cutoff \in Int
    BY MonthsAre, MonthFacts DEF Types, Cutoff
  <2>3. MonthOf(s) # m
    BY <2>1, <2>2, OverIsOld DEF Months
  <2>. QED
    BY <2>1, <2>3, KeptRecords
<1>5. CASE Damage
  BY <1>5, DamagedOnce
<1>6. CASE UNCHANGED trail
  BY <1>6 DEF Numbers
<1>. QED
  BY <1>1, <1>2, <1>3, <1>4, <1>5, <1>6
  DEF Next, vars, Tick, Restart, Purge, PurgeFails, StartFullVerify, VerifyIncremental, Walk,
      WalkFails, Judge, SaveCheckpoint

LEMMA ChainInit == Init => Types /\ Chain /\ Months
<1>. SUFFICES ASSUME Init PROVE Types /\ Chain /\ Months
  OBVIOUS
<1>1. Numbers = {} /\ damage = {} /\ dropping = {}
  BY DEF Init, Numbers
<1>. QED
  BY <1>1, TypesInit DEF Chain, Months

LEMMA ChainCorrect == Spec => [](Types /\ Chain /\ Months)
<1>1. Types /\ Chain /\ Months /\ [Next]_vars => (Types /\ Chain /\ Months)'
  BY TypesStep, ChainStep, MonthsStep
<1>. QED
  BY <1>1, ChainInit, PTL DEF Spec

(* Retention never deletes a record younger than it, whatever clocks and   *)
(* months there are and in whatever order the partitions are dropped: a    *)
(* month listed was over, and no record is appended to it later            *)
(* (dropPartitionsBefore).                                                 *)
THEOREM OnlyOldCorrect == Spec => OnlyOldIsPurged
<1>1. Types /\ Chain /\ Months /\ [Next]_vars
      => [damage' = damage =>
            \A s \in Numbers :
              trail[s].time >= Cutoff => s \in Numbers' /\ trail'[s] = trail[s]]_vars
  BY Old
<1>. QED
  BY <1>1, ChainCorrect, PTL DEF Spec, OnlyOldIsPurged

-----------------------------------------------------------------------------
(* Verifications.                                                          *)

(* What every step keeps: records are only appended at the end, and damage *)
(* and vouched records stay.                                               *)
Grows ==
    /\ head.seq <= head'.seq /\ damage \subseteq damage' /\ vouched \subseteq vouched'
    /\ \A s \in Numbers' : s \in Numbers \/ s > head.seq
    /\ torn => torn'

(* What a step keeps that drops no records.                                *)
Steady ==
    damage' = {} /\ ~torn' =>
      /\ Numbers \subseteq Numbers'
      /\ (\A s \in Numbers : From(s)) => \A s \in Numbers' : From(s)'

LEMMA AppendGrows ==
    ASSUME Types, Chain, UNCHANGED <<damage, vouched, torn>>, NEW t \in Nat, Append1(t)
    PROVE  Grows /\ Steady
<1>1. PICK n : n = head.seq + 1
  OBVIOUS
<1>2. /\ n \notin Numbers /\ Numbers' = Numbers \cup {n} /\ head'.seq = n
      /\ head.seq \in Nat /\ \A s \in Numbers : s \in Nat
  BY <1>1, Appended, NumbersAre
<1>3. Grows
  BY <1>1, <1>2 DEF Grows
<1>4. ASSUME \A s \in Numbers : From(s), NEW s \in Numbers' PROVE From(s)'
  BY <1>1, <1>2, <1>4 DEF From
<1>. QED
  BY <1>2, <1>3, <1>4 DEF Steady

LEMMA Idles ==
    ASSUME UNCHANGED <<trail, head, damage, torn>>, vouched \subseteq vouched', Types
    PROVE  Grows /\ Steady
<1>1. Numbers' = Numbers /\ \A s : From(s)' <=> From(s)
  BY DEF Numbers, From
<1>2. head.seq <= head'.seq
  BY NumbersAre
<1>. QED
  BY <1>1, <1>2 DEF Grows, Steady

LEMMA DamageGrows ==
    ASSUME Types, Chain, Damage
    PROVE  Grows /\ Steady
<1>1. Numbers' \subseteq Numbers /\ damage' # {} /\ damage \subseteq damage'
  BY ChainDamage
<1>2. UNCHANGED <<head, torn, vouched>>
  BY DEF Damage
<1>. QED
  BY <1>1, <1>2, NumbersAre DEF Grows, Steady

LEMMA NumbersThen ==
    ASSUME Types'
    PROVE  \A s \in Numbers' : s \in Nat /\ s > 0
<1>1. Numbers' \subseteq 1 .. MaxRecords
  BY DEF Types, Seqs
<1>. QED
  BY <1>1, AuditTrailAssumption

LEMMA SealedKept ==
    ASSUME Types, Types', Grows, NEW p, Sealed(p), IsPoint(p)
    PROVE  Sealed(p)'
<1>1. /\ p.seq \in Nat /\ head.seq \in Nat /\ head'.seq \in Nat
      /\ p.seq <= head.seq /\ head.seq <= head'.seq
  BY AuditTrailAssumption DEF Types, IsPoint, Sealed, Grows
<1>2. ASSUME NEW s \in Numbers', s <= p.seq PROVE s \in vouched'
  <2>1. s \in Nat
    BY NumbersThen
  <2>2. s \in Numbers
    BY <1>1, <1>2, <2>1 DEF Grows
  <2>. QED
    BY <1>2, <2>2 DEF Grows, Sealed
<1>3. damage' = {} => damage = {}
  BY DEF Grows
<1>. QED
  BY <1>1, <1>2, <1>3 DEF Sealed

(* Damage that does not show among the records read does not show later. *)
LEMMA ShowsNoMore ==
    ASSUME Types, Types', Grows, NEW d \in damage, NEW n \in Nat, n <= head.seq, Shows(d, n)'
    PROVE  Shows(d, n)
<1>1. d[1] \in Nat /\ d[2] \in Hows
  BY AuditTrailAssumption DEF Types, Seqs
<1>2. \A s \in Numbers' : s <= n => s \in Numbers
  BY NumbersAre, NumbersThen DEF Grows
<1>3. CASE d[2] = "altered"
  BY <1>1, <1>2, <1>3 DEF Shows
<1>4. CASE d[2] = "rewritten"
  <2>1. d[1] + 1 \in Numbers' /\ d[1] + 1 <= n /\ d[1] \in Numbers' /\ d[1] <= n
    BY <1>1, <1>4 DEF Shows
  <2>. QED
    BY <1>2, <1>4, <2>1 DEF Shows
<1>5. CASE d[2] = "lost"
  <2>1. d[1] + 1 \in Numbers' /\ d[1] + 1 <= n /\ d[1] - 1 \in Numbers' /\ d[1] - 1 <= n
    BY <1>1, <1>5 DEF Shows
  <2>. QED
    BY <1>2, <1>5, <2>1 DEF Shows
<1>. QED
  BY <1>1, <1>3, <1>4, <1>5 DEF Hows

LEMMA TypesGotoThen ==
    ASSUME Types, Types', NEW t \in Threads, NEW l, NEW j, Goto(t, l, j)
    PROVE  IsJob(j)
BY DEF Types, Goto

(* What a verification knows stays so while others go on. *)
LEMMA JobKept ==
    ASSUME Types, Types', Chain, Grows, NEW l, NEW j, IsJob(j), Good(l, j), NEW k,
           k.anchor = j.anchor, k.next = j.next, k.prev = j.prev, k.first = j.first,
           k.last = j.last, k.ok = j.ok, k.hurt = j.hurt,
           ~k.disturbed => ~j.disturbed /\ Steady
    PROVE  Good(l, k)'
<1>1. /\ j.last \in Nat /\ j.first \in Nat /\ j.next \in Nat /\ IsPoint(j.anchor)
      /\ j.anchor.seq \in Nat
  BY AuditTrailAssumption DEF IsJob, IsPoint
<1>2. head.seq \in Nat /\ head'.seq \in Nat /\ j.last <= head.seq /\ head.seq <= head'.seq
  BY AuditTrailAssumption DEF Types, Good, Progress, Grows
<1>3. damage' = {} => damage = {}
  BY DEF Grows
<1>4. \A s \in Numbers' : s \in Nat /\ (s \in Numbers \/ s > j.last)
  BY <1>1, <1>2, NumbersThen DEF Grows
<1>5. Progress(l, k)'
  <2>1. Sealed(j.anchor)'
    BY <1>1, SealedKept DEF Good, Progress
  <2>2. k.hurt \subseteq damage' /\ Sealed(k.anchor)'
    BY <2>1 DEF Good, Progress, Grows
  <2>. QED
    BY <1>1, <1>2, <1>3, <2>2 DEF Good, Progress
<1>6. k.ok => Covered(l, k)'
  BY <1>1, <1>4 DEF Good, Covered, Grows
<1>7. Clean(k)'
  <2>. SUFFICES ASSUME k.ok, NEW d \in k.hurt, d[1] > k.anchor.seq, Shows(d, k.last)' PROVE FALSE
    BY DEF Clean
  <2>1. d \in damage
    BY DEF Good, Progress
  <2>2. Shows(d, j.last)
    BY <1>1, <1>2, <2>1, ShowsNoMore
  <2>. QED
    BY <2>2 DEF Good, Clean
<1>8. Undisturbed(l, k)'
  <2>. SUFFICES ASSUME damage' = {}, ~torn', ~k.disturbed
                PROVE  /\ \A s \in Numbers' : From(s)'
                       /\ l = "walk" /\ k.first > 0 => k.last \in Numbers'
                       /\ ~k.ok /\ k.first > 0 =>
                            /\ l = "judge" /\ k.anchor.seq > 0 /\ k.anchor.seq < k.first
                            /\ \A s \in Numbers' : s >= k.anchor.seq => s >= k.first
    BY DEF Undisturbed
  <2>1. damage = {} /\ ~torn /\ ~j.disturbed
    BY <1>3 DEF Grows
  <2>2. /\ \A s \in Numbers : From(s)
        /\ l = "walk" /\ j.first > 0 => j.last \in Numbers
        /\ ~j.ok /\ j.first > 0 =>
             /\ l = "judge" /\ j.anchor.seq > 0 /\ j.anchor.seq < j.first
             /\ \A s \in Numbers : s >= j.anchor.seq => s >= j.first
    BY <2>1 DEF Good, Undisturbed
  <2>3. Numbers \subseteq Numbers' /\ \A s \in Numbers' : From(s)'
    BY <2>2 DEF Steady
  <2>4. j.first <= j.last
    BY DEF Good, Progress
  <2>5. ~j.ok /\ j.first > 0 => \A s \in Numbers' : s >= j.anchor.seq => s >= j.first
    BY <1>1, <1>4, <2>2, <2>4
  <2>. QED
    BY <2>2, <2>3, <2>5
<1>. QED
  BY <1>5, <1>6, <1>7, <1>8 DEF Good

(* The others, when one verification goes on. *)
LEMMA JobsGoto ==
    ASSUME Types, Types', Chain, Jobs, Grows, Steady, NEW t \in Threads,
           NEW l \in Labels, NEW j, Goto(t, l, j),
           l \notin {"idle", "interrupted"} => Good(l, j)'
    PROVE  Jobs'
<1>1. pc'[t] = l /\ job'[t] = j /\ \A u \in Threads : u # t => pc'[u] = pc[u] /\ job'[u] = job[u]
  BY DEF Goto, Types
<1>2. ASSUME NEW u \in Threads, NEW m \in {"walk", "judge", "save", "report"}, NEW k,
             pc'[u] = m, job'[u] = k
      PROVE  Good(m, k)'
  <2>1. CASE u = t
    <3>1. m = l /\ k = j /\ l \notin {"idle", "interrupted"}
      BY <1>1, <1>2, <2>1
    <3>. QED
      BY <3>1
  <2>2. CASE u # t
    <3>1. pc[u] = m /\ job[u] = k
      BY <1>1, <1>2, <2>2
    <3>2. Good(m, k) /\ IsJob(k)
      BY <3>1 DEF Jobs, Types
    <3>. QED
      BY <3>2, JobKept
  <2>. QED
    BY <2>1, <2>2
<1>. QED
  BY <1>2 DEF Jobs

(* The others, when retention drops records. *)
LEMMA JobsDisturb ==
    ASSUME Types, Types', Chain, Jobs, Grows, Disturb, pc' = pc
    PROVE  Jobs'
<1>1. ASSUME NEW u \in Threads, NEW m \in {"walk", "judge", "save", "report"}, NEW k,
             pc'[u] = m, job'[u] = k
      PROVE  Good(m, k)'
  <2>1. PICK j : j = job[u]
    OBVIOUS
  <2>2. k = [j EXCEPT !.disturbed = TRUE] /\ Good(m, j) /\ IsJob(j)
    BY <1>1, <2>1, TypesDisturb DEF Jobs, Types
  <2>3. /\ k.anchor = j.anchor /\ k.next = j.next /\ k.prev = j.prev /\ k.first = j.first
        /\ k.last = j.last /\ k.ok = j.ok /\ k.hurt = j.hurt /\ k.disturbed
    BY <2>2 DEF IsJob
  <2>. QED
    BY <2>2, <2>3, JobKept
<1>. QED
  BY <1>1 DEF Jobs

(* The others, when records are appended or damaged. *)
LEMMA JobsStay ==
    ASSUME Types, Types', Chain, Jobs, Grows, Steady, UNCHANGED <<pc, job>>
    PROVE  Jobs'
<1>1. ASSUME NEW u \in Threads, NEW m \in {"walk", "judge", "save", "report"}, NEW k,
             pc'[u] = m, job'[u] = k
      PROVE  Good(m, k)'
  <2>1. Good(m, k) /\ IsJob(k)
    BY <1>1 DEF Jobs, Types
  <2>. QED
    BY <2>1, JobKept
<1>. QED
  BY <1>1 DEF Jobs

LEMMA KeepGrows ==
    ASSUME Types, NEW S, S \subseteq Numbers, Keep(S), UNCHANGED <<head, damage, vouched, torn>>
    PROVE  Grows
BY NumbersAre, KeptRecords DEF Grows

(* The checkpoint before the first record. *)
LEMMA SealedNothing == Types => Sealed(NoPoint)
<1>. SUFFICES ASSUME Types PROVE Sealed(NoPoint)
  OBVIOUS
<1>1. NoPoint.seq = 0 /\ NoPoint.hash = 0
  BY DEF NoPoint
<1>. QED
  BY <1>1, NumbersAre DEF Sealed

LEMMA NothingIsNoPoint ==
    ASSUME NEW p, IsPoint(p), p.seq = 0, p.hash = 0
    PROVE  p = NoPoint
<1>1. p["seq"] = 0 /\ p["hash"] = 0
  OBVIOUS
<1>2. p = [f \in {"seq", "hash"} |-> 0]
  BY <1>1 DEF IsPoint
<1>. QED
  BY <1>2 DEF NoPoint

(* A verification knows nothing when it starts. *)
LEMMA Started ==
    ASSUME Types, NEW j, IsJob(j), Sealed(j.anchor), j.next = j.anchor.seq, j.prev = Unknown,
           j.first = 0, j.last = 0, j.ok, j.hurt \subseteq damage,
           damage = {} /\ ~torn /\ ~j.disturbed => \A s \in Numbers : From(s)
    PROVE  Good("walk", j)
<1>1. \A s \in Numbers : s \in Nat /\ s > 0
  BY NumbersAre
<1>2. Progress("walk", j)
  BY NumbersAre DEF Progress
<1>3. Covered("walk", j)
  BY <1>1 DEF Covered
<1>4. Clean(j)
  <2>. SUFFICES ASSUME NEW d \in j.hurt, Shows(d, 0) PROVE FALSE
    BY DEF Clean
  <2>1. d[1] \in Nat /\ d[2] \in Hows
    BY AuditTrailAssumption DEF Types, Seqs
  <2>2. PICK s : s = d[1]
    OBVIOUS
  <2>3. CASE d[2] = "altered"
    <3>1. s \in Numbers /\ s <= 0
      BY <2>2, <2>3 DEF Shows
    <3>. QED
      BY <1>1, <3>1
  <2>4. CASE d[2] \in {"rewritten", "lost"}
    <3>1. s + 1 \in Numbers /\ s + 1 <= 0
      BY <2>2, <2>4 DEF Shows
    <3>. QED
      BY <1>1, <3>1
  <2>. QED
    BY <2>1, <2>3, <2>4 DEF Hows
<1>5. Undisturbed("walk", j)
  BY DEF Undisturbed
<1>. QED
  BY <1>2, <1>3, <1>4, <1>5 DEF Good

(* No purge under way has left a gap yet. *)
LEMMA NoGap ==
    ASSUME Months, damage = {}, ~torn, dropping = {}
    PROVE  \A s \in Numbers : From(s)
BY DEF Months

LEMMA GoodIncremental ==
    ASSUME Types, Types', Chain, Months, Sealed(point), Jobs, NEW t \in Threads, VerifyIncremental(t)
    PROVE  Jobs'
<1>1. PICK cp, j :
        /\ cp \in Loaded
        /\ j = [NoJob EXCEPT !.anchor = cp, !.next = cp.seq, !.hurt = damage,
                             !.disturbed = dropping # {}]
        /\ Goto(t, "walk", j)
  BY DEF VerifyIncremental
<1>2. UNCHANGED <<trail, head, damage, torn, vouched>>
  BY DEF VerifyIncremental
<1>3. IsJob(j) /\ Sealed(cp)
  BY <1>1, TypesGotoThen, SealedNothing DEF Loaded
<1>4. /\ j.anchor = cp /\ j.next = cp.seq /\ j.prev = Unknown /\ j.first = 0 /\ j.last = 0
      /\ j.ok /\ j.hurt = damage /\ (~j.disturbed => dropping = {})
  BY <1>1 DEF NoJob
<1>5. damage = {} /\ ~torn /\ ~j.disturbed => \A s \in Numbers : From(s)
  BY <1>4, NoGap
<1>6. Good("walk", j)
  BY <1>3, <1>4, <1>5, Started
<1>. QED
  BY <1>1, <1>2, <1>3, <1>6, Idles, JobKept, JobsGoto DEF Labels

LEMMA GoodFull ==
    ASSUME Types, Types', Chain, Months, Jobs, StartFullVerify
    PROVE  Jobs'
<1>1. PICK j : j = [NoJob EXCEPT !.hurt = damage, !.disturbed = dropping # {}]
  OBVIOUS
<1>2. Goto(Daily, "walk", j) /\ UNCHANGED <<trail, head, damage, torn, vouched>> /\ Daily \in Threads
  BY <1>1 DEF StartFullVerify, Threads
<1>3. IsJob(j)
  BY <1>2, TypesGotoThen
<1>4. /\ j.anchor = NoPoint /\ j.next = 0 /\ j.prev = Unknown /\ j.first = 0 /\ j.last = 0
      /\ j.ok /\ j.hurt = damage /\ (~j.disturbed => dropping = {}) /\ NoPoint.seq = 0
  BY <1>1 DEF NoJob, NoPoint
<1>5. damage = {} /\ ~torn /\ ~j.disturbed => \A s \in Numbers : From(s)
  BY <1>4, NoGap
<1>6. Good("walk", j)
  BY <1>3, <1>4, <1>5, Started, SealedNothing
<1>. QED
  BY <1>2, <1>3, <1>6, Idles, JobKept, JobsGoto DEF Labels

-----------------------------------------------------------------------------
(* One batch of a verification.                                            *)

LEMMA Predecessor ==
    ASSUME NEW b, b \subseteq Seqs, NEW s \in b, s # First(b)
    PROVE  \E p \in b : Follows(b, p, s)
<1>. DEFINE before == {u \in b : u < s}
<1>1. \A u \in b : u \in Nat
  BY AuditTrailAssumption DEF Seqs
<1>2. First(b) \in b /\ First(b) <= s
  BY <1>1, FirstIsLeast
<1>3. before \subseteq Seqs /\ before # {}
  BY <1>1, <1>2
<1>4. Last(before) \in before /\ \A u \in before : u <= Last(before)
  BY <1>3, LastIsGreatest
<1>. QED
  BY <1>1, <1>4 DEF Follows

(* The number before a record's is that of the record it comes right after *)
(* if there is one.                                                        *)
LEMMA FollowsIsNext ==
    ASSUME Types, NEW j, IsJob(j), NEW b, b = NextBatch(j), NEW s \in b, NEW p \in b,
           Follows(b, p, s), s - 1 \in Numbers
    PROVE  p = s - 1
<1>1. \A u \in Numbers : u \in Nat
  BY NumbersAre
<1>2. /\ b \subseteq Numbers /\ j.next <= p /\ j.next \in Nat
      /\ \A u \in b, v \in Numbers : j.next <= v /\ v <= u => v \in b
  BY BatchIsNext DEF IsJob
<1>3. p < s /\ p \in Nat /\ s \in Nat
  BY <1>1, <1>2 DEF Follows
<1>4. s - 1 \in b
  BY <1>2, <1>3
<1>. QED
  BY <1>3, <1>4 DEF Follows

(* What a batch without a break says of damage. *)
LEMMA BatchIsSound ==
    ASSUME Types, Chain, NEW j, IsJob(j), Good("walk", j), ~mode.memory,
           NEW b, b = NextBatch(j), b # {}, \A s \in b : ~Broken(j, b, s)
    PROVE  /\ \A s \in b : <<s, "altered">> \notin damage
           /\ \A s \in b : s # First(b) => s - 1 \in b /\ <<s - 1, "rewritten">> \notin damage
           /\ j.first > 0 => /\ First(b) = j.last + 1
                             /\ <<j.last, "lost">> \notin j.hurt
                             /\ <<j.last, "rewritten">> \notin j.hurt
           /\ j.first = 0 => j.anchor.seq = First(b) \/ (j.anchor.seq = 0 /\ j.next = 0)
<1>1. /\ b \subseteq Numbers /\ b \subseteq Seqs /\ \A s \in b : j.next <= s
      /\ \A s \in b : s \in Nat /\ s > 0 /\ s <= MaxRecords
      /\ First(b) \in b
  <2>1. b \subseteq Numbers /\ b \subseteq Seqs /\ \A s \in b : j.next <= s
    BY BatchIsNext
  <2>2. \A s \in b : s \in Nat /\ s > 0 /\ s <= MaxRecords
    BY <2>1, NumbersAre
  <2>. QED
    BY <2>1, <2>2, FirstIsLeast
<1>2. /\ j.first \in Nat /\ j.last \in Nat /\ j.first <= j.last /\ j.last <= head.seq
      /\ head.seq \in Nat /\ head.seq <= MaxRecords /\ MaxRecords \in Nat
  <2>1. head.seq \in 0 .. MaxRecords
    BY DEF Types
  <2>. QED
    BY <2>1, AuditTrailAssumption DEF IsJob, Good, Progress
<1>3. \A s \in b : /\ trail[s].prev = s - 1
                   /\ trail[s].hash = IF <<s, "rewritten">> \in damage THEN -s ELSE s
  BY <1>1 DEF Chain
<1>4. ASSUME NEW s \in b PROVE <<s, "altered">> \notin damage
  <2>1. trail[s].intact
    BY DEF Broken
  <2>. QED
    BY <1>1, <2>1 DEF Chain
<1>5. ASSUME NEW s \in b, s # First(b) PROVE s - 1 \in b /\ <<s - 1, "rewritten">> \notin damage
  <2>1. PICK p \in b : Follows(b, p, s)
    BY <1>1, <1>5, Predecessor
  <2>2. trail[s].prev = trail[p].hash /\ p < s
    BY <2>1 DEF Broken, Unlinked, Follows
  <2>3. CASE <<p, "rewritten">> \in damage
    <3>1. trail[s].prev = s - 1 /\ trail[p].hash = -p
      BY <1>3, <2>3
    <3>2. s \in Nat /\ p \in Nat /\ p > 0 /\ s - 1 = -p
      BY <1>1, <2>2, <3>1
    <3>. QED
      BY <2>2, <3>2
  <2>4. CASE <<p, "rewritten">> \notin damage
    <3>1. p = s - 1
      BY <1>1, <1>3, <2>2, <2>4
    <3>. QED
      BY <2>4, <3>1
  <2>. QED
    BY <2>3, <2>4
<1>6. ASSUME j.first > 0
      PROVE  /\ First(b) = j.last + 1
             /\ <<j.last, "lost">> \notin j.hurt
             /\ <<j.last, "rewritten">> \notin j.hurt
  <2>1. /\ j.next = j.last + 1 /\ j.prev \in {j.last, -j.last}
        /\ <<j.last, "lost">> \notin j.hurt
        /\ <<j.last, "rewritten">> \in j.hurt => j.prev = -j.last
    BY <1>6 DEF Good, Progress
  <2>2. j.prev # Unknown
    BY <1>2, <2>1 DEF Unknown
  <2>3. trail[First(b)].prev = j.prev
    BY <1>1, <2>2 DEF Broken, Unlinked
  <2>4. First(b) - 1 = j.prev /\ j.last + 1 <= First(b) /\ First(b) \in Nat /\ j.last > 0
    <3>1. trail[First(b)].prev = First(b) - 1 /\ First(b) \in Nat /\ j.next <= First(b)
      BY <1>1, <1>3
    <3>2. j.last > 0
      BY <1>2, <1>6
    <3>. QED
      BY <2>1, <2>3, <3>1, <3>2
  <2>5. j.prev = j.last
    BY <1>2, <2>1, <2>4
  <2>. QED
    BY <1>2, <2>1, <2>4, <2>5
<1>7. ASSUME j.first = 0 PROVE j.anchor.seq = First(b) \/ (j.anchor.seq = 0 /\ j.next = 0)
  <2>1. ~AnchorGone(j, First(b))
    BY <1>1 DEF Broken
  <2>2. j.anchor = NoPoint \/ [seq |-> First(b), hash |-> trail[First(b)].hash] = j.anchor
    BY <1>7, <2>1 DEF AnchorGone
  <2>3. j.next = j.anchor.seq
    BY <1>7 DEF Good, Progress
  <2>4. CASE j.anchor = NoPoint
    BY <2>3, <2>4 DEF NoPoint
  <2>5. CASE [seq |-> First(b), hash |-> trail[First(b)].hash] = j.anchor
    <3>1. PICK f, h : f = First(b) /\ h = trail[First(b)].hash
      OBVIOUS
    <3>2. j.anchor = [seq |-> f, hash |-> h]
      BY <2>5, <3>1
    <3>3. j.anchor.seq = f
      BY <3>2
    <3>. QED
      BY <3>1, <3>3
  <2>. QED
    BY <2>2, <2>4, <2>5
<1>. QED
  BY <1>4, <1>5, <1>6, <1>7

(* Damage that was there and shows among the records a batch adds is a     *)
(* break.                                                                  *)
LEMMA BatchIsClean ==
    ASSUME Types, Chain, NEW j, IsJob(j), Good("walk", j),
           NEW b, b = NextBatch(j), b # {}, \A s \in b : ~Broken(j, b, s),
           NEW d \in j.hurt, d[1] > j.anchor.seq
    PROVE  ~Shows(d, Last(b))
<1>. SUFFICES ASSUME Shows(d, Last(b)) PROVE FALSE
  OBVIOUS
<1>1. PICK s : s = d[1]
  OBVIOUS
<1>2. d \in damage /\ s \in Nat /\ d[2] \in Hows /\ d = <<s, d[2]>>
  BY <1>1, AuditTrailAssumption DEF Good, Progress, Types, Seqs
<1>3. ~mode.memory
  BY <1>2 DEF Chain
<1>4. /\ b \subseteq Numbers /\ b \subseteq Seqs /\ \A u \in b : j.next <= u
      /\ \A u \in b, v \in Numbers : j.next <= v /\ v <= u => v \in b
  BY BatchIsNext
<1>5. Last(b) \in b /\ First(b) \in b /\ \A u \in b : First(b) <= u /\ u \in Nat
  <2>1. \A u \in b : u \in Nat
    BY <1>4, NumbersAre
  <2>. QED
    BY <1>4, <2>1, FirstIsLeast, LastIsGreatest
<1>6. /\ \A u \in b : <<u, "altered">> \notin damage
      /\ \A u \in b : u # First(b) => u - 1 \in b /\ <<u - 1, "rewritten">> \notin damage
      /\ j.first > 0 => /\ First(b) = j.last + 1
                        /\ <<j.last, "lost">> \notin j.hurt
                        /\ <<j.last, "rewritten">> \notin j.hurt
      /\ j.first = 0 => j.anchor.seq = First(b) \/ (j.anchor.seq = 0 /\ j.next = 0)
  BY <1>3, BatchIsSound
<1>7. /\ j.first \in Nat /\ j.last \in Nat /\ j.next \in Nat /\ j.anchor.seq \in Nat
      /\ j.first = 0 => j.next = j.anchor.seq
      /\ j.first > 0 => j.next = j.last + 1
  BY AuditTrailAssumption DEF IsJob, IsPoint, Good, Progress
<1>8. ~Shows(d, j.last) /\ j.anchor.seq < s
  BY <1>1 DEF Good, Clean, Progress
<1>9. \A u \in Numbers : u \in Nat /\ u > 0
  BY NumbersAre
<1>10. ASSUME NEW u \in Numbers, u >= s, u <= Last(b) PROVE u \in b \/ (j.first > 0 /\ u <= j.last)
  BY <1>4, <1>5, <1>7, <1>8, <1>9, <1>10, <1>2
<1>11. CASE d[2] = "altered"
  <2>1. s \in Numbers /\ s <= Last(b)
    BY <1>1, <1>11 DEF Shows
  <2>2. s \notin b
    BY <1>2, <1>6, <1>11
  <2>3. s <= j.last
    BY <1>2, <1>10, <2>1, <2>2
  <2>. QED
    BY <1>1, <1>7, <1>8, <1>11, <2>1, <2>3 DEF Shows
<1>12. CASE d[2] = "rewritten"
  <2>1. s \in Numbers /\ s + 1 \in Numbers /\ s + 1 <= Last(b)
    BY <1>1, <1>12 DEF Shows
  <2>2. s + 1 \notin b
    <3>. SUFFICES ASSUME s + 1 \in b PROVE FALSE
      OBVIOUS
    <3>1. s + 1 = First(b)
      <4>1. (s + 1) - 1 = s
        BY <1>2
      <4>. QED
        BY <1>2, <1>6, <1>12, <4>1
    <3>2. j.first = 0
      BY <1>2, <1>6, <1>7, <1>12, <3>1
    <3>3. j.next = 0
      BY <1>2, <1>6, <1>8, <3>1, <3>2
    <3>4. s \in b
      BY <1>2, <1>4, <2>1, <3>3
    <3>. QED
      BY <1>2, <1>5, <3>1, <3>4
  <2>3. s + 1 <= j.last
    BY <1>2, <1>10, <2>1, <2>2
  <2>. QED
    BY <1>1, <1>7, <1>8, <1>12, <2>1, <2>3 DEF Shows
<1>13. CASE d[2] = "lost"
  <2>1. s - 1 \in Numbers /\ s + 1 \in Numbers /\ s + 1 <= Last(b) /\ s \notin Numbers
    BY <1>1, <1>2, <1>13 DEF Shows, Chain
  <2>2. s + 1 \notin b
    <3>. SUFFICES ASSUME s + 1 \in b PROVE FALSE
      OBVIOUS
    <3>1. s + 1 = First(b)
      <4>1. (s + 1) - 1 = s
        BY <1>2
      <4>. QED
        BY <1>4, <1>6, <2>1, <4>1
    <3>2. j.first = 0
      BY <1>2, <1>6, <1>7, <1>13, <3>1
    <3>3. j.next = 0
      BY <1>2, <1>6, <1>8, <3>1, <3>2
    <3>4. s - 1 \in b
      BY <1>2, <1>4, <1>9, <2>1, <3>3
    <3>. QED
      BY <1>2, <1>5, <3>1, <3>4
  <2>3. s + 1 <= j.last
    BY <1>2, <1>10, <2>1, <2>2
  <2>. QED
    BY <1>1, <1>7, <1>8, <1>13, <2>1, <2>3 DEF Shows
<1>. QED
  BY <1>2, <1>11, <1>12, <1>13 DEF Hows

(* Records before the first that is walked were vouched for before.        *)
LEMMA BatchCovers ==
    ASSUME Types, NEW j, IsJob(j), Good("walk", j), NEW b, b = NextBatch(j), b # {},
           NEW s \in Numbers, s <= Last(b)
    PROVE  s \in vouched \/ (IF j.first = 0 THEN First(b) ELSE j.first) <= s
<1>1. /\ b \subseteq Numbers /\ b \subseteq Seqs /\ \A u \in b : j.next <= u
      /\ \A u \in b, v \in Numbers : j.next <= v /\ v <= u => v \in b
  BY BatchIsNext
<1>2. Last(b) \in b /\ \A u \in b : First(b) <= u
  <2>1. \A u \in b : u \in Nat
    BY <1>1, NumbersAre
  <2>. QED
    BY <1>1, <2>1, FirstIsLeast, LastIsGreatest
<1>3. /\ j.first \in Nat /\ j.last \in Nat /\ j.next \in Nat /\ j.anchor.seq \in Nat
      /\ j.first <= j.last /\ s \in Nat
      /\ \A u \in Numbers : u <= j.anchor.seq => u \in vouched
      /\ \A u \in Numbers : u <= j.last => u \in vouched \/ j.first <= u
      /\ j.first = 0 => j.next = j.anchor.seq
      /\ j.first > 0 => j.next = j.last + 1
  BY AuditTrailAssumption, NumbersAre DEF IsJob, IsPoint, Good, Progress, Covered, Sealed
<1>4. CASE s >= j.next
  <2>1. s \in b
    BY <1>1, <1>2, <1>4
  <2>. QED
    BY <1>2, <1>3, <1>4, <2>1
<1>5. CASE s < j.next
  BY <1>3, <1>5
<1>. QED
  BY <1>3, <1>4, <1>5

(* A break in an undamaged trail is a checkpoint whose record is gone. *)
LEMMA BreakIsAnchor ==
    ASSUME Types, Chain, NEW j, IsJob(j), Good("walk", j), NEW b, b = NextBatch(j), b # {},
           damage = {}, ~torn, ~j.disturbed, NEW s \in b, Broken(j, b, s)
    PROVE  /\ j.first = 0 /\ j.anchor.seq > 0 /\ j.anchor.seq < First(b)
           /\ \A u \in Numbers : u >= j.anchor.seq => u >= First(b)
<1>1. /\ b \subseteq Numbers /\ b \subseteq Seqs /\ \A u \in b : j.next <= u
      /\ \A u \in b, v \in Numbers : j.next <= v /\ v <= u => v \in b
  BY BatchIsNext
<1>2. /\ First(b) \in b /\ Last(b) \in b
      /\ \A u \in b : First(b) <= u /\ u <= Last(b) /\ u \in Nat /\ u > 0
  <2>1. \A u \in b : u \in Nat /\ u > 0
    BY <1>1, NumbersAre
  <2>. QED
    BY <1>1, <2>1, FirstIsLeast, LastIsGreatest
<1>3. /\ j.first \in Nat /\ j.last \in Nat /\ j.next \in Nat /\ j.anchor.seq \in Nat
      /\ j.first <= j.last
  BY AuditTrailAssumption DEF IsJob, IsPoint, Good, Progress
<1>4. \A u \in Numbers : trail[u].hash = u /\ trail[u].intact
  BY DEF Chain
<1>5. \A u \in Numbers : u \in Nat /\ u > 0 /\ u <= head.seq /\ head.seq \in Nat
  BY NumbersAre DEF Chain
<1>6. \A u, v \in Numbers : u < v => v - 1 \in Numbers /\ trail[v].prev = v - 1
  <2>. SUFFICES ASSUME NEW u \in Numbers, NEW v \in Numbers, u < v
                PROVE  v - 1 \in Numbers /\ trail[v].prev = v - 1
    OBVIOUS
  <2>1. From(u)
    BY DEF Good, Undisturbed
  <2>2. v - 1 \in u .. head.seq
    BY <1>5
  <2>3. v - 1 \in Numbers
    BY <2>1, <2>2 DEF From
  <2>. QED
    BY <2>3 DEF Chain
<1>7. ASSUME NEW p \in b, Follows(b, p, s) PROVE trail[s].prev = trail[p].hash
  <2>1. p < s
    BY <1>7 DEF Follows
  <2>2. s - 1 \in Numbers /\ trail[s].prev = s - 1
    BY <1>1, <1>6, <2>1
  <2>3. p = s - 1
    BY <1>7, <2>2, FollowsIsNext
  <2>4. trail[p].hash = p
    BY <1>1, <1>4
  <2>. QED
    BY <2>2, <2>3, <2>4
<1>8. ASSUME s = First(b), j.prev # Unknown PROVE trail[s].prev = j.prev
  <2>1. j.first > 0
    BY <1>3, <1>8 DEF Good, Progress
  <2>2. j.next = j.last + 1 /\ j.prev = j.last
    BY <2>1 DEF Good, Progress
  <2>3. j.last \in Numbers
    BY <2>1 DEF Good, Undisturbed
  <2>4. j.last < s
    BY <1>1, <1>2, <1>3, <2>2
  <2>5. s - 1 \in Numbers /\ trail[s].prev = s - 1
    BY <1>1, <1>6, <2>3, <2>4
  <2>6. s - 1 \notin b
    BY <1>2, <1>8
  <2>7. s - 1 < j.next
    BY <1>1, <1>2, <1>3, <2>5, <2>6
  <2>. QED
    BY <1>2, <1>3, <2>2, <2>4, <2>5, <2>7
<1>9. s = First(b) /\ AnchorGone(j, s)
  BY <1>1, <1>4, <1>7, <1>8 DEF Broken, Unlinked
<1>10. /\ j.anchor # NoPoint /\ j.first = 0 /\ [seq |-> s, hash |-> s] # j.anchor
       /\ j.next = j.anchor.seq
  BY <1>1, <1>4, <1>9 DEF AnchorGone, Good, Progress
<1>11. IsPoint(j.anchor) /\ j.anchor.hash = j.anchor.seq
  BY DEF IsJob, Good, Progress, Sealed
<1>12. j.anchor.seq > 0
  <2>. SUFFICES ASSUME j.anchor.seq = 0 PROVE FALSE
    BY <1>3
  <2>. QED
    BY <1>10, <1>11, NothingIsNoPoint
<1>13. s # j.anchor.seq
  <2>. SUFFICES ASSUME s = j.anchor.seq PROVE FALSE
    OBVIOUS
  <2>1. j.anchor["seq"] = s /\ j.anchor["hash"] = s
    BY <1>11
  <2>2. j.anchor = [f \in {"seq", "hash"} |-> s]
    BY <1>11, <2>1 DEF IsPoint
  <2>. QED
    BY <1>10, <2>2
<1>14. ASSUME NEW u \in Numbers, u >= j.anchor.seq PROVE u >= First(b)
  <2>1. CASE u <= Last(b)
    BY <1>1, <1>2, <1>10, <1>14, <2>1
  <2>2. CASE u > Last(b)
    BY <1>2, <1>5, <2>2
  <2>. QED
    BY <1>2, <1>5, <2>1, <2>2
<1>. QED
  BY <1>1, <1>2, <1>3, <1>9, <1>10, <1>12, <1>13, <1>14

(* A batch that is not the last, and the last. *)
LEMMA WalkedOn ==
    ASSUME Types, Chain, NEW j, IsJob(j), Good("walk", j), NEW b, b = NextBatch(j), b # {},
           \A s \in b : ~Broken(j, b, s), NEW k,
           k = [j EXCEPT !.first = IF j.first = 0 THEN First(b) ELSE j.first,
                         !.last = Last(b), !.next = Last(b) + 1, !.prev = trail[Last(b)].hash]
    PROVE  Good("walk", k)
<1>1. /\ k.anchor = j.anchor /\ k.hurt = j.hurt /\ k.ok = j.ok /\ k.disturbed = j.disturbed
      /\ k.first = IF j.first = 0 THEN First(b) ELSE j.first
      /\ k.last = Last(b) /\ k.next = Last(b) + 1 /\ k.prev = trail[Last(b)].hash
  BY DEF IsJob
<1>2. b \subseteq Numbers /\ b \subseteq Seqs /\ \A u \in b : j.next <= u
  BY BatchIsNext
<1>3. /\ First(b) \in b /\ Last(b) \in b
      /\ \A u \in b : First(b) <= u /\ u <= Last(b) /\ u \in Nat /\ u > 0
  <2>1. \A u \in b : u \in Nat /\ u > 0
    BY <1>2, NumbersAre
  <2>. QED
    BY <1>2, <2>1, FirstIsLeast, LastIsGreatest
<1>4. /\ j.first \in Nat /\ j.last \in Nat /\ j.next \in Nat /\ j.first <= j.last /\ j.ok
      /\ j.hurt \subseteq damage /\ Sealed(j.anchor) /\ (j.first > 0 => j.next = j.last + 1)
  BY DEF IsJob, Good, Progress
<1>5. Progress("walk", k)
  <2>1. k.first > 0 /\ k.first <= k.last /\ k.last <= head.seq
    <3>1. Last(b) <= head.seq
      BY <1>2, <1>3 DEF Chain
    <3>2. j.first > 0 => j.first <= Last(b)
      BY <1>2, <1>3, <1>4
    <3>. QED
      BY <1>1, <1>3, <1>4, <3>1, <3>2
  <2>2. /\ trail[Last(b)].hash = IF <<Last(b), "rewritten">> \in damage THEN -Last(b) ELSE Last(b)
        /\ <<Last(b), "lost">> \notin damage
    BY <1>2, <1>3 DEF Chain
  <2>3. /\ k.next = k.last + 1 /\ k.prev \in {k.last, -k.last}
        /\ <<k.last, "lost">> \notin k.hurt
        /\ <<k.last, "rewritten">> \in k.hurt => k.prev = -k.last
        /\ damage = {} => k.prev = k.last
    BY <1>1, <1>4, <2>2
  <2>. QED
    BY <1>1, <1>3, <1>4, <2>1, <2>3 DEF Progress
<1>6. Covered("walk", k)
  BY <1>1, BatchCovers DEF Covered
<1>7. Clean(k)
  BY <1>1, BatchIsClean DEF Clean
<1>8. Undisturbed("walk", k)
  BY <1>1, <1>2, <1>3, <1>4 DEF Undisturbed, Good
<1>. QED
  BY <1>5, <1>6, <1>7, <1>8 DEF Good

LEMMA WalkedOut ==
    ASSUME Types, Chain, NEW j, IsJob(j), Good("walk", j), NEW b, b = NextBatch(j),
           NEW k, k.anchor = j.anchor, k.hurt = j.hurt, k.disturbed = j.disturbed,
           k.first = (IF j.first = 0 /\ b # {} THEN First(b) ELSE j.first),
           k.last = (IF b = {} THEN j.last ELSE Last(b)),
           k.ok => ~\E s \in b : Broken(j, b, s),
           ~k.ok => (\E s \in b : Broken(j, b, s)) \/ k.first = 0
    PROVE  Good("judge", k)
<1>1. /\ k.anchor = j.anchor /\ k.hurt = j.hurt /\ k.disturbed = j.disturbed
      /\ k.first = IF j.first = 0 /\ b # {} THEN First(b) ELSE j.first
      /\ k.last = IF b = {} THEN j.last ELSE Last(b)
  OBVIOUS
<1>2. /\ k.ok => ~\E s \in b : Broken(j, b, s)
      /\ ~k.ok => (\E s \in b : Broken(j, b, s)) \/ k.first = 0
  OBVIOUS
<1>3. b \subseteq Numbers /\ b \subseteq Seqs /\ \A u \in b : j.next <= u
  BY BatchIsNext
<1>4. b # {} => /\ First(b) \in b /\ Last(b) \in b
                /\ \A u \in b : First(b) <= u /\ u <= Last(b) /\ u \in Nat /\ u > 0
  <2>1. \A u \in b : u \in Nat /\ u > 0
    BY <1>3, NumbersAre
  <2>. QED
    BY <1>3, <2>1, FirstIsLeast, LastIsGreatest
<1>5. /\ j.first \in Nat /\ j.last \in Nat /\ j.next \in Nat /\ j.first <= j.last /\ j.ok
      /\ j.hurt \subseteq damage /\ Sealed(j.anchor) /\ (j.first > 0 => j.next = j.last + 1)
      /\ j.last <= head.seq /\ (j.last > 0 => j.first > 0)
      /\ Covered("walk", j) /\ Clean(j) /\ Undisturbed("walk", j)
  BY DEF IsJob, Good, Progress
<1>6. Progress("judge", k)
  <2>1. b # {} => Last(b) <= head.seq
    BY <1>3, <1>4 DEF Chain
  <2>2. k.first <= k.last /\ k.last <= head.seq /\ (k.last > 0 => k.first > 0)
    BY <1>1, <1>3, <1>4, <1>5, <2>1
  <2>. QED
    BY <1>1, <1>5, <2>2 DEF Progress
<1>7. Covered("judge", k)
  <2>1. CASE b = {}
    BY <1>1, <1>5, <2>1 DEF Covered
  <2>2. CASE b # {}
    BY <1>1, <2>2, BatchCovers DEF Covered
  <2>. QED
    BY <2>1, <2>2
<1>8. Clean(k)
  <2>1. CASE b = {}
    BY <1>1, <1>5, <2>1 DEF Clean
  <2>2. CASE b # {}
    BY <1>1, <1>2, <2>2, BatchIsClean DEF Clean
  <2>. QED
    BY <2>1, <2>2
<1>9. Undisturbed("judge", k)
  <2>. SUFFICES ASSUME damage = {}, ~torn, ~k.disturbed
                PROVE  /\ \A s \in Numbers : From(s)
                       /\ ~k.ok /\ k.first > 0 =>
                            /\ k.anchor.seq > 0 /\ k.anchor.seq < k.first
                            /\ \A s \in Numbers : s >= k.anchor.seq => s >= k.first
    BY DEF Undisturbed
  <2>1. \A s \in Numbers : From(s)
    BY <1>1, <1>5 DEF Undisturbed
  <2>2. ASSUME ~k.ok, k.first > 0
        PROVE  /\ k.anchor.seq > 0 /\ k.anchor.seq < k.first
               /\ \A s \in Numbers : s >= k.anchor.seq => s >= k.first
    <3>1. PICK s \in b : Broken(j, b, s)
      BY <1>1, <1>2, <1>5, <2>2
    <3>2. /\ j.first = 0 /\ j.anchor.seq > 0 /\ j.anchor.seq < First(b)
          /\ \A u \in Numbers : u >= j.anchor.seq => u >= First(b)
      BY <1>1, <3>1, BreakIsAnchor
    <3>. QED
      BY <1>1, <3>1, <3>2
  <2>. QED
    BY <2>1, <2>2
<1>. QED
  BY <1>6, <1>7, <1>8, <1>9 DEF Good

LEMMA GoodWalk ==
    ASSUME Types, Types', Chain, Jobs, NEW t \in Threads, Walk(t)
    PROVE  Jobs'
<1>1. PICK j, b, first :
        /\ j = job[t] /\ b = NextBatch(j)
        /\ first = IF j.first = 0 /\ b # {} THEN First(b) ELSE j.first
  OBVIOUS
<1>2. PICK ok \in BOOLEAN : ok <=> ~\E s \in b : Broken(j, b, s)
  OBVIOUS
<1>3. IsJob(j) /\ Good("walk", j)
  BY <1>1 DEF Walk, Jobs, Types
<1>4. UNCHANGED <<trail, head, damage, torn, vouched>>
  BY DEF Walk
<1>5. \/ /\ ok /\ Cardinality(b) = Batch
         /\ Goto(t, "walk", [j EXCEPT !.first = first, !.last = Last(b), !.next = Last(b) + 1,
                                      !.prev = trail[Last(b)].hash])
      \/ Goto(t, "judge", [j EXCEPT !.first = first, !.last = IF b = {} THEN @ ELSE Last(b),
                                    !.ok = /\ ~\E s \in b : Broken(j, b, s)
                                           /\ ~(j.anchor # NoPoint /\ first = 0)])
  BY <1>1, <1>2 DEF Walk
<1>6. PICK l, k : l \in {"walk", "judge"} /\ Goto(t, l, k) /\ Good(l, k)
  <2>1. CASE ok /\ Cardinality(b) = Batch /\
             Goto(t, "walk", [j EXCEPT !.first = first, !.last = Last(b), !.next = Last(b) + 1,
                                       !.prev = trail[Last(b)].hash])
    <3>1. b # {}
      BY <1>1, <1>3, <2>1, BatchIsNext
    <3>2. PICK k : k = [j EXCEPT !.first = first, !.last = Last(b), !.next = Last(b) + 1,
                                 !.prev = trail[Last(b)].hash]
      OBVIOUS
    <3>3. k = [j EXCEPT !.first = IF j.first = 0 THEN First(b) ELSE j.first,
                        !.last = Last(b), !.next = Last(b) + 1, !.prev = trail[Last(b)].hash]
      BY <1>1, <3>1, <3>2
    <3>4. Good("walk", k)
      BY <1>1, <1>2, <1>3, <2>1, <3>1, <3>3, WalkedOn
    <3>. QED
      BY <2>1, <3>2, <3>4
  <2>2. CASE Goto(t, "judge", [j EXCEPT !.first = first, !.last = IF b = {} THEN @ ELSE Last(b),
                                        !.ok = /\ ~\E s \in b : Broken(j, b, s)
                                               /\ ~(j.anchor # NoPoint /\ first = 0)])
    <3>1. PICK k : k = [j EXCEPT !.first = first, !.last = IF b = {} THEN @ ELSE Last(b),
                                 !.ok = /\ ~\E s \in b : Broken(j, b, s)
                                        /\ ~(j.anchor # NoPoint /\ first = 0)]
      OBVIOUS
    <3>2. /\ k.anchor = j.anchor /\ k.hurt = j.hurt /\ k.disturbed = j.disturbed
          /\ k.first = (IF j.first = 0 /\ b # {} THEN First(b) ELSE j.first)
          /\ k.last = IF b = {} THEN j.last ELSE Last(b)
      BY <1>1, <1>3, <3>1 DEF IsJob
    <3>3. /\ k.ok => ~\E s \in b : Broken(j, b, s)
          /\ ~k.ok => (\E s \in b : Broken(j, b, s)) \/ k.first = 0
      <4>1. k.first = first
        BY <1>3, <3>1 DEF IsJob
      <4>2. k.ok <=> /\ ~\E s \in b : Broken(j, b, s)
                     /\ ~(j.anchor # NoPoint /\ first = 0)
        <5>1. k.ok = (/\ ~\E s \in b : Broken(j, b, s)
                      /\ ~(j.anchor # NoPoint /\ first = 0))
          BY <1>3, <3>1 DEF IsJob
        <5>. QED
          BY <5>1
      <4>. QED
        BY <4>1, <4>2
    <3>4. Good("judge", k)
      BY <1>1, <1>3, <3>2, <3>3, WalkedOut
    <3>. QED
      BY <2>2, <3>1, <3>4
  <2>. QED
    BY <1>5, <2>1, <2>2
<1>7. IsJob(k)
  BY <1>6, TypesGotoThen
<1>8. Grows /\ Steady /\ Good(l, k)'
  BY <1>4, <1>6, <1>7, Idles, JobKept
<1>. QED
  BY <1>6, <1>8, JobsGoto DEF Labels

-----------------------------------------------------------------------------
(* The verdict, and the checkpoint.                                        *)

(* A checkpoint that fell to retention is recognized.                      *)
LEMMA PurgedIsSeen ==
    ASSUME Types, NEW j, IsJob(j), Good("judge", j), ~j.ok, j.first > 0,
           damage = {}, ~torn, ~j.disturbed
    PROVE  /\ j.anchor # NoPoint /\ j.first > j.anchor.seq
           /\ \A purged \in PurgedBefore(j.first) : purged
<1>1. /\ j.anchor.seq > 0 /\ j.anchor.seq < j.first
      /\ \A s \in Numbers : From(s) /\ (s >= j.anchor.seq => s >= j.first)
      /\ j.anchor.seq <= head.seq
  BY DEF Good, Undisturbed, Progress, Sealed
<1>2. j.first \in Nat /\ j.anchor.seq \in Nat
  BY AuditTrailAssumption DEF IsJob, IsPoint
<1>3. j.anchor # NoPoint
  BY <1>1 DEF NoPoint
<1>4. ASSUME NEW s \in Numbers PROVE s >= j.first
  <2>1. CASE s >= j.anchor.seq
    BY <1>1, <2>1
  <2>2. CASE s < j.anchor.seq
    <3>1. j.anchor.seq \in s .. head.seq
      BY <1>1, <1>2, <2>2, NumbersAre
    <3>2. j.anchor.seq \in Numbers
      BY <1>1, <3>1 DEF From
    <3>. QED
      BY <1>1, <1>2, <3>2
  <2>. QED
    BY <1>2, <2>1, <2>2, NumbersAre
<1>. QED
  BY <1>1, <1>2, <1>3, <1>4 DEF PurgedBefore

(* A verification that passes vouches for all it walked. *)
LEMMA Passed ==
    ASSUME Types, NEW j, IsJob(j), Good("judge", j)', j.ok,
           j.first > 0 => (j.first .. j.last) \subseteq vouched', Types'
    PROVE  Good("save", j)'
<1>1. j.first \in Nat /\ j.last \in Nat
  BY DEF IsJob
<1>2. Covered("save", j)'
  <2>. SUFFICES ASSUME NEW s \in Numbers', s <= j.last PROVE s \in vouched'
    BY DEF Covered
  <2>1. s \in vouched' \/ j.first <= s
    BY DEF Good, Covered
  <2>2. s \in Nat /\ s > 0 /\ (j.last > 0 => j.first > 0)
    BY NumbersThen DEF Good, Progress
  <2>. QED
    BY <1>1, <2>1, <2>2
<1>3. Progress("save", j)'
  BY DEF Good, Progress
<1>4. Undisturbed("save", j)'
  BY DEF Good, Undisturbed
<1>. QED
  BY <1>2, <1>3, <1>4 DEF Good

LEMMA Failed ==
    ASSUME Types, NEW j, IsJob(j), Good("judge", j), ~j.ok,
           NEW purged \in PurgedBefore(j.first),
           ~(j.anchor # NoPoint /\ j.first > j.anchor.seq /\ purged)
    PROVE  Good("report", j)
<1>1. Progress("report", j)
  BY DEF Good, Progress
<1>2. Undisturbed("report", j)
  <2>. SUFFICES ASSUME damage = {}, ~torn, ~j.disturbed
                PROVE  (\A s \in Numbers : From(s)) /\ ~(j.first > 0)
    BY DEF Undisturbed
  <2>. QED
    BY PurgedIsSeen DEF Good, Undisturbed
<1>. QED
  BY <1>1, <1>2 DEF Good, Clean

LEMMA GoodJudge ==
    ASSUME Types, Types', Chain, Jobs, NEW t \in Threads, Judge(t)
    PROVE  Jobs'
<1>1. PICK j : j = job[t]
  OBVIOUS
<1>2. IsJob(j) /\ Good("judge", j)
  BY <1>1 DEF Judge, Jobs, Types
<1>3. Grows /\ Steady
  BY Idles DEF Judge
<1>4. PICK purged \in PurgedBefore(j.first) :
      \/ /\ ~j.ok
         /\ Goto(t, "walk", [NoJob EXCEPT !.hurt = j.hurt, !.disturbed = j.disturbed])
      \/ j.ok /\ Goto(t, "save", j) /\ vouched' = IF j.first > 0 THEN vouched \cup (j.first .. j.last) ELSE vouched
      \/ /\ ~j.ok /\ ~(j.anchor # NoPoint /\ j.first > j.anchor.seq /\ purged)
         /\ Goto(t, "report", j)
  BY <1>1 DEF Judge
<1>5. CASE ~j.ok /\ Goto(t, "walk", [NoJob EXCEPT !.hurt = j.hurt, !.disturbed = j.disturbed])
  <2>1. PICK k : k = [NoJob EXCEPT !.hurt = j.hurt, !.disturbed = j.disturbed]
    OBVIOUS
  <2>2. IsJob(k) /\ Goto(t, "walk", k)
    BY <1>5, <2>1, TypesGotoThen
  <2>3. /\ k.anchor = NoPoint /\ k.next = 0 /\ k.prev = Unknown /\ k.first = 0 /\ k.last = 0
        /\ k.ok /\ k.hurt = j.hurt /\ k.disturbed = j.disturbed /\ NoPoint.seq = 0
    BY <2>1 DEF NoJob, NoPoint
  <2>4. j.hurt \subseteq damage /\ Undisturbed("judge", j)
    BY <1>2 DEF Good, Progress
  <2>5. damage = {} /\ ~torn /\ ~k.disturbed => \A s \in Numbers : From(s)
    BY <2>3, <2>4 DEF Undisturbed
  <2>6. Good("walk", k)
    BY <2>2, <2>3, <2>4, <2>5, Started, SealedNothing
  <2>7. Good("walk", k)'
    BY <1>3, <2>2, <2>6, JobKept
  <2>. QED
    BY <1>3, <2>2, <2>7, JobsGoto DEF Labels
<1>6. CASE j.ok /\ Goto(t, "save", j) /\
           vouched' = IF j.first > 0 THEN vouched \cup (j.first .. j.last) ELSE vouched
  <2>1. Good("judge", j)'
    BY <1>2, <1>3, JobKept
  <2>2. Good("save", j)'
    BY <1>2, <1>6, <2>1, Passed
  <2>. QED
    BY <1>3, <1>6, <2>2, JobsGoto DEF Labels
<1>7. CASE /\ ~j.ok /\ ~(j.anchor # NoPoint /\ j.first > j.anchor.seq /\ purged)
           /\ Goto(t, "report", j)
  <2>1. Good("report", j)
    BY <1>2, <1>7, Failed
  <2>2. Good("report", j)'
    BY <1>2, <1>3, <2>1, JobKept
  <2>. QED
    BY <1>3, <1>7, <2>2, JobsGoto DEF Labels
<1>. QED
  BY <1>4, <1>5, <1>6, <1>7

(* The checkpoint is saved with the hash its record has now. *)
LEMMA GoodSave ==
    ASSUME Types, Types', Chain, Jobs, Sealed(point), NEW t \in Threads, SaveCheckpoint(t)
    PROVE  Jobs' /\ Sealed(point)'
<1>1. PICK j : j = job[t]
  OBVIOUS
<1>2. IsJob(j) /\ Good("save", j) /\ Goto(t, "report", j)
  BY <1>1 DEF SaveCheckpoint, Jobs, Types
<1>3. Grows /\ Steady
  BY Idles DEF SaveCheckpoint
<1>4. j.ok /\ Covered("save", j)
  BY <1>2 DEF Good, Progress
<1>5. Good("report", j)
  <2>1. Progress("report", j) /\ Covered("report", j) /\ Undisturbed("report", j)
    BY <1>2, <1>4 DEF Good, Progress, Covered, Undisturbed
  <2>. QED
    BY <1>2, <2>1 DEF Good
<1>6. Good("report", j)'
  BY <1>2, <1>3, <1>5, JobKept
<1>7. PICK p : p = point'
  OBVIOUS
<1>8. p = point \/ (j.last \in Numbers /\ p = [seq |-> j.last, hash |-> trail[j.last].hash])
  BY <1>1, <1>7 DEF SaveCheckpoint, LastWalked
<1>9. Sealed(p) /\ IsPoint(p)
  <2>1. CASE p = point
    BY <2>1 DEF Types
  <2>2. CASE j.last \in Numbers /\ p = [seq |-> j.last, hash |-> trail[j.last].hash]
    <3>1. p.seq = j.last /\ p.hash = trail[j.last].hash
      BY <2>2
    <3>2. /\ j.last \in Nat /\ j.last > 0 /\ j.last <= head.seq
          /\ trail[j.last].hash = IF <<j.last, "rewritten">> \in damage THEN -j.last ELSE j.last
      BY <2>2, NumbersAre DEF Chain
    <3>3. \A s \in Numbers : s <= j.last => s \in vouched
      BY <1>4 DEF Covered
    <3>4. IsPoint(p)
      BY <1>7 DEF Types
    <3>. QED
      BY <3>1, <3>2, <3>3, <3>4 DEF Sealed
  <2>. QED
    BY <1>8, <2>1, <2>2
<1>10. Sealed(p)'
  BY <1>3, <1>9, SealedKept
<1>11. Sealed(point)'
  BY <1>7, <1>10 DEF Sealed
<1>. QED
  BY <1>2, <1>3, <1>6, <1>11, JobsGoto DEF Labels

(* The checkpoint as long as none is saved. *)
LEMMA PointKept ==
    ASSUME Types, Types', Grows, Sealed(point), point' = point
    PROVE  Sealed(point)'
<1>1. PICK p : p = point
  OBVIOUS
<1>2. Sealed(p) /\ IsPoint(p)
  BY <1>1 DEF Types
<1>3. Sealed(p)'
  BY <1>2, SealedKept
<1>. QED
  BY <1>1, <1>3 DEF Sealed

LEMMA JobsStep ==
    ASSUME Types, Types', Chain, Months, Sealed(point), Jobs, [Next]_vars
    PROVE  Jobs' /\ Sealed(point)'
<1>1. CASE UNCHANGED <<trail, head, damage, torn, vouched, pc, job, point>>
  BY <1>1, Idles, JobsStay, PointKept
<1>2. CASE RecordRequest
  <2>1. PICK t \in Nat : Append1(t)
    BY <1>2, TakenAtNat DEF RecordRequest
  <2>. QED
    BY <1>2, <2>1, AppendGrows, JobsStay, PointKept DEF RecordRequest
<1>3. CASE Restart \/ PurgeFails
  <2>1. Grows
    <3>1. torn => torn'
      BY <1>3 DEF Restart, PurgeFails
    <3>2. UNCHANGED <<trail, head, damage, vouched>>
      BY <1>3 DEF Restart, PurgeFails
    <3>3. Numbers' = Numbers /\ head.seq <= head'.seq
      BY <3>2, NumbersAre DEF Numbers
    <3>. QED
      BY <3>1, <3>2, <3>3 DEF Grows
  <2>2. CASE Restart
    <3>1. Jobs'
      BY <2>2 DEF Restart, Jobs
    <3>. QED
      BY <2>1, <2>2, <3>1, PointKept DEF Restart
  <2>3. CASE PurgeFails
    <3>1. torn' /\ UNCHANGED <<pc, job, point>>
      BY <2>3 DEF PurgeFails
    <3>2. Steady
      BY <3>1 DEF Steady
    <3>. QED
      BY <2>1, <3>1, <3>2, JobsStay, PointKept
  <2>. QED
    BY <1>3, <2>2, <2>3
<1>4. CASE Damage
  BY <1>4, DamageGrows, JobsStay, PointKept DEF Damage
<1>5. CASE PurgeMemory
  <2>1. Grows
    BY <1>5, KeepGrows DEF PurgeMemory
  <2>. QED
    BY <1>5, <2>1, JobsDisturb, PointKept DEF PurgeMemory
<1>6. CASE DropPartition
  <2>1. PICK m : Keep({s \in Numbers : MonthOf(s) # m})
    BY <1>6 DEF DropPartition
  <2>2. Grows
    BY <1>6, <2>1, KeepGrows DEF DropPartition
  <2>. QED
    BY <1>6, <2>2, JobsDisturb, PointKept DEF DropPartition
<1>7. CASE StartFullVerify
  BY <1>7, Idles, GoodFull, PointKept DEF StartFullVerify
<1>8. ASSUME NEW t \in Threads, VerifyIncremental(t) PROVE Jobs' /\ Sealed(point)'
  BY <1>8, Idles, GoodIncremental, PointKept DEF VerifyIncremental
<1>9. ASSUME NEW t \in Threads, Walk(t) PROVE Jobs' /\ Sealed(point)'
  BY <1>9, Idles, GoodWalk, PointKept DEF Walk
<1>10. ASSUME NEW t \in Threads, Judge(t) PROVE Jobs' /\ Sealed(point)'
  BY <1>10, Idles, GoodJudge, PointKept DEF Judge
<1>11. ASSUME NEW t \in Threads, SaveCheckpoint(t) PROVE Jobs' /\ Sealed(point)'
  BY <1>11, GoodSave
<1>12. ASSUME NEW t \in Threads, Report(t) PROVE Jobs' /\ Sealed(point)'
  <2>1. /\ Append1(clock) \/ UNCHANGED <<trail, head>>
        /\ UNCHANGED <<damage, torn, vouched, point>> /\ clock \in Nat
        /\ Goto(t, "idle", NoJob)
    BY <1>12 DEF Report, Return, Types
  <2>2. Grows /\ Steady
    BY <2>1, AppendGrows, Idles
  <2>. QED
    BY <2>1, <2>2, JobsGoto, PointKept DEF Labels
<1>13. ASSUME NEW t \in Threads, WalkFails(t) PROVE Jobs' /\ Sealed(point)'
  <2>1. /\ \E l, j : l \in {"idle", "interrupted"} /\ Goto(t, l, j)
        /\ UNCHANGED <<trail, head, damage, torn, vouched, point>>
    BY <1>13 DEF WalkFails, Return
  <2>2. Grows /\ Steady
    BY <2>1, Idles
  <2>. QED
    BY <2>1, <2>2, JobsGoto, PointKept DEF Labels
<1>. QED
  BY <1>1, <1>2, <1>3, <1>4, <1>5, <1>6, <1>7, <1>8, <1>9, <1>10, <1>11, <1>12, <1>13
  DEF Next, vars, Tick, Purge

LEMMA InvInit == Init => Inv
<1>. SUFFICES ASSUME Init PROVE Inv
  OBVIOUS
<1>1. point = NoPoint /\ \A t \in Threads : pc[t] = "idle"
  BY DEF Init
<1>2. Types /\ Chain /\ Months
  BY ChainInit
<1>3. Sealed(point)
  BY <1>1, <1>2, SealedNothing
<1>4. Jobs
  BY <1>1 DEF Jobs
<1>5. Interrupted
  BY <1>1 DEF Interrupted
<1>. QED
  BY <1>2, <1>3, <1>4, <1>5 DEF Inv

LEMMA InvCorrect == Spec => []Inv
<1>1. Inv /\ [Next]_vars => Inv'
  <2>. SUFFICES ASSUME Inv, [Next]_vars PROVE Inv'
    OBVIOUS
  <2>1. Types' /\ Chain' /\ Months'
    BY TypesStep, ChainStep, MonthsStep DEF Inv
  <2>2. Jobs' /\ Sealed(point)'
    BY <2>1, JobsStep DEF Inv
  <2>3. Interrupted'
    BY InterruptedStep DEF Inv
  <2>. QED
    BY <2>1, <2>2, <2>3 DEF Inv
<1>. QED
  BY <1>1, InvInit, PTL DEF Spec

(* A verification reports a problem only of a trail that was damaged or in *)
(* which a purge left a gap or was under way, or of one with nothing left  *)
(* of it, or because it is the one in the background and a read failed; a  *)
(* checkpoint that fell to retention is told from a break                  *)
(* (VerifyIncremental, StartFullVerify).                                   *)
THEOREM AlarmsCorrect == Spec => []AlarmsAreReal
<1>1. Inv => AlarmsAreReal
  <2>. SUFFICES ASSUME Inv, NEW t \in Threads, Alarm(t),
                       damage = {}, ~job[t].disturbed, ~torn
                PROVE  job[t].first = 0 \/ (t = Daily /\ pc[t] = "interrupted")
    BY DEF AlarmsAreReal
  <2>1. CASE pc[t] = "interrupted"
    BY <2>1 DEF Inv, Interrupted
  <2>2. CASE Judged(t) /\ ~job[t].ok
    <3>1. PICK l, j : l \in {"save", "report"} /\ l = pc[t] /\ j = job[t]
      BY <2>2 DEF Judged
    <3>2. Good(l, j) /\ IsJob(j)
      BY <3>1 DEF Inv, Jobs, Types
    <3>3. ~(j.first > 0)
      BY <2>2, <3>1, <3>2 DEF Good, Undisturbed
    <3>. QED
      BY <3>1, <3>2, <3>3 DEF IsJob
  <2>. QED
    BY <2>1, <2>2 DEF Alarm
<1>. QED
  BY <1>1, InvCorrect, PTL

(* A verification that passes has not walked past damage that was there    *)
(* when it started and shows among the records behind its checkpoint, at a *)
(* batch's boundary as little as within one (verifyFrom).                  *)
THEOREM DamageIsFoundCorrect == Spec => []DamageIsFound
<1>1. Inv => DamageIsFound
  <2>. SUFFICES ASSUME Inv, NEW t \in Threads, Judged(t), job[t].ok,
                       NEW d \in job[t].hurt, d[1] > job[t].anchor.seq
                PROVE  ~Shows(d, job[t].last)
    BY DEF DamageIsFound
  <2>1. PICK l, j : l \in {"save", "report"} /\ l = pc[t] /\ j = job[t]
    BY DEF Judged
  <2>2. Good(l, j)
    BY <2>1 DEF Inv, Jobs
  <2>. QED
    BY <2>1, <2>2 DEF Good, Clean
<1>. QED
  BY <1>1, InvCorrect, PTL

(* Every record left before the checkpoint was walked by a verification    *)
(* that passed, in whatever order verifications save their checkpoints     *)
(* (saveCheckpoint).                                                       *)
THEOREM CheckpointCorrect == Spec => []CheckpointCovers
<1>1. Inv => CheckpointCovers
  BY DEF Inv, Sealed, CheckpointCovers
<1>. QED
  BY <1>1, InvCorrect, PTL
=============================================================================
