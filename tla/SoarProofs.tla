----------------------------- MODULE SoarProofs -----------------------------
(***************************************************************************)
(* Proofs about Soar, for any number of threads, addresses, connectors and *)
(* calls, with lost answers, failed saves and restarts; and, at the end,   *)
(* about DenyList, the connectors it calls.                                *)
(***************************************************************************)
EXTENDS Soar, DenyList, FiniteSetTheorems, WellFoundedInduction, TLAPS

(* The newest of a set of block ids is one of them. *)
LEMMA NewestIsMember ==
    ASSUME NEW S \in SUBSET Ids, S # {}
    PROVE  Newest(S) \in S /\ \A j \in S : j <= Newest(S)
<1> DEFINE T == {MaxCalls - i : i \in S}
<1>1. T \subseteq Nat /\ T # {}
  <2>1. \A i \in S : i \in 1 .. MaxCalls
    BY DEF Ids
  <2>2. \A i \in S : MaxCalls - i \in Nat
    BY <2>1, SoarAssumption
  <2>3. PICK i \in S : TRUE
    OBVIOUS
  <2>4. MaxCalls - i \in T
    BY <2>3
  <2>. QED  BY <2>2, <2>4
<1>2. PICK x \in T : \A y \in T : ~(<<y, x>> \in OpToRel(<, Nat))
  BY ONLY <1>1, WFMin, NatLessThanWellFounded
<1>3. \A y \in T : ~(y < x)
  BY <1>1, <1>2 DEF OpToRel
<1>4. PICK i \in S : x = MaxCalls - i
  OBVIOUS
<1>5. \A j \in S : j <= i
  <2> SUFFICES ASSUME NEW j \in S PROVE j <= i
    OBVIOUS
  <2>1. MaxCalls - j \in T
    OBVIOUS
  <2>2. ~(MaxCalls - j < MaxCalls - i)
    BY <1>3, <1>4, <2>1
  <2>. QED  BY <2>2, SoarAssumption DEF Ids
<1>. QED  BY <1>5 DEF Newest

LEMMA NewestType ==
    ASSUME NEW S \in SUBSET Ids
    PROVE  Newest(S) \in Ids \cup {NoId}
BY NewestIsMember DEF Newest

(* The values the records start from have their types. *)
LEMMA InitialTypes ==
    /\ SomeAddr \in Addrs
    /\ NoResult \in Result
    /\ NoResults \in [Connectors -> Result]
    /\ NoBlock \in Block
    /\ NoJob \in Job
<1>1. SomeAddr \in Addrs
  BY SoarAssumption DEF SomeAddr
<1>2. NoResult \in Result
  BY DEF NoResult, Result, NoRef
<1>3. NoResults \in [Connectors -> Result]
  BY <1>2 DEF NoResults
<1>. QED
  BY <1>1, <1>2, <1>3 DEF NoBlock, Block, NoJob, Job

LEMMA MergeType ==
    ASSUME NEW old \in [Connectors -> Result], NEW fresh \in [Connectors -> Result]
    PROVE  MergeResults(old, fresh) \in [Connectors -> Result]
BY DEF MergeResults

LEMMA LifetimeType == \A in \in TTLInputs : Lifetime(in) \in Nat
BY SoarAssumption DEF Lifetime

LEMMA StateType ==
    ASSUME NEW res, NEW dry
    PROVE  StateOf(res, dry) \in {"active", "failed", "dry_run"}
BY DEF StateOf

(* Recording one answer keeps the job well typed. *)
LEMMA GotType ==
    ASSUME TypeOK, NEW t \in Threads, NEW c \in Connectors,
           NEW st \in {"live", "failed", "released"}, NEW ref \in {DryRef} \cup Nat,
           Got(t, c, st, ref)
    PROVE  /\ job' \in [Threads -> Job]
           /\ \A u \in Threads : job'[u].id = job[u].id /\ job'[u].call = job[u].call
<1>1. [st |-> st, ref |-> ref] \in Result
  BY DEF Result
<1> DEFINE j == [job[t] EXCEPT !.todo = @ \ {c}, !.got[c] = [st |-> st, ref |-> ref]]
<1>2. job[t] \in Job
  BY DEF TypeOK
<1>3. [job[t].got EXCEPT ![c] = [st |-> st, ref |-> ref]] \in [Connectors -> Result]
  BY <1>1, <1>2 DEF Job
<1>4. j \in Job
  BY <1>2, <1>3 DEF Job
<1>5. job' = [job EXCEPT ![t] = j]
  BY <1>4 DEF Got, TypeOK
<1>6. j.id = job[t].id /\ j.call = job[t].call
  BY <1>2 DEF Job
<1>. QED  BY <1>4, <1>5, <1>6 DEF TypeOK

-----------------------------------------------------------------------------
LEMMA TypeStep == TypeOK /\ [Next]_vars => TypeOK'
<1> SUFFICES ASSUME TypeOK, [Next]_vars PROVE TypeOK'
  OBVIOUS
<1> USE SoarAssumption, InitialTypes
<1>1. ASSUME NEW t \in Threads, BlockBegin(t) PROVE TypeOK'
  <2>1. PICK a \in Addrs \ policy.protected, in \in TTLInputs,
             conns \in (SUBSET policy.conns) \ {{}} :
          /\ calls < MaxCalls
          /\ issued' = Recent /\ calls' = calls + 1 /\ Goto(t, "block")
          /\ job' = [job EXCEPT ![t] =
                       [NoJob EXCEPT !.addr = a, !.id = Extended(a),
                                     !.ttl = Lifetime(in), !.start = now,
                                     !.call = calls + 1, !.todo = conns]]
          /\ UNCHANGED <<now, policy, blocks, store, gw, restarts>>
    BY <1>1 DEF BlockBegin
  <2>2. Extended(a) \in Ids \cup {NoId}
    BY NewestType DEF ActiveOn, Extended
  <2>3. calls + 1 \in Ids /\ conns \subseteq Connectors /\ Lifetime(in) \in Nat
    BY <2>1, LifetimeType DEF TypeOK, Ids, Policy
  <2>4. job' \in [Threads -> Job]
    BY <2>1, <2>2, <2>3 DEF TypeOK, Job
  <2>5. issued' \subseteq [call : Ids, at : Nat] /\ calls' \in 0 .. MaxCalls
    BY <2>1 DEF TypeOK, Recent
  <2>6. /\ pc' \in [Threads -> {"idle", "block", "release", "lift", "sweep"}]
        /\ \A u \in Threads : u # t => job'[u] = job[u] /\ pc'[u] = pc[u]
        /\ pc'[t] = "block" /\ job'[t].call = calls + 1
    BY <2>1, <2>3 DEF TypeOK, Goto, NoJob
  <2>7. \A u \in Threads : /\ pc'[u] = "block" => job'[u].call \in Ids
                           /\ pc'[u] \in {"release", "lift"} => job'[u].id \in Ids
    BY <2>3, <2>6 DEF TypeOK
  <2>. QED  BY <2>1, <2>4, <2>5, <2>6, <2>7 DEF TypeOK
<1>2. ASSUME NEW t \in Threads, BlockRefused(t) PROVE TypeOK'
  BY <1>2 DEF BlockRefused, TypeOK, Recent
<1>3. ASSUME NEW t \in Threads, BlockCall(t) PROVE TypeOK'
  <2>1. PICK c \in job[t].todo :
          LET ref == RefFor(c, job[t].call)
              add == gw' = [gw EXCEPT ![c] = @ \cup {<<job[t].addr, ref>>}]
          IN  /\ \/ gw' = gw /\ Got(t, c, "live", DryRef)
                 \/ add /\ Got(t, c, "live", ref)
                 \/ gw' = gw /\ Got(t, c, "failed", NoRef)
                 \/ add /\ Got(t, c, "failed", NoRef)
              /\ UNCHANGED <<now, policy, blocks, store, issued, calls, pc, restarts>>
    BY <1>3 DEF BlockCall
  <2>2. c \in Connectors /\ RefFor(c, job[t].call) \in Nat /\ job[t].addr \in Addrs
    BY DEF TypeOK, Job, RefFor, NoRef, NoId, Ids
  <2>3. job' \in [Threads -> Job]
    BY <2>1, <2>2, GotType DEF NoRef
  <2>5. \A u \in Threads : job'[u].id = job[u].id /\ job'[u].call = job[u].call
    BY <2>1, <2>2, GotType DEF NoRef
  <2>4. gw' \in [Connectors -> SUBSET (Addrs \X Nat)]
    BY <2>1, <2>2 DEF TypeOK
  <2>. QED  BY <2>1, <2>3, <2>4, <2>5 DEF TypeOK
<1>4. ASSUME NEW t \in Threads, BlockEnd(t) PROVE TypeOK'
  <2> DEFINE j == job[t]
             id == IF j.id = NoId THEN j.call ELSE j.id
             res == MergeResults(blocks[id].res, j.got)
             b == [addr |-> j.addr, expires |-> j.start + j.ttl,
                   res |-> res, state |-> StateOf(res, policy.dry)]
             charge == [call |-> j.call, at |-> j.start]
  <2>1. /\ blocks' = [blocks EXCEPT ![id] = b]
        /\ issued' = issued \/ issued' = issued \cup {charge}
        /\ Persist(id) /\ Return(t)
        /\ UNCHANGED <<now, policy, calls, gw, restarts>>
    BY <1>4 DEF BlockEnd, Recorded
  <2>2. j \in Job /\ j.call \in Ids /\ id \in Ids
    BY <1>4 DEF TypeOK, BlockEnd, Job
  <2>3. res \in [Connectors -> Result]
    BY <2>2, MergeType DEF TypeOK, Job, Block
  <2>4. b \in Block
    BY <2>2, <2>3, StateType DEF Block, Job
  <2>5. blocks' \in [Ids -> Block]
    BY <2>1, <2>4 DEF TypeOK
  <2>6. store' \in [Ids -> Block]
    BY <2>1, <2>2, <2>5 DEF TypeOK, Persist
  <2>7. charge \in [call : Ids, at : Nat]
    BY <2>2 DEF Job
  <2>. QED
    BY <2>1, <2>5, <2>6, <2>7 DEF TypeOK, Return, Goto, NoJob
<1>5. ASSUME NEW t \in Threads, UnblockBegin(t) PROVE TypeOK'
  <2>1. PICK a \in Addrs :
          /\ ActiveOn(a) # {} /\ Goto(t, "release")
          /\ job' = [job EXCEPT ![t].id = Newest(ActiveOn(a))]
          /\ UNCHANGED <<now, policy, blocks, store, issued, calls, gw, restarts>>
    BY <1>5 DEF UnblockBegin
  <2>2. Newest(ActiveOn(a)) \in Ids
    BY <2>1, NewestIsMember DEF ActiveOn
  <2>. QED  BY <2>1, <2>2, <1>5 DEF TypeOK, Goto, Job, UnblockBegin
<1>6. ASSUME NEW t \in Threads, ReleaseBegin(t) PROVE TypeOK'
  <2> DEFINE res == blocks[job[t].id].res
             got == [c \in Connectors |-> IF c \in LiveAt(res) THEN res[c] ELSE NoResult]
  <2>1. res \in [Connectors -> Result]
    BY <1>6 DEF TypeOK, ReleaseBegin, Block
  <2>2. got \in [Connectors -> Result] /\ LiveAt(res) \subseteq Connectors
    BY <2>1 DEF LiveAt
  <2>3. job' = [job EXCEPT ![t].todo = LiveAt(res), ![t].got = got]
    BY <1>6 DEF ReleaseBegin
  <2>4. job' \in [Threads -> Job] /\ \A u \in Threads : job'[u].id = job[u].id /\ job'[u].call = job[u].call
    BY <2>2, <2>3 DEF TypeOK, Job
  <2>. QED  BY <1>6, <2>4 DEF TypeOK, Goto, ReleaseBegin
<1>7. ASSUME NEW t \in Threads, ReleaseCall(t) PROVE TypeOK'
  <2>1. PICK c \in job[t].todo :
          LET ref == job[t].got[c].ref
              remove == gw' = [gw EXCEPT ![c] = @ \ {<<blocks[job[t].id].addr, ref>>}]
          IN  /\ \/ gw' = gw /\ Got(t, c, "released", ref)
                 \/ remove /\ Got(t, c, "released", ref)
                 \/ gw' = gw /\ Got(t, c, "failed", ref)
                 \/ remove /\ Got(t, c, "failed", ref)
              /\ UNCHANGED <<now, policy, blocks, store, issued, calls, pc, restarts>>
    BY <1>7 DEF ReleaseCall
  <2>2. c \in Connectors /\ job[t].got[c].ref \in {DryRef} \cup Nat
    BY DEF TypeOK, Job, Result
  <2>3. job' \in [Threads -> Job]
    BY <2>1, <2>2, GotType
  <2>5. \A u \in Threads : job'[u].id = job[u].id /\ job'[u].call = job[u].call
    BY <2>1, <2>2, GotType
  <2>4. gw' \in [Connectors -> SUBSET (Addrs \X Nat)]
    BY <2>1, <2>2 DEF TypeOK
  <2>. QED  BY <2>1, <2>3, <2>4, <2>5 DEF TypeOK
<1>8. ASSUME NEW t \in Threads, ReleaseEnd(t) PROVE TypeOK'
  <2> DEFINE j == job[t]
             b == blocks[j.id]
             res == [c \in Connectors |->
                       IF j.got[c].st = "released" /\ b.res[c].st = "live"
                       THEN [b.res[c] EXCEPT !.st = "released"] ELSE b.res[c]]
             nb == Released(j, b)
  <2>1. j.id \in Ids /\ b \in Block
    BY <1>8 DEF TypeOK, ReleaseEnd
  <2>2. res \in [Connectors -> Result]
    BY <2>1 DEF Block, Result
  <2>3. nb \in Block
    BY <2>1, <2>2 DEF Block, Released, StateAfterRelease
  <2>4. blocks' = [blocks EXCEPT ![j.id] = nb] /\ Persist(j.id)
    BY <1>8 DEF ReleaseEnd
  <2>5. blocks' \in [Ids -> Block] /\ store' \in [Ids -> Block]
    BY <2>1, <2>3, <2>4 DEF TypeOK, Persist
  <2>6. j.due \in SUBSET Ids
    BY DEF TypeOK, Job
  <2>7. [NoJob EXCEPT !.by = "system", !.due = j.due] \in Job
    BY <2>6 DEF Job
  <2>8. /\ job' \in [Threads -> Job]
        /\ pc' \in [Threads -> {"idle", "block", "release", "lift", "sweep"}]
        /\ \A u \in Threads : u # t => job'[u] = job[u] /\ pc'[u] = pc[u]
        /\ pc'[t] \in {"idle", "sweep"}
    BY <1>8, <2>7 DEF TypeOK, ReleaseEnd, Goto, Return
  <2>. QED  BY <1>8, <2>5, <2>8 DEF TypeOK, ReleaseEnd
<1>9. ASSUME NEW t \in Threads, SweepBegin(t) PROVE TypeOK'
  BY <1>9 DEF SweepBegin, TypeOK, Goto, Job, Due
<1>10. ASSUME NEW t \in Threads, SweepNext(t) PROVE TypeOK'
  BY <1>10 DEF SweepNext, TypeOK, Goto, Job
<1>11. ASSUME NEW t \in Threads, SweepEnd(t) PROVE TypeOK'
  BY <1>11 DEF SweepEnd, TypeOK, Goto, Return
<1>12. CASE Tick
  BY <1>12 DEF Tick, TypeOK
<1>13. CASE Restart
  BY <1>13 DEF Restart, TypeOK
<1>14. CASE UNCHANGED vars
  BY <1>14 DEF vars, TypeOK
<1>. QED
  BY <1>1, <1>2, <1>3, <1>4, <1>5, <1>6, <1>7, <1>8, <1>9, <1>10, <1>11, <1>12,
     <1>13, <1>14 DEF Next, Step

(* In every reachable state each variable has its type, and a thread in a  *)
(* call has the number or the block the call is about.                     *)
THEOREM TypeCorrect == Spec => []TypeOK
<1>1. Init => TypeOK
  BY SoarAssumption, InitialTypes DEF Init, TypeOK
<1>. QED  BY <1>1, TypeStep, PTL DEF Spec

-----------------------------------------------------------------------------
(* Steps that leave the recorded blocks alone. *)
LEMMA BlocksKept ==
    ASSUME NEW t \in Threads,
           \/ BlockBegin(t) \/ BlockRefused(t) \/ BlockCall(t) \/ UnblockBegin(t)
           \/ ReleaseBegin(t) \/ ReleaseCall(t)
           \/ SweepBegin(t) \/ SweepNext(t) \/ SweepEnd(t)
    PROVE  blocks' = blocks /\ store' = store
BY DEF BlockBegin, BlockRefused, BlockCall, UnblockBegin, ReleaseBegin, ReleaseCall,
       SweepBegin, SweepNext, SweepEnd

(* A block's record changes only where a call or a release ends. *)
LEMMA BlockEndEffect ==
    ASSUME TypeOK, NEW t \in Threads, BlockEnd(t)
    PROVE  \E id \in Ids : \E b \in Block :
             /\ blocks' = [blocks EXCEPT ![id] = b]
             /\ b.res = MergeResults(blocks[id].res, job[t].got)
             /\ b.state = StateOf(b.res, policy.dry)
             /\ Persist(id)
<1> DEFINE j == job[t]
           id == IF j.id = NoId THEN j.call ELSE j.id
           res == MergeResults(blocks[id].res, j.got)
           b == [addr |-> j.addr, expires |-> j.start + j.ttl,
                 res |-> res, state |-> StateOf(res, policy.dry)]
<1>1. blocks' = [blocks EXCEPT ![id] = b] /\ Persist(id)
  BY DEF BlockEnd, Recorded
<1>2. j \in Job /\ id \in Ids
  BY DEF TypeOK, BlockEnd, Job
<1>3. res \in [Connectors -> Result]
  BY <1>2, MergeType DEF TypeOK, Job, Block
<1>4. b \in Block
  BY <1>2, <1>3, StateType DEF Block, Job
<1>. QED  BY <1>1, <1>2, <1>4

LEMMA ReleaseEndEffect ==
    ASSUME TypeOK, NEW t \in Threads, ReleaseEnd(t)
    PROVE  \E id \in Ids : \E b \in Block :
             /\ id = job[t].id
             /\ blocks' = [blocks EXCEPT ![id] = b]
             /\ b.state \in {blocks[id].state, "released"}
             /\ LiveAt(b.res) = LiveAt(blocks[id].res)
                                  \ {c \in Connectors : job[t].got[c].st = "released"}
             /\ Persist(id)
<1> DEFINE j == job[t]
           o == blocks[j.id]
           res == [c \in Connectors |->
                     IF j.got[c].st = "released" /\ o.res[c].st = "live"
                     THEN [o.res[c] EXCEPT !.st = "released"] ELSE o.res[c]]
           b == Released(j, o)
<1>1. blocks' = [blocks EXCEPT ![j.id] = b] /\ Persist(j.id)
  BY DEF ReleaseEnd
<1>2. j.id \in Ids /\ o \in Block
  BY DEF TypeOK, ReleaseEnd
<1>3. res \in [Connectors -> Result]
  BY <1>2 DEF Block, Result
<1>4. b \in Block /\ b.state \in {o.state, "released"} /\ b.res = res
  BY <1>2, <1>3 DEF Block, Released, StateAfterRelease
<1>5. LiveAt(res) = LiveAt(o.res) \ {c \in Connectors : j.got[c].st = "released"}
  <2>1. \A c \in Connectors :
          res[c].st = "live" <=> o.res[c].st = "live" /\ j.got[c].st # "released"
    BY <1>2 DEF Block, Result
  <2>. QED  BY <2>1 DEF LiveAt
<1>. QED  BY <1>1, <1>2, <1>4, <1>5

-----------------------------------------------------------------------------
(* The stored copies satisfy it too, so that it survives a restart. *)
FailedInv ==
    /\ FailedHoldsNothing
    /\ \A i \in Ids : store[i].state = "failed" => LiveAt(store[i].res) = {}

LEMMA FailedStep == TypeOK /\ FailedInv /\ [Next]_vars => FailedInv'
<1> SUFFICES ASSUME TypeOK, FailedInv, [Next]_vars PROVE FailedInv'
  OBVIOUS
<1> USE DEF FailedInv, FailedHoldsNothing
<1>0. ASSUME NEW id \in Ids, NEW b \in Block, blocks' = [blocks EXCEPT ![id] = b],
             Persist(id), b.state = "failed" => LiveAt(b.res) = {}
      PROVE  FailedInv'
  BY <1>0 DEF TypeOK, Persist
<1>1. ASSUME NEW t \in Threads, BlockEnd(t) PROVE FailedInv'
  BY <1>0, <1>1, BlockEndEffect DEF StateOf
<1>2. ASSUME NEW t \in Threads, ReleaseEnd(t) PROVE FailedInv'
  <2>1. PICK id \in Ids, b \in Block :
             /\ blocks' = [blocks EXCEPT ![id] = b]
             /\ b.state \in {blocks[id].state, "released"}
             /\ LiveAt(b.res) \subseteq LiveAt(blocks[id].res)
             /\ Persist(id)
    BY <1>2, ReleaseEndEffect
  <2>2. b.state = "failed" => LiveAt(b.res) = {}
    BY <2>1
  <2>. QED  BY <1>0, <2>1, <2>2
<1>3. CASE Restart
  BY <1>3 DEF Restart
<1>4. CASE Tick \/ UNCHANGED vars
  BY <1>4 DEF Tick, vars
<1>. QED  BY <1>1, <1>2, <1>3, <1>4, BlocksKept DEF Next, Step

(* A block given up as failed holds no live result, so nothing is left on  *)
(* a connector by a block that neither expiry nor unblock looks at again.  *)
THEOREM FailedCorrect == Spec => []FailedHoldsNothing
<1>1. Init => FailedInv
  BY DEF Init, FailedInv, FailedHoldsNothing, NoBlock
<1>2. FailedInv => FailedHoldsNothing
  BY DEF FailedInv
<1>. QED  BY <1>1, <1>2, FailedStep, TypeCorrect, PTL DEF Spec

-----------------------------------------------------------------------------
LEMMA LiveStep ==
    ASSUME TypeOK, [Next]_vars, restarts' = restarts,
           NEW i \in Ids, NEW c \in LiveAt(blocks[i].res) \ LiveAt(blocks'[i].res)
    PROVE  \E t \in Threads : /\ pc[t] = "lift" /\ job[t].id = i
                              /\ job[t].got[c].st = "released"
<1>1. ASSUME NEW t \in Threads, BlockEnd(t) PROVE FALSE
  <2>1. PICK id \in Ids, b \in Block :
             /\ blocks' = [blocks EXCEPT ![id] = b]
             /\ b.res = MergeResults(blocks[id].res, job[t].got)
    BY <1>1, BlockEndEffect
  <2>2. c \in Connectors /\ blocks[i].res[c].st = "live"
    BY DEF LiveAt
  <2>3. MergeResults(blocks[i].res, job[t].got)[c].st = "live"
    BY <2>2 DEF MergeResults
  <2>. QED  BY <2>1, <2>2, <2>3 DEF TypeOK, LiveAt
<1>2. ASSUME NEW t \in Threads, ReleaseEnd(t)
      PROVE  pc[t] = "lift" /\ job[t].id = i /\ job[t].got[c].st = "released"
  <2>1. PICK id \in Ids, b \in Block :
             /\ id = job[t].id
             /\ blocks' = [blocks EXCEPT ![id] = b]
             /\ LiveAt(b.res) = LiveAt(blocks[id].res)
                                  \ {x \in Connectors : job[t].got[x].st = "released"}
    BY <1>2, ReleaseEndEffect
  <2>2. i = id
    BY <2>1 DEF TypeOK
  <2>3. LiveAt(blocks'[i].res) = LiveAt(b.res)
    BY <2>1, <2>2 DEF TypeOK
  <2>. QED  BY <1>2, <2>1, <2>2, <2>3 DEF ReleaseEnd, LiveAt
<1>3. CASE Restart
  BY <1>3 DEF Restart, TypeOK
<1>4. CASE Tick \/ UNCHANGED vars
  BY <1>4 DEF Tick, vars
<1>. QED  BY <1>1, <1>2, <1>3, <1>4, BlocksKept DEF Next, Step

(* A live result is given up only by a release of that very block whose    *)
(* own call to that connector succeeded.                                   *)
THEOREM LiveKept == Spec => LiveKeptUntilLifted
<1>1. TypeOK /\ [Next]_vars =>
        [restarts' = restarts =>
           \A i \in Ids : \A c \in LiveAt(blocks[i].res) \ LiveAt(blocks'[i].res) :
              \E t \in Threads : /\ pc[t] = "lift" /\ job[t].id = i
                                 /\ job[t].got[c].st = "released"]_vars
  BY LiveStep
<1>. QED  BY <1>1, TypeCorrect, PTL DEF Spec, LiveKeptUntilLifted

-----------------------------------------------------------------------------
(* The charges still counted and the calls that may yet be charged are     *)
(* together within the cap and one call per other thread: the window is    *)
(* checked with at least one thread not yet charging.                      *)
CapInv ==
    /\ IsFiniteSet(issued)
    /\ Cardinality(Recent) + Cardinality(Charging) <= Cap + Cardinality(Threads) - 1

LEMMA Finite ==
    ASSUME CapInv
    PROVE  /\ IsFiniteSet(Recent) /\ Cardinality(Recent) \in Nat
           /\ IsFiniteSet(Charging) /\ Cardinality(Charging) \in Nat
           /\ Cardinality(Charging) <= Cardinality(Threads)
           /\ Cardinality(Threads) \in Nat
<1>1. IsFiniteSet(Recent) /\ IsFiniteSet(Charging)
      /\ Cardinality(Charging) <= Cardinality(Threads)
  BY SoarAssumption, FS_Subset DEF CapInv, Recent, Charging
<1>. QED  BY <1>1, SoarAssumption, FS_CardinalityType

(* A step after which no charge and no charging thread is new. *)
LEMMA CapShrinks ==
    ASSUME CapInv, issued' \subseteq issued, now' >= now, now \in Nat, now' \in Nat,
           TypeOK, Charging' \subseteq Charging
    PROVE  CapInv'
<1>1. Recent' \subseteq Recent
  BY SoarAssumption DEF Recent, TypeOK
<1>2. IsFiniteSet(issued') /\ Cardinality(Recent') <= Cardinality(Recent)
      /\ Cardinality(Charging') <= Cardinality(Charging)
  BY <1>1, Finite, FS_Subset DEF CapInv
<1>3. Cardinality(Recent') \in Nat /\ Cardinality(Charging') \in Nat
  BY <1>1, Finite, FS_Subset, FS_CardinalityType
<1>. QED  BY <1>2, <1>3, Finite, SoarAssumption DEF CapInv

LEMMA CapStep == TypeOK /\ CapInv /\ [Next]_vars => CapInv'
<1> SUFFICES ASSUME TypeOK, CapInv, [Next]_vars PROVE CapInv'
  OBVIOUS
<1>1. ASSUME NEW t \in Threads, BlockBegin(t) PROVE CapInv'
  <2>1. Cardinality(Recent) < Cap /\ issued' = Recent /\ now' = now
    BY <1>1 DEF BlockBegin, UnderCap
  <2>2. Recent' = Recent /\ IsFiniteSet(issued')
    BY <2>1, Finite DEF Recent
  <2>3. Cardinality(Charging') <= Cardinality(Threads) /\ Cardinality(Charging') \in Nat
    BY SoarAssumption, FS_Subset, FS_CardinalityType DEF Charging
  <2>. QED  BY <2>1, <2>2, <2>3, Finite, SoarAssumption DEF CapInv
<1>2. ASSUME NEW t \in Threads, BlockEnd(t) PROVE CapInv'
  <2> DEFINE charge == [call |-> job[t].call, at |-> job[t].start]
  <2>1. /\ issued' = issued \/ issued' = issued \cup {charge}
        /\ pc[t] = "block" /\ pc' = [pc EXCEPT ![t] = "idle"] /\ now' = now
    BY <1>2 DEF BlockEnd, Return, Goto
  <2>2. Charging' = Charging \ {t} /\ t \in Charging
    BY <2>1 DEF Charging, TypeOK
  <2>3. Cardinality(Charging') = Cardinality(Charging) - 1
    BY <2>2, Finite, FS_RemoveElement
  <2>4. Recent' \subseteq Recent \cup {charge} /\ IsFiniteSet(issued')
    BY <2>1, FS_AddElement DEF Recent, CapInv
  <2>5. IsFiniteSet(Recent \cup {charge})
        /\ Cardinality(Recent \cup {charge}) <= Cardinality(Recent) + 1
    <3>1. IsFiniteSet(Recent) /\ Cardinality(Recent) \in Nat
      BY Finite
    <3>2. /\ IsFiniteSet(Recent \cup {charge})
          /\ Cardinality(Recent \cup {charge}) =
               IF charge \in Recent THEN Cardinality(Recent) ELSE Cardinality(Recent) + 1
      BY ONLY <3>1, FS_AddElement
    <3>. QED  BY <3>1, <3>2
  <2>6. Cardinality(Recent') \in Nat /\ Cardinality(Recent') <= Cardinality(Recent \cup {charge})
    BY <2>4, <2>5, FS_Subset, FS_CardinalityType
  <2>7. Cardinality(Recent \cup {charge}) \in Nat
    BY <2>5, FS_CardinalityType
  <2>. QED  BY <2>3, <2>4, <2>5, <2>6, <2>7, Finite, SoarAssumption DEF CapInv
<1>3. ASSUME NEW t \in Threads, BlockRefused(t) PROVE CapInv'
  <2>1. issued' \subseteq issued /\ now' = now /\ Charging' = Charging
    BY <1>3 DEF BlockRefused, Recent, Charging
  <2>. QED  BY <2>1, CapShrinks DEF TypeOK
<1>4. ASSUME NEW t \in Threads,
             \/ BlockCall(t) \/ UnblockBegin(t) \/ ReleaseBegin(t) \/ ReleaseCall(t)
             \/ ReleaseEnd(t) \/ SweepBegin(t) \/ SweepNext(t) \/ SweepEnd(t)
      PROVE  CapInv'
  <2>1. issued' = issued /\ now' = now
    BY <1>4 DEF BlockCall, UnblockBegin, ReleaseBegin, ReleaseCall, ReleaseEnd,
                SweepBegin, SweepNext, SweepEnd
  <2>2. pc' = pc \/ \E l \in {"idle", "release", "lift", "sweep"} : Goto(t, l)
    BY <1>4 DEF BlockCall, UnblockBegin, ReleaseBegin, ReleaseCall, ReleaseEnd,
                SweepBegin, SweepNext, SweepEnd, Return
  <2>3. Charging' \subseteq Charging
    BY <2>2 DEF Charging, Goto, TypeOK
  <2>. QED  BY <2>1, <2>3, CapShrinks DEF TypeOK
<1>5. CASE Tick
  <2>1. issued' = issued /\ now' = now + 1 /\ Charging' = Charging
    BY <1>5 DEF Tick, Charging
  <2>. QED  BY <2>1, CapShrinks DEF TypeOK
<1>6. CASE Restart
  <2>1. issued' = {} /\ now' = now /\ Charging' = {}
    BY <1>6 DEF Restart, Charging
  <2>. QED  BY <2>1, CapShrinks DEF TypeOK
<1>7. CASE UNCHANGED vars
  <2>1. issued' = issued /\ now' = now /\ Charging' = Charging
    BY <1>7 DEF vars, Charging
  <2>. QED  BY <2>1, CapShrinks DEF TypeOK
<1>. QED  BY <1>1, <1>2, <1>3, <1>4, <1>5, <1>6, <1>7 DEF Next, Step

(* The hourly window holds at most the cap and one charge per other thread *)
(* that was past the check when the last free place was taken.             *)
THEOREM CapCorrect == Spec => []ChargesNearCap
<1>1. Init => CapInv
  <2> SUFFICES ASSUME Init PROVE CapInv
    OBVIOUS
  <2>1. issued = {} /\ Recent = {} /\ Charging = {}
    BY DEF Init, Recent, Charging
  <2>2. Cardinality(Recent) = 0 /\ Cardinality(Charging) = 0 /\ IsFiniteSet(issued)
    BY <2>1, FS_EmptySet
  <2>3. Cardinality(Threads) \in Nat
    BY SoarAssumption, FS_CardinalityType
  <2>4. Cap \in Nat /\ Cap >= 1
    BY SoarAssumption
  <2>. QED  BY <2>2, <2>3, <2>4 DEF CapInv
<1>2. CapInv => ChargesNearCap
  BY Finite, SoarAssumption DEF CapInv, ChargesNearCap
<1>. QED  BY <1>1, <1>2, CapStep, TypeCorrect, PTL DEF Spec

-----------------------------------------------------------------------------
(* A dry-run policy changes nothing on any connector, whichever records    *)
(* (its own or real ones from before) the manager is working on.           *)
THEOREM DryRun == Spec => DryRunChangesNothing
<1>1. [Next]_vars => [policy.dry => gw' = gw]_vars
  <2> SUFFICES ASSUME Next, policy.dry PROVE gw' = gw
    BY DEF vars
  <2>1. ASSUME NEW t \in Threads, BlockCall(t) PROVE gw' = gw
    BY <2>1 DEF BlockCall
  <2>2. ASSUME NEW t \in Threads, ReleaseCall(t) PROVE gw' = gw
    BY <2>2 DEF ReleaseCall, Skips
  <2>. QED
    BY <2>1, <2>2 DEF Next, Step, BlockBegin, BlockRefused, BlockEnd, UnblockBegin,
       ReleaseBegin, ReleaseEnd, SweepBegin, SweepNext, SweepEnd, Tick, Restart
<1>. QED  BY <1>1, PTL DEF Spec, DryRunChangesNothing
-----------------------------------------------------------------------------
(***************************************************************************)
(* The connectors the manager calls that keep a whole list of blocked      *)
(* addresses (DenyList), for any number of callers, addresses and calls.   *)
(***************************************************************************)
LEMMA ListCallType ==
    ASSUME ListTypeOK, NEW t \in Callers, step[t] # "idle"
    PROVE  /\ call[t] \in C!Call /\ call[t].st = "pending"
           /\ \A S \in SUBSET IPs : C!Effect(call[t], S) \in SUBSET IPs
BY DEF ListTypeOK, C!Pending, C!Call, C!Effect

(* Ending a call keeps the part of the type invariant about calls. *)
LEMMA ListFinishType ==
    ASSUME ListTypeOK, NEW t \in Callers, step[t] # "idle",
           NEW st \in {"ok", "failed"}, Finish(t, st), kind' = kind, reloads' = reloads
    PROVE  /\ call' \in [Callers -> C!Call \cup {C!NoCall}]
           /\ step' \in [Callers -> {"idle", "want", "write", "reload"}]
           /\ \A u \in Callers : /\ (step'[u] # "idle") <=> C!Pending(u)'
                                 /\ step'[u] = "reload" => kind' = "nginx" /\ reloads'
<1>1. call[t] \in C!Call
  BY ListCallType
<1>2. [call[t] EXCEPT !.st = st] \in C!Call
  BY <1>1 DEF C!Call
<1>3. call' = [call EXCEPT ![t] = [call[t] EXCEPT !.st = st]]
  BY DEF Finish, C!Answer
<1>4. step' = [step EXCEPT ![t] = "idle"]
  BY DEF Finish, StepTo
<1>5. [call[t] EXCEPT !.st = st].st = st
  BY <1>1 DEF C!Call
<1>. QED
  BY <1>2, <1>3, <1>4, <1>5 DEF ListTypeOK, C!Pending

LEMMA ListTypeStep ==
    ListTypeOK /\ [ListNext]_listVars => ListTypeOK'
<1> SUFFICES ASSUME ListTypeOK, [ListNext]_listVars PROVE ListTypeOK'
  OBVIOUS
<1>1. ASSUME NEW t \in Callers, Begin(t) PROVE ListTypeOK'
  <2>1. PICK c \in C!Call : c.st = "pending" /\ call' = [call EXCEPT ![t] = c]
    BY <1>1 DEF Begin, C!Begin
  <2>2. c # C!NoCall
    BY DEF C!Call, C!NoCall
  <2>3. enforced' = enforced /\ step' = [step EXCEPT ![t] = "want"]
    BY <1>1 DEF Begin, StepTo
  <2>4. made' \in 0 .. ListCalls /\ made < made'
    BY <1>1, DenyListAssumption DEF Begin, ListTypeOK
  <2>5. \A u \in Callers : (step'[u] # "idle") <=> C!Pending(u)'
    BY <2>1, <2>2, <2>3 DEF ListTypeOK, C!Pending
  <2>6. plugin' \in 0 .. made' /\ seenPlugin' \in [Callers -> 0 .. made']
    BY <1>1, <2>4, DenyListAssumption DEF Begin, ListTypeOK
  <2>. QED
    BY <1>1, <2>1, <2>3, <2>4, <2>5, <2>6 DEF Begin, ListTypeOK
<1>2. ASSUME NEW t \in Callers, Read(t) PROVE ListTypeOK'
  <2>1. CASE \E st \in {"ok", "failed"} : Finish(t, st) /\ UNCHANGED <<seen, seenPlugin>>
    BY <1>2, <2>1, ListFinishType DEF Read, ListTypeOK
  <2>2. CASE /\ seen' = [seen EXCEPT ![t] = listed]
             /\ seenPlugin' = [seenPlugin EXCEPT ![t] = plugin]
             /\ StepTo(t, "write") /\ UNCHANGED call
    BY <1>2, <2>2 DEF Read, ListTypeOK, StepTo, C!Pending
  <2>. QED  BY <1>2, <2>1, <2>2 DEF Read
<1>3. ASSUME NEW t \in Callers, Write(t) PROVE ListTypeOK'
  <2>1. Wanted(t) \subseteq IPs
    BY <1>3, ListCallType DEF Write, Wanted, ListTypeOK
  <2>2. PluginFor(t) \in 0 .. made
    BY DenyListAssumption DEF PluginFor, NoPlugin, ListTypeOK
  <2>3. \E st \in {"ok", "failed"} : Finish(t, st)
    BY <1>3 DEF Write
  <2>. QED  BY <1>3, <2>1, <2>2, <2>3, ListFinishType DEF Write, ListTypeOK
<1>4. ASSUME NEW t \in Callers, WriteFails(t) PROVE ListTypeOK'
  <2>1. \E st \in {"ok", "failed"} : Finish(t, st)
    BY <1>4 DEF WriteFails
  <2>. QED  BY <1>4, <2>1, ListFinishType DEF WriteFails, ListTypeOK
<1>5. ASSUME NEW t \in Callers, WriteFile(t) PROVE ListTypeOK'
  <2>1. Wanted(t) \subseteq IPs
    BY <1>5, ListCallType DEF WriteFile, Wanted, ListTypeOK
  <2>2. CASE reloads
    BY <1>5, <2>1, <2>2 DEF WriteFile, ListTypeOK, StepTo, C!Pending
  <2>3. CASE ~reloads
    <3>1. (\E st \in {"ok", "failed"} : Finish(t, st)) /\ step[t] # "idle"
      BY <1>5, <2>3 DEF WriteFile
    <3>. QED  BY <1>5, <2>1, <3>1, ListFinishType DEF WriteFile, ListTypeOK
  <2>. QED  BY <2>2, <2>3
<1>6. ASSUME NEW t \in Callers, Reload(t) PROVE ListTypeOK'
  <2>1. Finish(t, "ok") /\ step[t] # "idle"
    BY <1>6 DEF Reload
  <2>. QED  BY <1>6, <2>1, ListFinishType DEF Reload, ListTypeOK
<1>7. ASSUME NEW t \in Callers, ReloadFails(t) PROVE ListTypeOK'
  <2>1. Finish(t, "failed") /\ step[t] # "idle"
    BY <1>7 DEF ReloadFails
  <2>2. listed' \subseteq IPs /\ enforced' \subseteq IPs
    BY <1>7 DEF ReloadFails, Restored, ListTypeOK
  <2>. QED  BY <1>7, <2>1, <2>2, ListFinishType DEF ReloadFails, ListTypeOK
<1>8. ASSUME NEW t \in Callers, Crash(t) PROVE ListTypeOK'
  <2> DEFINE P == {u \in Callers : Home[u] = Home[t] /\ step[u] # "idle"}
  <2>1. /\ step' = [u \in Callers |-> IF u \in P THEN "idle" ELSE step[u]]
        /\ call' = [u \in Callers |-> IF u \in P THEN [call[u] EXCEPT !.st = "failed"]
                                      ELSE call[u]]
    BY <1>8 DEF Crash
  <2>2. \A u \in P : call[u] \in C!Call
    BY ListCallType
  <2>3. \A u \in P : /\ [call[u] EXCEPT !.st = "failed"] \in C!Call
                     /\ [call[u] EXCEPT !.st = "failed"].st = "failed"
    BY <2>2 DEF C!Call
  <2>. HIDE DEF P
  <2>4. call' \in [Callers -> C!Call \cup {C!NoCall}]
    BY <2>1, <2>3 DEF ListTypeOK
  <2>5. \A u \in Callers : (step'[u] # "idle") <=> C!Pending(u)'
    BY <2>1, <2>3 DEF ListTypeOK, C!Pending
  <2>. QED  BY <1>8, <2>1, <2>4, <2>5 DEF Crash, ListTypeOK
<1>9. CASE OthersReload
  BY <1>9 DEF OthersReload, ListTypeOK, C!Pending
<1>10. CASE UNCHANGED listVars
  BY <1>10 DEF ListTypeOK, listVars, C!Pending
<1>. QED
  BY <1>1, <1>2, <1>3, <1>4, <1>5, <1>6, <1>7, <1>8, <1>9, <1>10 DEF ListNext

LEMMA ListInitType ==
    ListInit => ListTypeOK
BY DenyListAssumption DEF ListInit, ListTypeOK, NoPlugin, C!Pending

(* Type correctness of the connectors: a call is pending exactly while its *)
(* goroutine is inside Block or Unblock.                                   *)
THEOREM ListTypeCorrect ==
    ListSpec => []ListTypeOK
BY ListInitType, ListTypeStep, PTL DEF ListSpec

-----------------------------------------------------------------------------
(***************************************************************************)
(* One platform process, and an nginx whose reloads either happen or       *)
(* report an error and whose file can be restored.                         *)
(***************************************************************************)
OneProcess ==
    /\ \A t, u \in Callers : Home[t] = Home[u]
    /\ "nginx" \notin Cut /\ RestoreFails = FALSE

ListWorking(t) == step[t] \in {"write", "reload"}

(* The inductive invariant: at most one call is past its read; what it     *)
(* read is still the list; and only during a reload does the file differ   *)
(* from what nginx enforces.                                               *)
ListExclusive == \A t, u \in Callers : ListWorking(t) /\ ListWorking(u) => t = u
ListFresh ==
    \A t \in Callers : step[t] = "write" => seen[t] = listed /\ seenPlugin[t] = plugin
ListReloading ==
    \A t \in Callers : step[t] = "reload" => listed = Wanted(t) /\ enforced = seen[t]
ListInv == ListTypeOK /\ ListExclusive /\ ListFresh /\ ListReloading /\ FileAgrees

LEMMA ListInvInit ==
    ListInit => ListInv
BY ListInitType
   DEF ListInit, ListInv, ListExclusive, ListFresh, ListReloading, FileAgrees, ListWorking

LEMMA ListInvStep ==
    ASSUME OneProcess
    PROVE  ListInv /\ [ListNext]_listVars => ListInv'
<1> SUFFICES ASSUME ListInv, [ListNext]_listVars PROVE ListInv'
  OBVIOUS
<1>0. ListTypeOK' /\ ListTypeOK
  BY ListTypeStep DEF ListInv
<1>1. ASSUME NEW t \in Callers, Begin(t) PROVE ListInv'
  <2>1. /\ step[t] = "idle" /\ step' = [step EXCEPT ![t] = "want"]
        /\ UNCHANGED <<kind, reloads, listed, plugin, enforced, seen, seenPlugin>>
    BY <1>1 DEF Begin, StepTo
  <2>2. \A u \in Callers : u # t => call'[u] = call[u]
    BY <1>0, <1>1 DEF Begin, C!Begin, ListTypeOK
  <2>3. \A u \in Callers : step'[u] = "reload" => Wanted(u)' = Wanted(u)
    BY <1>0, <2>1, <2>2 DEF Wanted, C!Effect, ListTypeOK
  <2>. QED
    BY <1>0, <2>1, <2>3
    DEF ListInv, ListExclusive, ListFresh, ListReloading, FileAgrees, ListWorking, ListTypeOK
<1>2. ASSUME NEW t \in Callers, Read(t) PROVE ListInv'
  <2>1. \A u \in Callers : ~ListWorking(u)
    BY <1>2 DEF OneProcess, Read, Free, ListWorking
  <2>2. \/ step' = [step EXCEPT ![t] = "idle"] /\ UNCHANGED <<seen, seenPlugin>>
        \/ /\ step' = [step EXCEPT ![t] = "write"]
           /\ seen' = [seen EXCEPT ![t] = listed]
           /\ seenPlugin' = [seenPlugin EXCEPT ![t] = plugin]
    BY <1>2 DEF Read, Finish, StepTo
  <2>3. UNCHANGED <<kind, reloads, listed, plugin, enforced>>
    BY <1>2 DEF Read
  <2>. QED
    BY <1>0, <2>1, <2>2, <2>3
    DEF ListInv, ListExclusive, ListFresh, ListReloading, FileAgrees, ListWorking, ListTypeOK
<1>3. ASSUME NEW t \in Callers, Write(t) PROVE ListInv'
  <2>1. step' = [step EXCEPT ![t] = "idle"] /\ listed' = enforced'
    BY <1>3 DEF Write, Finish, StepTo
  <2>2. \A u \in Callers : u # t => ~ListWorking(u)
    BY <1>3 DEF ListInv, ListExclusive, Write, ListWorking
  <2>. QED
    BY <1>0, <2>1, <2>2
    DEF ListInv, ListExclusive, ListFresh, ListReloading, FileAgrees, ListWorking, ListTypeOK
<1>4. ASSUME NEW t \in Callers, WriteFails(t) PROVE ListInv'
  <2>1. /\ step' = [step EXCEPT ![t] = "idle"]
        /\ UNCHANGED <<kind, reloads, listed, plugin, enforced, seen, seenPlugin>>
    BY <1>4 DEF WriteFails, Finish, StepTo
  <2>2. \A u \in Callers : u # t => ~ListWorking(u)
    BY <1>4 DEF ListInv, ListExclusive, WriteFails, ListWorking
  <2>. QED
    BY <1>0, <1>4, <2>1, <2>2
   
    DEF ListInv, ListExclusive, ListFresh, ListReloading, ListWorking,
        FileAgrees, ListTypeOK, WriteFails
<1>5. ASSUME NEW t \in Callers, WriteFile(t) PROVE ListInv'
  <2>2. \A u \in Callers : u # t => ~ListWorking(u)
    BY <1>5 DEF ListInv, ListExclusive, WriteFile, ListWorking
  <2>5. CASE reloads
    <3>1. /\ step' = [step EXCEPT ![t] = "reload"]
          /\ listed' = Wanted(t)
          /\ UNCHANGED <<kind, reloads, plugin, enforced, seen, seenPlugin, call>>
      BY <1>5, <2>5 DEF WriteFile, StepTo
    <3>3. Wanted(t)' = Wanted(t)
      BY <3>1 DEF Wanted, C!Effect
    <3>4. enforced = listed /\ seen[t] = listed
      BY <1>5, <2>2, <2>5 DEF ListInv, FileAgrees, ListFresh, WriteFile, ListWorking
    <3>. QED
      BY <1>0, <2>2, <3>1, <3>3, <3>4
      DEF ListInv, ListExclusive, ListFresh, ListReloading, FileAgrees, ListWorking, ListTypeOK
  <2>6. CASE ~reloads
    <3>1. /\ step' = [step EXCEPT ![t] = "idle"] /\ kind' = "nginx" /\ ~reloads'
          /\ UNCHANGED <<plugin, enforced, seen, seenPlugin>>
      BY <1>5, <2>6 DEF WriteFile, Finish, StepTo
    <3>. QED
      BY <1>0, <2>2, <3>1
      DEF ListInv, ListExclusive, ListFresh, ListReloading, FileAgrees, ListWorking, ListTypeOK
  <2>. QED  BY <2>5, <2>6
<1>6. ASSUME NEW t \in Callers, Reload(t) PROVE ListInv'
  <2>1. /\ step' = [step EXCEPT ![t] = "idle"]
        /\ enforced' = listed /\ listed' = listed
    BY <1>6 DEF Reload, Finish, StepTo
  <2>2. \A u \in Callers : u # t => ~ListWorking(u)
    BY <1>6 DEF ListInv, ListExclusive, Reload, ListWorking
  <2>. QED
    BY <1>0, <2>1, <2>2
    DEF ListInv, ListExclusive, ListFresh, ListReloading, FileAgrees, ListWorking, ListTypeOK
<1>7. ASSUME NEW t \in Callers, ReloadFails(t) PROVE ListInv'
  <2>1. step' = [step EXCEPT ![t] = "idle"] /\ listed' = seen[t] /\ enforced' = enforced
    BY <1>0, <1>7
    DEF ReloadFails, Finish, StepTo, Restored, OneProcess, ListTypeOK
  <2>2. \A u \in Callers : u # t => ~ListWorking(u)
    BY <1>7 DEF ListInv, ListExclusive, ReloadFails, ListWorking
  <2>3. enforced = seen[t]
    BY <1>7 DEF ListInv, ListReloading, ReloadFails
  <2>. QED
    BY <1>0, <2>1, <2>2, <2>3
    DEF ListInv, ListExclusive, ListFresh, ListReloading, FileAgrees, ListWorking, ListTypeOK
<1>8. ASSUME NEW t \in Callers, Crash(t) PROVE ListInv'
  <2>1. /\ UNCHANGED <<kind, reloads, listed, plugin, enforced, seen, seenPlugin>>
        /\ \A u \in Callers : step'[u] = "idle" \/ (step'[u] = step[u] /\ call'[u] = call[u])
    BY <1>8 DEF Crash
  <2>2. \A u \in Callers : step[u] # "reload"
    BY <1>0, <1>8 DEF Crash, OneProcess, ListTypeOK
  <2>. QED
    BY <1>0, <2>1, <2>2
    DEF ListInv, ListExclusive, ListFresh, ListReloading, FileAgrees, ListWorking, ListTypeOK
<1>9. CASE OthersReload
  <2>1. /\ UNCHANGED <<kind, reloads, listed, plugin, step, seen, seenPlugin>>
        /\ kind = "nginx" /\ ~reloads /\ \A u \in Callers : step[u] # "reload"
    BY <1>0, <1>9 DEF OthersReload, ListTypeOK
  <2>. QED
    BY <1>0, <2>1
    DEF ListInv, ListExclusive, ListFresh, ListReloading, FileAgrees, ListWorking
<1>10. CASE UNCHANGED listVars
  BY <1>0, <1>10
  DEF ListInv, ListExclusive, ListFresh, ListReloading, ListWorking,
      FileAgrees, listVars, Wanted, C!Effect
<1>. QED
  BY <1>1, <1>2, <1>3, <1>4, <1>5, <1>6, <1>7, <1>8, <1>9, <1>10 DEF ListNext

LEMMA ListInvCorrect ==
    ASSUME OneProcess
    PROVE  ListSpec => []ListInv
<1>1. ListInv /\ [ListNext]_listVars => ListInv'
  BY ListInvStep
<1>. QED  BY <1>1, ListInvInit, PTL DEF ListSpec

(* The include file and the running configuration of an nginx that the     *)
(* platform reloads agree whenever no reload is under way (nginx.go:19-20).*)
THEOREM ListFileCorrect ==
    ASSUME OneProcess
    PROVE  ListSpec => []FileAgrees
<1>1. ListInv => FileAgrees
  BY DEF ListInv
<1>. QED  BY <1>1, ListInvCorrect, PTL

-----------------------------------------------------------------------------
(* What the connector answers for is the list, whenever no reload is under *)
(* way.                                                                    *)
LEMMA ListInCharge ==
    ASSUME ListInv, \A u \in Callers : step[u] # "reload"
    PROVE  InCharge = listed
BY DEF ListInv, FileAgrees, InCharge

LEMMA ListStepRefines ==
    ASSUME OneProcess
    PROVE  ListInv /\ [ListNext]_listVars => [C!CNext]_(C!cvars)
<1> SUFFICES ASSUME ListInv, [ListNext]_listVars PROVE C!CNext \/ UNCHANGED C!cvars
  OBVIOUS
<1> USE DEF C!cvars
<1>0. ListTypeOK
  BY DEF ListInv
<1>1. ASSUME NEW t \in Callers, Begin(t) PROVE C!Begin(t)
  BY <1>1 DEF Begin
<1>2. ASSUME NEW t \in Callers, Read(t)
      PROVE C!Succeed(t) \/ C!Fail(t) \/ UNCHANGED C!cvars
  <2>1. C!Pending(t) /\ InCharge' = InCharge
    BY <1>0, <1>2 DEF Read, ListTypeOK, InCharge
  <2>2. InCharge = listed
    <3>1. \A u \in Callers : step[u] # "reload"
      BY <1>2 DEF OneProcess, Read, Free
    <3>. QED  BY <3>1, ListInCharge
  <2>. QED  BY <1>2, <2>1, <2>2 DEF Read, Finish, C!Succeed, C!Fail
<1>3. ASSUME NEW t \in Callers, Write(t) PROVE C!Succeed(t) \/ C!Fail(t)
  <2>1. C!Pending(t)
    BY <1>0, <1>3 DEF Write, ListTypeOK
  <2>2. seen[t] = InCharge
    <3>1. \A u \in Callers : step[u] # "reload"
      BY <1>0, <1>3 DEF Write, ListTypeOK
    <3>. QED  BY <1>3, <3>1, ListInCharge DEF ListInv, ListFresh, Write
  <2>3. InCharge' = C!Effect(call[t], InCharge)
    BY <1>3, <2>2 DEF Write, Wanted, InCharge
  <2>. QED  BY <1>3, <2>1, <2>3 DEF Write, Finish, C!Succeed, C!Fail
<1>4. ASSUME NEW t \in Callers, WriteFails(t) PROVE C!Fail(t)
  <2>1. C!Pending(t) /\ InCharge' = InCharge
    BY <1>0, <1>4 DEF WriteFails, ListTypeOK, InCharge
  <2>2. ~Gone(t)
    BY <1>4 DEF ListInv, ListFresh, WriteFails, Gone, Accepted
  <2>. QED  BY <1>4, <2>1, <2>2 DEF WriteFails, Finish, C!Fail
<1>5. ASSUME NEW t \in Callers, WriteFile(t) PROVE C!Succeed(t) \/ UNCHANGED C!cvars
  <2>1. CASE reloads
    BY <1>5, <2>1 DEF WriteFile, InCharge
  <2>2. CASE ~reloads
    <3>1. C!Pending(t) /\ seen[t] = listed /\ kind \notin Cut
      BY <1>0, <1>5 DEF WriteFile, ListTypeOK, ListInv, ListFresh, OneProcess
    <3>2. InCharge = listed /\ InCharge' = C!Effect(call[t], InCharge)
      BY <1>5, <2>2, <3>1 DEF WriteFile, InCharge, Wanted
    <3>. QED  BY <1>5, <2>2, <3>1, <3>2 DEF WriteFile, Finish, C!Succeed
  <2>. QED  BY <2>1, <2>2
<1>6. ASSUME NEW t \in Callers, Reload(t) PROVE C!Succeed(t)
  <2>1. C!Pending(t)
    BY <1>0, <1>6 DEF Reload, ListTypeOK
  <2>2. InCharge' = C!Effect(call[t], InCharge)
    BY <1>0, <1>6 DEF ListInv, ListReloading, Reload, Wanted, InCharge, ListTypeOK
  <2>. QED  BY <1>6, <2>1, <2>2 DEF Reload, Finish, C!Succeed
<1>7. ASSUME NEW t \in Callers, ReloadFails(t) PROVE C!Fail(t)
  <2>1. C!Pending(t) /\ kind \notin Cut /\ reloads
    BY <1>0, <1>7 DEF ReloadFails, ListTypeOK, OneProcess
  <2>2. InCharge' = InCharge
    BY <1>7, <2>1 DEF ReloadFails, InCharge
  <2>. QED  BY <1>7, <2>1, <2>2 DEF ReloadFails, Finish, C!Fail
<1>8. ASSUME NEW t \in Callers, Crash(t) PROVE C!Abandon
  <2> DEFINE P == {u \in Callers : Home[u] = Home[t] /\ step[u] # "idle"}
  <2>1. \A u \in P : C!Pending(u)
    BY <1>0 DEF ListTypeOK
  <2>2. InCharge' = InCharge
    BY <1>8 DEF Crash, InCharge
  <2>. QED  BY <1>8, <2>1, <2>2 DEF Crash, C!Abandon
<1>9. CASE OthersReload
  BY <1>9 DEF OthersReload, InCharge
<1>10. CASE UNCHANGED listVars
  BY <1>10 DEF listVars, InCharge
<1>. QED
  BY <1>1, <1>2, <1>3, <1>4, <1>5, <1>6, <1>7, <1>8, <1>9, <1>10 DEF ListNext, C!CNext

(* One platform process's connector keeps the promise of soar.Adapter: its *)
(* calls take effect one at a time, a successful one has had its effect,   *)
(* and none undoes another's (soar.go:48-60).  Without a reload command    *)
(* nginx's effect is the one on its file.                                  *)
THEOREM ListRefines ==
    ASSUME OneProcess
    PROVE  ListSpec => KeepsPromise
<1>1. ListInit => C!CInit
  BY DEF ListInit, C!CInit, InCharge
<1>2. ListInv /\ [ListNext]_listVars => [C!CNext]_(C!cvars)
  BY ListStepRefines
<1>. QED
  BY <1>1, <1>2, ListInvCorrect, PTL DEF ListSpec, KeepsPromise, C!CSpec
=============================================================================
