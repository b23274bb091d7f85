-------------------------------- MODULE Soar --------------------------------
(***************************************************************************)
(* The SOAR manager (platform/internal/soar/soar.go): the life of a block  *)
(* from the request that issues it to the pass that lifts it.              *)
(*                                                                         *)
(* A thread is a goroutine that serves one call at a time: an operator's   *)
(* Block or Unblock, or the ticker's ExpireDue.  The manager's mutex is    *)
(* held only in short sections; the connector calls between them are made  *)
(* without it.  Each section, and each connector call, is one action, so   *)
(* every interleaving the code allows is a behaviour.                      *)
(*                                                                         *)
(* A Block call takes a number when it passes the guardrails.  The block   *)
(* it creates is known by that number (the code's "blk-<time>-<seq>": both *)
(* order blocks by creation), and so is the rule a rule-based connector    *)
(* creates for it.                                                         *)
(***************************************************************************)
EXTENDS Integers, FiniteSets

CONSTANTS
    Threads,       \* goroutines that can be inside the manager
    Addrs,         \* addresses that can be blocked
    Connectors,    \* every connector a configuration may name
    RuleConns,     \* those that create one rule per call (Aliyun WAF)
    Policies,      \* configurations a (re)start may come up with
    TTLInputs,     \* lifetimes a request may ask for (0: the default)
    DefaultTTL, MinTTL, MaxTTL,
    Hour,          \* length of the rate window
    Cap,           \* MaxBlocksPerHour
    LostReplies,   \* TRUE: a connector may act and its answer be lost
    SaveFails,     \* TRUE: SaveDocuments may fail
    MaxCalls, MaxTime, MaxRestarts    \* bounds of the model

Ids == 1 .. MaxCalls
NoId == 0
NoRef == 0
DryRef == -1      \* the reference "dry-run"

Policy == [dry : BOOLEAN, conns : SUBSET Connectors, protected : SUBSET Addrs]

ASSUME SoarAssumption ==
    /\ IsFiniteSet(Threads) /\ Addrs # {}
    /\ RuleConns \subseteq Connectors
    /\ Policies # {} /\ Policies \subseteq Policy
    /\ TTLInputs \subseteq Nat
    /\ MinTTL \in Nat \ {0} /\ MaxTTL \in Nat /\ DefaultTTL \in MinTTL .. MaxTTL
    /\ Hour \in Nat \ {0} /\ Cap \in Nat \ {0}
    /\ LostReplies \in BOOLEAN /\ SaveFails \in BOOLEAN
    /\ MaxCalls \in Nat /\ MaxTime \in Nat /\ MaxRestarts \in Nat

VARIABLES
    now,       \* the clock
    policy,    \* Manager.policy and Manager.byName
    blocks,    \* Manager.blocks
    store,     \* the document store's copy of each block
    issued,    \* Manager.issued: the Block calls charged to the hourly cap
    calls,     \* number of Block calls that passed the guardrails
    pc, job,   \* what each thread is doing, and its local variables
    gw,        \* the rules each connector enforces
    restarts   \* number of restarts (a bound)

vars == <<now, policy, blocks, store, issued, calls, pc, job, gw, restarts>>

-----------------------------------------------------------------------------
(* What one connector did with a block (Result).  "live" is OK and not     *)
(* Released: the manager believes the connector enforces it.               *)

Result == [st : {"none", "failed", "live", "released"}, ref : {DryRef} \cup Nat]
NoResult == [st |-> "none", ref |-> NoRef]
NoResults == [c \in Connectors |-> NoResult]
LiveAt(res) == {c \in Connectors : res[c].st = "live"}

Block == [addr : Addrs, expires : Nat, res : [Connectors -> Result],
          state : {"none", "active", "released", "failed", "dry_run"}]
SomeAddr == CHOOSE a \in Addrs : TRUE
NoBlock == [addr |-> SomeAddr, expires |-> 0, res |-> NoResults, state |-> "none"]
InForce(b) == b.state \in {"active", "dry_run"}

Job == [by : {"operator", "system"}, addr : Addrs, id : Ids \cup {NoId},
        ttl : Nat, start : Nat, call : Ids \cup {NoId},
        todo : SUBSET Connectors, got : [Connectors -> Result], due : SUBSET Ids]
NoJob == [by |-> "operator", addr |-> SomeAddr, id |-> NoId,
          ttl |-> 0, start |-> 0, call |-> NoId,
          todo |-> {}, got |-> NoResults, due |-> {}]

(* Mutant of MergeResults: the newest result always wins. *)
MergeNewest(old, fresh) ==
    [c \in Connectors |-> IF fresh[c].st = "none" THEN old[c] ELSE fresh[c]]

(* A later result of a connector replaces an earlier one, except that a    *)
(* failed retry never hides a block that is still live.                    *)
MergeResults(old, fresh) ==
    [c \in Connectors |->
        IF fresh[c].st = "none" \/ (old[c].st = "live" /\ fresh[c].st # "live")
        THEN old[c] ELSE fresh[c]]

StateOf(res, dry) ==
    IF LiveAt(res) = {} THEN "failed" ELSE IF dry THEN "dry_run" ELSE "active"

(* Mutant of Recorded: the state is taken from the new results alone. *)
RecordedFresh(j, b) ==
    [addr |-> j.addr, expires |-> j.start + j.ttl,
     res |-> MergeResults(b.res, j.got), state |-> StateOf(j.got, policy.dry)]

(* What a finished Block call leaves on the block it works on. *)
Recorded(j, b) ==
    LET res == MergeResults(b.res, j.got)
    IN  [addr |-> j.addr, expires |-> j.start + j.ttl,
         res |-> res, state |-> StateOf(res, policy.dry)]

(* Mutant of StateAfterRelease: the state is never moved on. *)
StateKept(j, b) == b.state

(* What a finished release leaves: the connectors that lifted the block    *)
(* are marked by name, in whatever results it has now, and the block is    *)
(* released when none of them failed.                                      *)
Stuck(j) == \E c \in Connectors : j.got[c].st = "failed"
StateAfterRelease(j, b) == IF Stuck(j) THEN b.state ELSE "released"
Released(j, b) ==
    [b EXCEPT !.state = StateAfterRelease(j, b),
              !.res = [c \in Connectors |->
                  IF j.got[c].st = "released" /\ b.res[c].st = "live"
                  THEN [b.res[c] EXCEPT !.st = "released"] ELSE b.res[c]]]

Lifetime(in) == IF in = 0 THEN DefaultTTL ELSE in

(* The charges the hourly window still counts. *)
Recent == {i \in issued : i.at > now - Hour}

UnderCap == Cardinality(Recent) < Cap

(* The block a new request on the address extends: the newest in force. *)
ActiveOn(a) == {i \in Ids : blocks[i].addr = a /\ InForce(blocks[i])}
Newest(S) == IF S = {} THEN NoId ELSE CHOOSE i \in S : \A j \in S : j <= i

Extended(a) == Newest(ActiveOn(a))

Due == {i \in Ids : InForce(blocks[i]) /\ blocks[i].expires <= now}
Sweeping == \E t \in Threads : pc[t] # "idle" /\ job[t].by = "system"

(* A connector that keeps a list of addresses (Kong, APISIX, nginx) holds  *)
(* an address at most once and needs no reference; one that creates a rule *)
(* per call returns the rule's id.                                         *)
RefFor(c, call) == IF c \in RuleConns THEN call ELSE NoRef
Enforced(c, a) == \E r \in gw[c] : r[1] = a

(* What a release does not call: anything in a dry run, a connector no     *)
(* longer configured, a result of a dry run.  It counts as lifted.         *)
Skips(c, ref) == policy.dry \/ c \notin policy.conns \/ ref = DryRef

-----------------------------------------------------------------------------
Init ==
    /\ now = 0 /\ calls = 0 /\ restarts = 0
    /\ policy \in Policies
    /\ blocks = [i \in Ids |-> NoBlock]
    /\ store = [i \in Ids |-> NoBlock]
    /\ issued = {}
    /\ pc = [t \in Threads |-> "idle"]
    /\ job = [t \in Threads |-> NoJob]
    /\ gw = [c \in Connectors |-> {}]

Goto(t, l) == pc' = [pc EXCEPT ![t] = l]

Return(t) == Goto(t, "idle") /\ job' = [job EXCEPT ![t] = NoJob]

(* persistLocked: the write's failure is logged and otherwise ignored. *)
Persist(id) ==
    \/ store' = [store EXCEPT ![id] = blocks'[id]]
    \/ SaveFails /\ store' = store

(* Block, up to the first connector call: guardrails, the hourly cap, and  *)
(* the block it will extend.  Bounded by MaxCalls and MaxTime.             *)
BlockBegin(t) ==
    \E a \in Addrs \ policy.protected, in \in TTLInputs,
       conns \in (SUBSET policy.conns) \ {{}} :
        /\ pc[t] = "idle"
        /\ Lifetime(in) \in MinTTL .. MaxTTL
        /\ UnderCap
        /\ calls < MaxCalls /\ now + Lifetime(in) <= MaxTime
        /\ issued' = Recent
        /\ calls' = calls + 1
        /\ Goto(t, "block")
        /\ job' = [job EXCEPT ![t] =
                     [NoJob EXCEPT !.addr = a, !.id = Extended(a),
                                   !.ttl = Lifetime(in), !.start = now,
                                   !.call = calls + 1, !.todo = conns]]
        /\ UNCHANGED <<now, policy, blocks, store, gw, restarts>>

(* ErrRateLimited: only the window has been pruned. *)
BlockRefused(t) ==
    /\ pc[t] = "idle"
    /\ ~UnderCap
    /\ issued' = Recent
    /\ UNCHANGED <<now, policy, blocks, store, calls, pc, job, gw, restarts>>

(* The thread has its answer from connector c. *)
Got(t, c, st, ref) ==
    job' = [job EXCEPT ![t].todo = @ \ {c}, ![t].got[c] = [st |-> st, ref |-> ref]]

(* applyBlock on one connector, without the mutex: recorded only in a dry  *)
(* run; else accepted, refused, or accepted with the answer lost (the 20 s *)
(* timeout).                                                               *)
BlockCall(t) ==
    \E c \in job[t].todo :
        LET ref == RefFor(c, job[t].call)
            add == gw' = [gw EXCEPT ![c] = @ \cup {<<job[t].addr, ref>>}]
        IN  /\ pc[t] = "block"
            /\ \/ policy.dry /\ gw' = gw /\ Got(t, c, "live", DryRef)
               \/ ~policy.dry /\ add /\ Got(t, c, "live", ref)
               \/ ~policy.dry /\ gw' = gw /\ Got(t, c, "failed", NoRef)
               \/ ~policy.dry /\ LostReplies /\ add /\ Got(t, c, "failed", NoRef)
            /\ UNCHANGED <<now, policy, blocks, store, issued, calls, pc, restarts>>

(* Block, after the last call: record the outcome on the block found at    *)
(* the start (whatever became of it since), or on a new one.               *)
BlockEnd(t) ==
    LET j == job[t]
        id == IF j.id = NoId THEN j.call ELSE j.id
        b == Recorded(j, blocks[id])
    IN  /\ pc[t] = "block" /\ j.todo = {}
        /\ blocks' = [blocks EXCEPT ![id] = b]
        /\ issued' = IF InForce(b) THEN issued \cup {[call |-> j.call, at |-> j.start]}
                     ELSE issued
        /\ Persist(id)
        /\ Return(t)
        /\ UNCHANGED <<now, policy, calls, gw, restarts>>

(* Unblock finds the block; release(id) starts in a section of its own. *)
UnblockBegin(t) ==
    \E a \in Addrs :
        /\ pc[t] = "idle"
        /\ ActiveOn(a) # {}
        /\ Goto(t, "release")
        /\ job' = [job EXCEPT ![t].id = Newest(ActiveOn(a))]
        /\ UNCHANGED <<now, policy, blocks, store, issued, calls, gw, restarts>>

(* release: copy the results that are live now. *)
ReleaseBegin(t) ==
    LET res == blocks[job[t].id].res
    IN  /\ pc[t] = "release"
        /\ Goto(t, "lift")
        /\ job' = [job EXCEPT ![t].todo = LiveAt(res),
                              ![t].got = [c \in Connectors |->
                                  IF c \in LiveAt(res) THEN res[c] ELSE NoResult]]
        /\ UNCHANGED <<now, policy, blocks, store, issued, calls, gw, restarts>>

(* Unblock on one connector with the copied reference, without the mutex.  *)
ReleaseCall(t) ==
    \E c \in job[t].todo :
        LET ref == job[t].got[c].ref
            skip == Skips(c, ref)
            remove == gw' = [gw EXCEPT ![c] = @ \ {<<blocks[job[t].id].addr, ref>>}]
        IN  /\ pc[t] = "lift"
            /\ \/ skip /\ gw' = gw /\ Got(t, c, "released", ref)
               \/ ~skip /\ remove /\ Got(t, c, "released", ref)
               \/ ~skip /\ gw' = gw /\ Got(t, c, "failed", ref)
               \/ ~skip /\ LostReplies /\ remove /\ Got(t, c, "failed", ref)
            /\ UNCHANGED <<now, policy, blocks, store, issued, calls, pc, restarts>>

(* release, after the last call.  A pass goes on with the next due block.  *)
ReleaseEnd(t) ==
    LET j == job[t]
    IN  /\ pc[t] = "lift" /\ j.todo = {}
        /\ blocks' = [blocks EXCEPT ![j.id] = Released(j, @)]
        /\ Persist(j.id)
        /\ IF j.by = "system"
           THEN /\ Goto(t, "sweep")
                /\ job' = [job EXCEPT ![t] = [NoJob EXCEPT !.by = "system", !.due = j.due]]
           ELSE Return(t)
        /\ UNCHANGED <<now, policy, issued, calls, gw, restarts>>

(* ExpireDue, on the one ticker goroutine: collect the due blocks under    *)
(* the mutex, then release them one after the other, oldest first.         *)
SweepBegin(t) ==
    /\ pc[t] = "idle" /\ ~Sweeping
    /\ Due # {}
    /\ Goto(t, "sweep")
    /\ job' = [job EXCEPT ![t].by = "system", ![t].due = Due]
    /\ UNCHANGED <<now, policy, blocks, store, issued, calls, gw, restarts>>

SweepNext(t) ==
    /\ pc[t] = "sweep"
    /\ \E i \in job[t].due :
        /\ \A k \in job[t].due : i <= k
        /\ Goto(t, "release")
        /\ job' = [job EXCEPT ![t].id = i, ![t].due = @ \ {i}]
    /\ UNCHANGED <<now, policy, blocks, store, issued, calls, gw, restarts>>

SweepEnd(t) ==
    /\ pc[t] = "sweep" /\ job[t].due = {}
    /\ Return(t)
    /\ UNCHANGED <<now, policy, blocks, store, issued, calls, gw, restarts>>

Tick ==
    /\ now < MaxTime
    /\ now' = now + 1
    /\ UNCHANGED <<policy, blocks, store, issued, calls, pc, job, gw, restarts>>

(* The platform stops anywhere and comes back, perhaps reconfigured: Load  *)
(* restores the blocks; the charges and the running calls are gone.        *)
Restart ==
    /\ restarts < MaxRestarts
    /\ restarts' = restarts + 1
    /\ policy' \in Policies
    /\ blocks' = store
    /\ issued' = {}
    /\ pc' = [t \in Threads |-> "idle"]
    /\ job' = [t \in Threads |-> NoJob]
    /\ UNCHANGED <<now, store, calls, gw>>

Step(t) ==
    \/ BlockCall(t) \/ BlockEnd(t)
    \/ ReleaseBegin(t) \/ ReleaseCall(t) \/ ReleaseEnd(t)
    \/ SweepNext(t) \/ SweepEnd(t)

Next ==
    \/ \E t \in Threads :
        \/ BlockBegin(t) \/ BlockRefused(t) \/ UnblockBegin(t) \/ SweepBegin(t)
        \/ Step(t)
    \/ Tick
    \/ Restart

Spec == Init /\ [][Next]_vars

(* A call in progress ends and the clock runs.  The ticker starts a pass   *)
(* whenever a block is due.  A connector that keeps being called answers   *)
(* some call: strong fairness on the calls that succeed, and nothing on    *)
(* the operators, who may never ask.                                       *)
LiftSucceeds(t, c) ==
    /\ ReleaseCall(t)
    /\ job[t].got[c].st = "live" /\ job'[t].got[c].st = "released"

FairSpec ==
    /\ Spec
    /\ WF_vars(Tick)
    /\ \A t \in Threads : WF_vars(Step(t))
    /\ WF_vars(\E t \in Threads : SweepBegin(t))
    /\ \A c \in Connectors : SF_vars(\E t \in Threads : LiftSucceeds(t, c))

-----------------------------------------------------------------------------
(* Properties.                                                             *)

(* Every variable has its type, and a thread in a call has the number or  *)
(* the block the call is about.                                            *)
TypeOK ==
    /\ now \in Nat /\ calls \in 0 .. MaxCalls /\ restarts \in Nat
    /\ policy \in Policies
    /\ blocks \in [Ids -> Block] /\ store \in [Ids -> Block]
    /\ issued \subseteq [call : Ids, at : Nat]
    /\ pc \in [Threads -> {"idle", "block", "release", "lift", "sweep"}]
    /\ job \in [Threads -> Job]
    /\ gw \in [Connectors -> SUBSET (Addrs \X Nat)]
    /\ \A t \in Threads : /\ pc[t] = "block" => job[t].call \in Ids
                          /\ pc[t] \in {"release", "lift"} => job[t].id \in Ids

(* A block the manager gave up on ("failed": no connector accepted it)     *)
(* holds no connector result that is still live: expiry and unblock never  *)
(* look at a failed block again.                                           *)
FailedHoldsNothing ==
    \A i \in Ids : blocks[i].state = "failed" => LiveAt(blocks[i].res) = {}

(* A live result is only ever given up by a release of that block whose    *)
(* own call to that connector succeeded: not by a failed retry, by another *)
(* connector's failure or by a release of another block.  (A restart may   *)
(* go back to an older record.)                                            *)
LiveKeptUntilLifted ==
    [][restarts' = restarts =>
         \A i \in Ids : \A c \in LiveAt(blocks[i].res) \ LiveAt(blocks'[i].res) :
            \E t \in Threads : /\ pc[t] = "lift" /\ job[t].id = i
                               /\ job[t].got[c].st = "released"]_vars

(* What the check-then-charge of allowLocked does guarantee: the calls in  *)
(* progress on the other threads are all that the cap can be exceeded by.  *)
Charging == {t \in Threads : pc[t] = "block"}
ChargesNearCap == Cardinality(Recent) <= Cap + Cardinality(Threads) - 1

(* While the policy is dry-run no step changes any connector.              *)
DryRunChangesNothing == [][policy.dry => gw' = gw]_vars

(* Every rule a connector enforces is one the manager will lift: some      *)
(* block in force has it as a live result with that very reference, or a   *)
(* Block call still running is about to record it.                         *)
Tracked(c, a, ref) ==
    \/ \E i \in Ids : /\ InForce(blocks[i]) /\ blocks[i].addr = a
                      /\ blocks[i].res[c] = [st |-> "live", ref |-> ref]
    \/ \E t \in Threads : /\ pc[t] = "block" /\ job[t].addr = a
                          /\ job[t].got[c] = [st |-> "live", ref |-> ref]
EnforcedIsTracked ==
    \A c \in Connectors : \A r \in gw[c] : Tracked(c, r[1], r[2])

(* A block past its expiry does not stay in force for ever: the passes     *)
(* retry until every connector has lifted it, or an operator renews it.    *)
DueIsLifted ==
    \A i \in Ids : (i \in Due) ~> (i \notin Due)

(* Whatever the operators do, an address a connector enforces is let       *)
(* through again: no block outlives every record of it.                    *)
EveryBlockIsLifted ==
    \A c \in Connectors, a \in Addrs : Enforced(c, a) ~> ~Enforced(c, a)
=============================================================================
