-------------------------- MODULE DetectionProofs --------------------------
(***************************************************************************)
(* Proofs about the detection engines: what the scores mean for every      *)
(* input, and, for any number of workers, trainers, events and limits,     *)
(* that stored events are spaced, that the model is never replaced by an   *)
(* older one, and that what calls for an alert is alerted for.             *)
(***************************************************************************)
EXTENDS Detection, FiniteSetTheorems, TLAPS

-----------------------------------------------------------------------------
(* Scores.                                                                 *)

(* Least(a, b) is one of its arguments and above neither. *)
LEMMA LeastIsLower ==
    ASSUME NEW a \in Int, NEW b \in Int
    PROVE  Least(a, b) \in {a, b} /\ Least(a, b) <= a /\ Least(a, b) <= b
BY DEF Least

(* The BOLA rules alert for more than twenty distinct objects in the      *)
(* window and never for fewer, however many the account has met before.    *)
(* This is why Detection keeps the one limit UniqueLimit (bola.go:91).     *)
THEOREM BolaAlertsAboveTwenty ==
    ASSUME NEW unique \in Nat, NEW known \in Nat
    PROVE  /\ BolaScore(unique, known) >= AlertScore <=> unique > 20
           /\ BolaScore(unique, known) <= 100
<1>1. CASE unique > 50
  <2>1. (2 * (unique - 25)) \div 5 >= 0 /\ (2 * (unique - 25)) \div 5 \in Int
    BY <1>1
  <2>2. BolaScore(unique, known) = 80 + Least((2 * (unique - 25)) \div 5, 20)
    BY <1>1 DEF BolaScore
  <2> QED BY <1>1, <2>1, <2>2, LeastIsLower DEF AlertScore, Least
<1>2. CASE unique \in 21..50
  BY <1>2 DEF BolaScore, Least, AlertScore
<1>3. CASE unique <= 20
  BY <1>3 DEF BolaScore, AlertScore
<1> QED BY <1>1, <1>2, <1>3

(* The model may raise a score to the alert level and never lowers one, so *)
(* what the rules alert for is alerted for with the model as well, and a   *)
(* rule's own alert keeps its score (bola_ml.go:176).                      *)
THEOREM ModelOnlyAdds ==
    ASSUME NEW score \in Nat, NEW unique \in Nat, NEW accesses \in Nat, NEW span \in Int
    PROVE  /\ MLScore(score, unique, accesses, span) >= score
           /\ score >= AlertScore => MLScore(score, unique, accesses, span) = score
           /\ MLScore(score, unique, accesses, span) # score => unique >= 10
<1>1. CASE span >= 0 /\ unique >= 10 /\ 10 * unique >= 7 * accesses /\ score < AlertScore
  <2>1. Least(span, 100) \in 0..100
    BY <1>1 DEF Least
  <2>2. (22 * Least(span, 100)) \div 100 \in Nat
    BY <2>1
  <2> QED BY <1>1, <2>2 DEF MLScore, AlertScore
<1>2. CASE ~(span >= 0 /\ unique >= 10 /\ 10 * unique >= 7 * accesses /\ score < AlertScore)
  BY <1>2 DEF MLScore
<1> QED BY <1>1, <1>2

(* Credential stuffing is alerted for exactly above ten failures a minute  *)
(* under more than five names: FailRate and UserLimit of Detection         *)
(* (auth_failure.go:79).                                                   *)
THEOREM AuthAlertsAboveTenAMinute ==
    ASSUME NEW fails \in Nat, NEW minutes \in Nat \ {0}, NEW users \in Nat
    PROVE  AuthScore(fails, minutes, users) >= AlertScore
             <=> fails > 10 * minutes /\ users > 5
<1>1. CASE fails > 10 * minutes /\ users > 5
  <2>1. (2 * (fails - 10 * minutes)) \div minutes \in Nat
    BY <1>1
  <2>2. AuthScore(fails, minutes, users) = 80 + Least((2 * (fails - 10 * minutes)) \div minutes, 20)
    BY <1>1 DEF AuthScore
  <2> QED BY <1>1, <2>1, <2>2 DEF Least, AlertScore
<1>2. CASE ~(fails > 10 * minutes /\ users > 5)
  BY <1>2 DEF AuthScore, AlertScore
<1> QED BY <1>1, <1>2

(* An alert of the DLP engine needs a value left unmasked or more values   *)
(* than the limit, and nothing that needs one is missed; it is critical    *)
(* only when something was left unmasked (dlp.go:52).                      *)
THEOREM DlpAlertsAreFounded ==
    ASSUME NEW unmasked \in Nat, NEW types \in 1..3, NEW total \in Nat, NEW maxFields \in Nat
    PROVE  /\ DlpScore(unmasked, types, total, maxFields) >= AlertScore
                <=> unmasked > 0 \/ total > maxFields
           /\ DlpScore(unmasked, types, total, maxFields) >= 90 => unmasked > 0
<1>1. CASE unmasked > 0
  BY <1>1 DEF DlpScore, Least, AlertScore
<1>2. CASE unmasked = 0
  BY <1>2 DEF DlpScore, AlertScore
<1> QED BY <1>1, <1>2

(* No single signal makes a client an automated one: an alert takes two of *)
(* the strong ones, as the comment at bot.go:35 promises.  The other half  *)
(* of that comment, that two of them suffice, is wrong for a scripting     *)
(* user agent in a burst: 60, or 70 only if the client never sent a        *)
(* browser's header.                                                       *)
THEOREM BotAlertTakesTwoSignals ==
    ASSUME NEW deny \in BOOLEAN, NEW script \in BOOLEAN, NEW regular \in BOOLEAN,
           NEW burst \in BOOLEAN, NEW bare \in BOOLEAN,
           BotScore(deny, script, regular, burst, bare) >= AlertScore
    PROVE  \/ deny /\ (script \/ regular \/ burst)
           \/ regular /\ (script \/ burst)
           \/ script /\ burst /\ bare
BY DEF BotScore, Least, AlertScore

(* The access that is judged is on record already (server.go:466 before    *)
(* 481), so a role that never touched a management endpoint with 9 to 19   *)
(* earlier accesses passes unnoticed: its share is the access at hand.     *)
(* From 20 earlier accesses on, and below 9, it is flagged.                *)
THEOREM NewcomerPassesInTheGap ==
    ASSUME NEW earlier \in Nat
    PROVE  BflaScore(1, earlier + 1) >= AlertScore <=> earlier \notin 9..19
BY DEF BflaScore, AlertScore

-----------------------------------------------------------------------------
(* What a worker has in hand.                                              *)

Steps == {"idle", "access", "failure", "bola", "auth", "judge", "bfla", "judgeRole", "raise",
          "dlp", "bot", "table", "judgeBot"}

Job(w) == [event : mode.events, risk : Nat, at : Nat, found : {job[w].found}]

Shape ==
    /\ mode \in Modes /\ now \in Nat
    /\ pc \in [Workers -> Steps]
    /\ DOMAIN job = Workers
    /\ \A w \in Workers : pc[w] # "idle" => job[w] \in Job(w) /\ job[w].at <= now
    /\ \A w \in Workers : pc[w] = "failure" => job[w].event.failed

LEMMA ShapeInit == Init => Shape
BY DEF Init, Shape, Steps

(* A worker's step leaves the other workers where they are. *)
LEMMA OthersStay ==
    ASSUME Shape, NEW w \in Workers, Process(w), NEW u \in Workers, u # w
    PROVE  pc'[u] = pc[u] /\ job'[u] = job[u]
<1>1. CASE Take(w)
  BY <1>1 DEF Shape, Take, Goto
<1>2. CASE RecordAccess(w)
  BY <1>2 DEF Shape, RecordAccess, Goto
<1>3. CASE RecordFailure(w)
  BY <1>3 DEF Shape, RecordFailure, Goto
<1>4. CASE EvaluateBola(w)
  BY <1>4 DEF Shape, EvaluateBola, Goto
<1>5. CASE ReadTracker(w)
  BY <1>5 DEF Shape, ReadTracker, Goto
<1>6. CASE JudgeTracker(w)
  BY <1>6 DEF Shape, JudgeTracker, Goto, Higher
<1>7. CASE ReadRoles(w)
  BY <1>7 DEF Shape, ReadRoles, Goto
<1>8. CASE JudgeRole(w)
  BY <1>8 DEF Shape, JudgeRole, Goto, Higher
<1>9. CASE Raise(w)
  BY <1>9 DEF Shape, Raise, Goto
<1>10. CASE EvaluateDlp(w)
  BY <1>10 DEF Shape, EvaluateDlp, Goto
<1>11. CASE ArriveBot(w)
  BY <1>11 DEF Shape, ArriveBot, Goto
<1>12. CASE ObserveClient(w)
  BY <1>12 DEF Shape, ObserveClient, Goto
<1>13. CASE JudgeClient(w)
  BY <1>13 DEF Shape, JudgeClient, Goto
<1>. QED
  BY <1>1, <1>2, <1>3, <1>4, <1>5, <1>6, <1>7, <1>8, <1>9, <1>10, <1>11, <1>12, <1>13 DEF Process

(* A worker's step keeps its event, until it is done with it. *)
LEMMA WorkerMoves ==
    ASSUME Shape, NEW w \in Workers, Process(w)
    PROVE  /\ mode' = mode /\ now' = now
           /\ pc' \in [Workers -> Steps] /\ DOMAIN job' = Workers
           /\ pc'[w] # "idle" => job'[w] \in Job(w)' /\ job'[w].at <= now
           /\ pc'[w] = "failure" => job'[w].event.failed
           /\ pc[w] # "idle" /\ pc'[w] # "idle" => job'[w].event = job[w].event
<1>. USE DEF Shape, Steps, Job, Goto
<1>1. CASE Take(w)
  BY <1>1 DEF Take, AfterTake
<1>2. CASE RecordAccess(w)
  BY <1>2 DEF RecordAccess
<1>3. CASE RecordFailure(w)
  BY <1>3 DEF RecordFailure
<1>4. CASE EvaluateBola(w)
  BY <1>4 DEF EvaluateBola, BolaRisks
<1>5. CASE ReadTracker(w)
  BY <1>5 DEF ReadTracker, AfterAuth
<1>6. CASE JudgeTracker(w)
  BY <1>6 DEF JudgeTracker, Higher, AfterAuth
<1>7. CASE ReadRoles(w)
  BY <1>7 DEF ReadRoles
<1>8. CASE JudgeRole(w)
  BY <1>8 DEF JudgeRole, Higher
<1>9. CASE Raise(w)
  BY <1>9 DEF Raise
<1>10. CASE EvaluateDlp(w)
  BY <1>10 DEF EvaluateDlp
<1>11. CASE ArriveBot(w)
  BY <1>11 DEF ArriveBot
<1>12. CASE ObserveClient(w)
  BY <1>12 DEF ObserveClient
<1>13. CASE JudgeClient(w)
  BY <1>13 DEF JudgeClient
<1>. QED
  BY <1>1, <1>2, <1>3, <1>4, <1>5, <1>6, <1>7, <1>8, <1>9, <1>10, <1>11, <1>12, <1>13 DEF Process

LEMMA ShapeStep == Shape /\ [Next]_vars => Shape'
<1>. SUFFICES ASSUME Shape, [Next]_vars PROVE Shape'
  OBVIOUS
<1>1. ASSUME NEW w \in Workers, Process(w) PROVE Shape'
  BY <1>1, OthersStay, WorkerMoves DEF Shape, Job
<1>2. ASSUME NEW f \in Trainers, CopyRows(f) \/ Fitted(f) PROVE Shape'
  BY <1>2 DEF Shape, Job, CopyRows, Fitted
<1>3. CASE CleanBola \/ CleanTrackers \/ CleanClients
  BY <1>3 DEF Shape, Job, CleanBola, CleanTrackers, CleanClients, engines
<1>4. CASE Tick
  BY <1>4 DEF Shape, Job, Tick
<1>5. CASE UNCHANGED vars
  BY <1>5 DEF Shape, Job, vars
<1>. QED
  BY <1>1, <1>2, <1>3, <1>4, <1>5 DEF Next

-----------------------------------------------------------------------------
(* The anomaly model.  One run of the training at a time: what it fits is  *)
(* as new as the model in use or newer.                                    *)

Model(m) ==
    /\ DOMAIN m = {"sampled", "samples", "training", "lastTrain", "seed", "model"}
    /\ m.samples \in Nat /\ m.training \in BOOLEAN /\ m.lastTrain \in Int
    /\ m.seed \in Nat /\ m.model \in Nat

Training ==
    /\ Model(ml) /\ ml.model < ml.seed
    /\ trainer \in [Trainers -> [pc : {"idle", "started", "fitting"}, rows : Nat, seed : Nat]]
    /\ \A f \in Trainers : trainer[f].pc # "idle" =>
          /\ ml.training
          /\ \A g \in Trainers : g # f => trainer[g].pc = "idle"
    /\ \A f \in Trainers : trainer[f].pc = "fitting" => ml.model <= trainer[f].seed
                                                        /\ trainer[f].seed < ml.seed

LEMMA TrainingInit == Init => Training
BY DetectionAssumption DEF Init, Training, Model

(* A sample never touches the model in use.                                *)
LEMMA SampleKeepsModel ==
    ASSUME Shape, Training, NEW account, Sample(account)
    PROVE  Training' /\ ml'.model = ml.model
<1>1. /\ Model(Sampled(account)) /\ Sampled(account).training = ml.training
      /\ Sampled(account).model = ml.model /\ Sampled(account).seed = ml.seed
  <2>1. Least(ml.samples + 1, MaxSamples) \in Nat
    BY DetectionAssumption DEF Least, Training, Model
  <2>. QED
    BY <2>1 DEF Sampled, Training, Model
<1>2. CASE UNCHANGED <<ml, trainer>>
  BY <1>2 DEF Training, Model
<1>3. CASE ml' = Sampled(account) /\ UNCHANGED trainer
  BY <1>1, <1>3 DEF Training, Model
<1>4. ASSUME Due(Sampled(account)),
             ml' = [Sampled(account) EXCEPT !.training = TRUE, !.lastTrain = now],
             NEW f \in Trainers, trainer[f].pc = "idle",
             trainer' = [trainer EXCEPT ![f].pc = "started"]
      PROVE  Training' /\ ml'.model = ml.model
  <2> DEFINE m == Sampled(account)
  <2>0. /\ Model(m) /\ m.training = ml.training /\ m.model = ml.model /\ m.seed = ml.seed
        /\ ~m.training /\ ml' = [m EXCEPT !.training = TRUE, !.lastTrain = now] /\ now \in Nat
    BY <1>1, <1>4 DEF Due, Shape
  <2> HIDE DEF m
  <2>1. /\ ~ml.training
        /\ Model(ml') /\ ml'.training /\ ml'.model = ml.model /\ ml'.seed = ml.seed
    BY <2>0 DEF Training, Model
  <2>2. \A g \in Trainers : trainer[g].pc = "idle"
    BY <2>1 DEF Training
  <2>. QED
    BY <1>4, <2>1, <2>2 DEF Training
<1>. QED
  BY <1>2, <1>3, <1>4 DEF Sample

LEMMA TrainingStep ==
    Shape /\ Training /\ [Next]_vars => Training' /\ ml'.model >= ml.model
<1>. SUFFICES ASSUME Shape, Training, [Next]_vars PROVE Training' /\ ml'.model >= ml.model
  OBVIOUS
<1>1. ASSUME NEW f \in Trainers, CopyRows(f) PROVE Training' /\ ml'.model >= ml.model
  BY <1>1 DEF Training, Model, CopyRows, Unlocked
<1>2. ASSUME NEW f \in Trainers, Fitted(f) PROVE Training' /\ ml'.model >= ml.model
  <2>1. \A g \in Trainers : trainer'[g].pc = "idle"
    BY <1>2 DEF Training, Fitted
  <2>2. trainer[f].seed \in Nat /\ ml.model <= trainer[f].seed /\ trainer[f].seed < ml.seed
    BY <1>2 DEF Training, Fitted
  <2>4. ml' = [ml EXCEPT !.training = FALSE, !.model = trainer[f].seed]
          => Model(ml') /\ ml'.model < ml'.seed /\ ml'.model >= ml.model
    BY <2>2 DEF Training, Model
  <2>5. ml' = [ml EXCEPT !.training = FALSE]
          => Model(ml') /\ ml'.model < ml'.seed /\ ml'.model >= ml.model
    BY DEF Training, Model
  <2>6. /\ Model(ml') /\ ml'.model < ml'.seed /\ ml'.model >= ml.model
    BY <1>2, <2>4, <2>5 DEF Fitted
  <2>3. trainer' \in [Trainers -> [pc : {"idle", "started", "fitting"}, rows : Nat, seed : Nat]]
    BY <1>2 DEF Training, Fitted
  <2>. QED
    BY <2>1, <2>6, <2>3 DEF Training
<1>3. ASSUME NEW w \in Workers, EvaluateBola(w) PROVE Training' /\ ml'.model >= ml.model
  <2>1. Sample(job[w].event.account)
    BY <1>3 DEF EvaluateBola
  <2>. QED
    BY <2>1, SampleKeepsModel DEF Training, Model
<1>4. CASE UNCHANGED <<ml, trainer>>
  BY <1>4 DEF Training, Model
<1>. QED
  BY <1>1, <1>2, <1>3, <1>4 DEF Next, Process, Take, RecordAccess, RecordFailure, ReadTracker,
     JudgeTracker, ReadRoles, JudgeRole, Raise, EvaluateDlp, ArriveBot, ObserveClient,
     JudgeClient, CleanBola, CleanTrackers, CleanClients, Tick, vars, engines

(* The anomaly model in use never gives way to one fitted on an earlier    *)
(* copy of the samples, for any number of workers and trainers             *)
(* (bola_ml.go:124-155).                                                   *)
THEOREM ModelOnlyGetsNewer == Spec => ModelNeverOlder
<1>1. Init => Shape /\ Training
  BY ShapeInit, TrainingInit
<1>2. Shape /\ Training /\ [Next]_vars => Shape' /\ Training'
  BY ShapeStep, TrainingStep
<1>3. Shape /\ Training /\ [Next]_vars => [ml'.model >= ml.model]_vars
  BY TrainingStep
<1>. QED
  BY <1>1, <1>2, <1>3, PTL DEF Spec, ModelNeverOlder

-----------------------------------------------------------------------------
(* The cooldowns.  A key that an engine knows has the time of its last     *)
(* event; a key that it forgot is older than the cooldown.                 *)

Spacing ==
    /\ DOMAIN last = Engines
    /\ \A k \in DOMAIN stored : stored[k].at \in Nat /\ stored[k].at <= now
    /\ \A e \in Engines : \A key \in DOMAIN last[e] :
         <<e, key>> \in DOMAIN stored /\ stored[<<e, key>>].at = last[e][key]
    /\ \A k \in DOMAIN stored : \E e \in Engines : \E key :
         /\ k = <<e, key>>
         /\ key \in DOMAIN last[e] \/ now - stored[k].at >= Cooldown

Spaced ==
    \A k \in DOMAIN stored : stored'[k] # stored[k] =>
      \/ stored'[k].at - stored[k].at >= Cooldown
      \/ k[1] = "bot" /\ now - stored[k].at >= Cooldown

LEMMA SpacingInit == Init => Spacing
BY DEF Init, Spacing, Nothing

LEMMA StoreSpaces ==
    ASSUME Shape, Spacing, NEW engine \in Engines, NEW key, NEW time \in Nat,
           time <= now, time = now \/ engine = "bot",
           Store(engine, key, time), now' = now
    PROVE  Spacing' /\ Spaced
<1>. DEFINE keys == last[engine]
            k0 == <<engine, key>>
            kept == IF Cardinality(DOMAIN keys) > MaxKeys
                    THEN Without(keys, Expired(keys, time)) ELSE keys
<1>0. now \in Nat /\ Cooldown \in Nat
  BY DetectionAssumption DEF Shape
<1>1. CASE UNCHANGED <<last, stored>>
  <2>1. Spacing'
    BY <1>1 DEF Spacing
  <2>2. Spaced
    BY <1>1 DEF Spaced
  <2>. QED
    BY <2>1, <2>2
<1>2. CASE ~(key \in DOMAIN keys /\ time - keys[key] < Cooldown)
  <2>1. /\ last' = [last EXCEPT ![engine] = Put(kept, key, time)]
        /\ stored' = Put(stored, k0,
                [times |-> Get(stored, k0, [times |-> 0]).times + 1, at |-> time])
    BY <1>2 DEF Store
  <2>2. /\ DOMAIN stored' = DOMAIN stored \cup {k0} /\ stored'[k0].at = time
        /\ \A k \in DOMAIN stored : k # k0 => stored'[k] = stored[k]
    BY <2>1 DEF Put
  <2>3. /\ DOMAIN kept \subseteq DOMAIN keys
        /\ \A x \in DOMAIN kept : kept[x] = keys[x]
        /\ \A x \in DOMAIN keys : x \notin DOMAIN kept => time - keys[x] >= Cooldown
    BY DEF Without, Expired
  <2>. HIDE DEF kept
  <2>4. /\ DOMAIN last' = Engines
        /\ DOMAIN last'[engine] = DOMAIN kept \cup {key}
        /\ last'[engine][key] = time
        /\ \A x \in DOMAIN kept : x # key => last'[engine][x] = keys[x]
        /\ \A e \in Engines : e # engine => last'[e] = last[e]
    BY <2>1, <2>3 DEF Put, Spacing
  <2>5. ASSUME NEW k \in DOMAIN stored'
        PROVE  stored'[k].at \in Nat /\ stored'[k].at <= now
    BY <2>2, <1>0 DEF Spacing
  <2>6. ASSUME NEW e \in Engines, NEW x \in DOMAIN last'[e]
        PROVE  <<e, x>> \in DOMAIN stored' /\ stored'[<<e, x>>].at = last'[e][x]
    <3>1. CASE e = engine /\ x = key
      BY <3>1, <2>2, <2>4
    <3>2. CASE e = engine /\ x # key
      BY <3>2, <2>2, <2>3, <2>4 DEF Spacing
    <3>3. CASE e # engine
      BY <3>3, <2>2, <2>4 DEF Spacing
    <3>. QED
      BY <3>1, <3>2, <3>3
  <2>7. ASSUME NEW k \in DOMAIN stored'
        PROVE  \E e \in Engines : \E x :
                 /\ k = <<e, x>>
                 /\ x \in DOMAIN last'[e] \/ now - stored'[k].at >= Cooldown
    <3>1. CASE k = k0
      BY <3>1, <2>4
    <3>2. CASE k # k0
      <4>1. k \in DOMAIN stored /\ stored'[k] = stored[k]
        BY <3>2, <2>2
      <4>2. PICK e \in Engines : \E x :
                 /\ k = <<e, x>>
                 /\ x \in DOMAIN last[e] \/ now - stored[k].at >= Cooldown
        BY <4>1 DEF Spacing
      <4>3. PICK x : /\ k = <<e, x>>
                     /\ x \in DOMAIN last[e] \/ now - stored[k].at >= Cooldown
        BY <4>2
      <4>4. CASE x \in DOMAIN last[e] /\ x \notin DOMAIN last'[e]
        <5>1. e = engine /\ x \in DOMAIN keys /\ x \notin DOMAIN kept
          BY <4>4, <2>4
        <5>2. time - stored[k].at >= Cooldown
          BY <5>1, <2>3, <4>3 DEF Spacing
        <5>. QED
          BY <5>2, <4>1, <4>3, <1>0 DEF Spacing
      <4>. QED
        BY <4>1, <4>3, <4>4
    <3>. QED
      BY <3>1, <3>2
  <2>8. Spacing'
    BY <2>4, <2>5, <2>6, <2>7 DEF Spacing
  <2>9. ASSUME NEW k \in DOMAIN stored, stored'[k] # stored[k]
        PROVE  \/ stored'[k].at - stored[k].at >= Cooldown
               \/ k[1] = "bot" /\ now - stored[k].at >= Cooldown
    <3>1. k = k0 /\ k[1] = engine /\ stored'[k].at = time
      BY <2>2, <2>9
    <3>2. CASE key \in DOMAIN keys
      BY <3>1, <3>2, <1>0, <1>2 DEF Spacing
    <3>3. CASE key \notin DOMAIN keys
      <4>1. PICK e \in Engines : \E x :
                 /\ k = <<e, x>>
                 /\ x \in DOMAIN last[e] \/ now - stored[k].at >= Cooldown
        BY DEF Spacing
      <4>2. now - stored[k].at >= Cooldown
        BY <4>1, <3>1, <3>3
      <4>. QED
        BY <4>2, <3>1
    <3>. QED
      BY <3>2, <3>3
  <2>. QED
    BY <2>8, <2>9 DEF Spaced
<1>. QED
  BY <1>1, <1>2 DEF Store

LEMMA SpacingKept ==
    ASSUME Shape, Spacing, UNCHANGED <<last, stored>>, now' \in Nat, now' >= now
    PROVE  Spacing' /\ Spaced
<1>1. Spacing'
  BY DetectionAssumption DEF Spacing, Shape
<1>. QED
  BY <1>1 DEF Spaced

LEMMA SpacingStep ==
    Shape /\ Spacing /\ [Next]_vars => Spacing' /\ Spaced
<1>. SUFFICES ASSUME Shape, Spacing, [Next]_vars PROVE Spacing' /\ Spaced
  OBVIOUS
<1>0. now \in Nat
  BY DEF Shape
<1>1. ASSUME NEW w \in Workers, EvaluateBola(w) PROVE Spacing' /\ Spaced
  <2>1. PICK risk : StoreIf(risk >= AlertScore, "bola", job[w].event.account, now)
    BY <1>1 DEF EvaluateBola
  <2>. QED
    BY <1>0, <1>1, <2>1, StoreSpaces, SpacingKept DEF StoreIf, EvaluateBola, Engines
<1>2. ASSUME NEW w \in Workers, JudgeTracker(w) PROVE Spacing' /\ Spaced
  BY <1>0, <1>2, StoreSpaces, SpacingKept DEF StoreIf, JudgeTracker, Engines
<1>3. ASSUME NEW w \in Workers, JudgeRole(w) PROVE Spacing' /\ Spaced
  BY <1>0, <1>3, StoreSpaces, SpacingKept DEF StoreIf, JudgeRole, Engines
<1>4. ASSUME NEW w \in Workers, EvaluateDlp(w) PROVE Spacing' /\ Spaced
  BY <1>0, <1>4, StoreSpaces, SpacingKept DEF StoreIf, EvaluateDlp, Engines
<1>5. ASSUME NEW w \in Workers, JudgeClient(w) PROVE Spacing' /\ Spaced
  <2>1. job[w].at \in Nat /\ job[w].at <= now
    BY <1>5 DEF JudgeClient, Shape, Job
  <2>2. PICK score : StoreIf(score >= 50, "bot", job[w].event.client, job[w].at)
    BY <1>5 DEF JudgeClient
  <2>3. now' = now
    BY <1>5 DEF JudgeClient
  <2>. QED
    BY <1>0, <2>1, <2>2, <2>3, StoreSpaces, SpacingKept DEF StoreIf, Engines
<1>6. CASE Tick
  BY <1>0, <1>6, SpacingKept DEF Tick, engines
<1>7. CASE UNCHANGED <<last, stored, now>>
  BY <1>0, <1>7, SpacingKept
<1>. QED
  BY <1>1, <1>2, <1>3, <1>4, <1>5, <1>6, <1>7 DEF Next, Process, Take, RecordAccess,
     RecordFailure, ReadTracker, ReadRoles, Raise, ArriveBot, ObserveClient, CleanBola,
     CleanTrackers, CleanClients, CopyRows, Fitted, vars, engines

(* Under one key an engine stores no two events closer than the cooldown,  *)
(* for any number of workers, keys and any limit of the table at which     *)
(* keys are pruned (cooldown.go:23-40); only the time a bot event carries  *)
(* may be older than the pruning.                                          *)
THEOREM EventsStaySpaced == Spec => EventsSpaced
<1>1. Init => Shape /\ Spacing
  BY ShapeInit, SpacingInit
<1>2. Shape /\ Spacing /\ [Next]_vars => Shape' /\ Spacing'
  BY ShapeStep, SpacingStep
<1>3. Shape /\ Spacing /\ [Next]_vars =>
        [\A k \in DOMAIN stored : stored'[k] # stored[k] =>
           \/ stored'[k].at - stored[k].at >= Cooldown
           \/ k[1] = "bot" /\ now - stored[k].at >= Cooldown]_vars
  BY SpacingStep DEF Spaced
<1>. QED
  BY <1>1, <1>2, <1>3, PTL DEF Spec, EventsSpaced

-----------------------------------------------------------------------------
(* Bursts of failures.  Whoever counted the last failure of an address     *)
(* that stuffs is on its way to judge it, or has found that it stuffs and  *)
(* is on its way to alert.                                                 *)

Counting(w, ip) ==
    /\ pc[w] \in {"bola", "auth", "judge", "bfla", "judgeRole", "raise"}
    /\ job[w].event.ip = ip /\ job[w].event.failed
    /\ pc[w] = "judge" => job[w].found = trackers[ip]
    /\ pc[w] \in {"bfla", "judgeRole", "raise"} => job[w].risk >= 80

Alerted(subject, since) == subject \in DOMAIN raised /\ raised[subject] >= since

Caught ==
    /\ \A s \in DOMAIN raised : raised[s] \in Nat /\ raised[s] <= now
    /\ \A ip \in DOMAIN trackers :
         /\ DOMAIN trackers[ip] = {"count", "users", "first", "last"}
         /\ trackers[ip].count \in Nat
         /\ trackers[ip].first \in Nat /\ trackers[ip].first <= now
         /\ Stuffing(trackers[ip]) =>
              \/ \E w \in Workers : Counting(w, ip)
              \/ Alerted(<<"R-AUTH-001", ip>>, trackers[ip].first)

LEMMA CaughtInit == Init => Caught
BY DEF Init, Caught, Nothing

(* What no longer stuffs does not begin to with time. *)
LEMMA StuffingFades ==
    ASSUME Shape, NEW t, t.first \in Nat, t.first <= now, t.count \in Nat, now' = now + 1, Stuffing(t)'
    PROVE  Stuffing(t)

<1>. DEFINE Minutes(n) == IF n - t.first < 1 THEN 1 ELSE n - t.first
<1>1. /\ now \in Nat /\ FailRate \in Nat
      /\ Minutes(now) \in Nat /\ Minutes(now') \in Nat /\ Minutes(now) <= Minutes(now')
  BY DetectionAssumption DEF Shape
<1>2. FailRate * Minutes(now) <= FailRate * Minutes(now')
  <2>. HIDE DEF Minutes
  <2>1. \A a, b, c \in Nat : b <= c => a * b <= a * c
    OBVIOUS
  <2>. QED
    BY <1>1, <2>1
<1>3. FailRate * Minutes(now) \in Nat /\ FailRate * Minutes(now') \in Nat
  <2>. HIDE DEF Minutes
  <2>. QED
    BY <1>1
<1>4. t.count > FailRate * Minutes(now') /\ Cardinality(t.users) > UserLimit
  BY DEF Stuffing
<1>5. t.count > FailRate * Minutes(now)
  <2>. HIDE DEF Minutes
  <2>. QED
    BY <1>2, <1>3, <1>4
<1>. QED
  BY <1>4, <1>5 DEF Stuffing

(* Alerts are never taken back. *)
RaisedGrows ==
    /\ \A s \in DOMAIN raised : s \in DOMAIN raised'
    /\ \A s \in DOMAIN raised' : raised'[s] = now \/ (s \in DOMAIN raised /\ raised'[s] = raised[s])

LEMMA CaughtWorker ==
    ASSUME Shape, Caught, NEW w \in Workers, Process(w), UNCHANGED trackers, RaisedGrows,
           \A ip \in DOMAIN trackers : Counting(w, ip) /\ Stuffing(trackers[ip]) =>
              \/ Counting(w, ip)'
              \/ Alerted(<<"R-AUTH-001", ip>>, trackers[ip].first)'
    PROVE  Caught'
<1>1. now' = now /\ now \in Nat
  BY WorkerMoves DEF Shape
<1>2. \A s \in DOMAIN raised' : raised'[s] \in Nat /\ raised'[s] <= now'
  BY <1>1 DEF Caught, RaisedGrows
<1>3. ASSUME NEW ip \in DOMAIN trackers, Stuffing(trackers[ip])
      PROVE  \/ \E u \in Workers : Counting(u, ip)'
             \/ Alerted(<<"R-AUTH-001", ip>>, trackers[ip].first)'
  <2>1. CASE Alerted(<<"R-AUTH-001", ip>>, trackers[ip].first)
    BY <1>1, <2>1 DEF Alerted, RaisedGrows, Caught
  <2>2. ASSUME NEW u \in Workers, Counting(u, ip)
        PROVE  \/ Counting(u, ip)'
               \/ Alerted(<<"R-AUTH-001", ip>>, trackers[ip].first)'
    <3>1. CASE u = w
      BY <1>3, <2>2, <3>1
    <3>2. CASE u # w
      <4>1. pc'[u] = pc[u] /\ job'[u] = job[u]
        BY <3>2, OthersStay
      <4>. QED
        BY <2>2, <4>1 DEF Counting
    <3>. QED
      BY <3>1, <3>2
  <2>. QED
    BY <1>3, <2>1, <2>2 DEF Caught
<1>4. \A t : Stuffing(t)' <=> Stuffing(t)
  BY <1>1 DEF Stuffing
<1>. QED
  BY <1>1, <1>2, <1>3, <1>4 DEF Caught

LEMMA CaughtFailure ==
    ASSUME Shape, Caught, NEW w \in Workers, RecordFailure(w)
    PROVE  Caught'
<1>. DEFINE a == job[w].event.ip
            old == Get(trackers, a, NewTracker)
<1>1. now' = now /\ now \in Nat /\ raised' = raised
  BY DEF RecordFailure, Shape
<1>2. /\ old.count \in Nat /\ old.first \in Nat /\ old.first <= now
      /\ DOMAIN old = {"count", "users", "first", "last"}
  <2>1. CASE a \in DOMAIN trackers
    <3>1. old = trackers[a]
      BY <2>1 DEF Get
    <3>. QED
      BY <2>1, <3>1 DEF Caught
  <2>2. CASE a \notin DOMAIN trackers
    BY <1>1, <2>2 DEF Get, NewTracker
  <2>. QED
    BY <2>1, <2>2
<1>3. trackers' = Put(trackers, a, [old EXCEPT !.count = @ + 1,
                                   !.users = @ \cup {job[w].event.account}, !.last = now])
  BY DEF RecordFailure
<1>. HIDE DEF old
<1>4. /\ DOMAIN trackers' = DOMAIN trackers \cup {a}
      /\ DOMAIN trackers'[a] = {"count", "users", "first", "last"}
      /\ trackers'[a].count \in Nat /\ trackers'[a].first \in Nat /\ trackers'[a].first <= now
      /\ \A ip \in DOMAIN trackers : ip # a => trackers'[ip] = trackers[ip]
  <2>. DEFINE new == [old EXCEPT !.count = @ + 1,
                                 !.users = @ \cup {job[w].event.account}, !.last = now]
  <2>1. /\ DOMAIN new = {"count", "users", "first", "last"}
        /\ new.count = old.count + 1 /\ new.first = old.first
    BY <1>2
  <2>2. trackers' = Put(trackers, a, new)
    BY <1>3
  <2>. HIDE DEF new
  <2>3. /\ DOMAIN trackers' = DOMAIN trackers \cup {a} /\ trackers'[a] = new
        /\ \A ip \in DOMAIN trackers : ip # a => trackers'[ip] = trackers[ip]
    BY <2>2 DEF Put
  <2>. QED
    BY <1>2, <2>1, <2>3
<1>5. pc[w] = "failure" /\ job'[w] = job[w] /\ pc'[w] = "bola" /\ Process(w)
  BY DEF RecordFailure, Goto, Shape, Process
<1>6. ASSUME NEW ip, ip = a PROVE Counting(w, ip)'
  <2>1. job[w].event.failed
    BY <1>5 DEF Shape
  <2>. QED
    BY <1>5, <1>6, <2>1 DEF Counting
<1>7. ASSUME NEW ip \in DOMAIN trackers, ip # a, Stuffing(trackers[ip])
      PROVE  \/ \E u \in Workers : Counting(u, ip)'
             \/ Alerted(<<"R-AUTH-001", ip>>, trackers[ip].first)
  <2>1. ASSUME NEW u \in Workers, Counting(u, ip)
        PROVE  Counting(u, ip)'
    <3>1. u # w
      BY <1>5, <2>1 DEF Counting
    <3>2. pc'[u] = pc[u] /\ job'[u] = job[u]
      BY <1>5, <3>1, OthersStay
    <3>. QED
      BY <1>4, <1>7, <2>1, <3>2 DEF Counting
  <2>. QED
    BY <1>7, <2>1 DEF Caught
<1>8. \A t : Stuffing(t)' <=> Stuffing(t)
  BY <1>1 DEF Stuffing
<1>9. ASSUME NEW ip \in DOMAIN trackers', Stuffing(trackers[ip])'
      PROVE  \/ \E u \in Workers : Counting(u, ip)'
             \/ Alerted(<<"R-AUTH-001", ip>>, trackers[ip].first)'
  <2>1. CASE ip = a
    BY <1>6, <2>1
  <2>2. CASE ip # a
    <3>1. ip \in DOMAIN trackers /\ trackers'[ip] = trackers[ip]
      BY <1>4, <2>2
    <3>2. Stuffing(trackers[ip])
      BY <1>1, <1>9, <3>1 DEF Stuffing
    <3>. QED
      BY <1>1, <1>7, <2>2, <3>1, <3>2 DEF Alerted
  <2>. QED
    BY <2>1, <2>2
<1>10. ASSUME NEW ip \in DOMAIN trackers'
       PROVE  /\ DOMAIN trackers'[ip] = {"count", "users", "first", "last"}
              /\ trackers'[ip].count \in Nat
              /\ trackers'[ip].first \in Nat /\ trackers'[ip].first <= now'
  BY <1>1, <1>4 DEF Caught
<1>11. \A s \in DOMAIN raised' : raised'[s] \in Nat /\ raised'[s] <= now'
  BY <1>1 DEF Caught
<1>. QED
  BY <1>9, <1>10, <1>11 DEF Caught

LEMMA CaughtStep == Shape /\ Caught /\ [Next]_vars => Caught'
<1>. SUFFICES ASSUME Shape, Caught, [Next]_vars PROVE Caught'
  OBVIOUS
<1>0. now \in Nat
  BY DEF Shape
<1>1. ASSUME NEW w \in Workers, RecordFailure(w) PROVE Caught'
  BY <1>1, CaughtFailure
<1>2. ASSUME NEW w \in Workers, Process(w), UNCHANGED trackers PROVE Caught'
  <2>1. RaisedGrows
    <3>1. CASE UNCHANGED raised
      BY <3>1 DEF RaisedGrows
    <3>2. CASE Raise(w)
      BY <3>2 DEF RaisedGrows, Raise, Put
    <3>3. CASE EvaluateDlp(w)
      BY <3>3 DEF RaisedGrows, EvaluateDlp, Put
    <3>4. CASE JudgeClient(w)
      BY <3>4 DEF RaisedGrows, JudgeClient, Put
    <3>. QED
      BY <1>2, <3>1, <3>2, <3>3, <3>4 DEF Process, Take, RecordAccess, RecordFailure, EvaluateBola,
         ReadTracker, JudgeTracker, ReadRoles, JudgeRole, ArriveBot, ObserveClient
  <2>2. ASSUME NEW ip \in DOMAIN trackers, Counting(w, ip), Stuffing(trackers[ip])
        PROVE  \/ Counting(w, ip)'
               \/ Alerted(<<"R-AUTH-001", ip>>, trackers[ip].first)'
    <3>0. /\ pc[w] \in {"bola", "auth", "judge", "bfla", "judgeRole", "raise"}
          /\ job[w] \in Job(w) /\ job[w].event.ip = ip /\ job[w].event.failed
      BY <2>2 DEF Counting, Shape
    <3>1. CASE EvaluateBola(w)
      BY <3>0, <3>1, <1>2, WorkerMoves DEF EvaluateBola, Counting, Goto, Shape
    <3>2. CASE ReadTracker(w)
      BY <3>0, <3>2, <1>2, WorkerMoves DEF ReadTracker, Snapshot, Counting, Goto, Shape, Job
    <3>3. CASE JudgeTracker(w)
      <4>1. Stuffing(job[w].found)
        BY <2>2, <3>3 DEF JudgeTracker, Counting
      <4>2. job'[w].risk >= 80 /\ pc'[w] \in {"bfla", "raise"}
        BY <3>0, <3>3, <4>1 DEF JudgeTracker, Higher, AfterAuth, Goto, Shape, Job
      <4>. QED
        BY <3>0, <4>2, <1>2, WorkerMoves DEF Counting
    <3>4. CASE ReadRoles(w)
      <4>1. job'[w].risk = job[w].risk /\ pc[w] = "bfla" /\ pc'[w] = "judgeRole"
        BY <3>0, <3>4 DEF ReadRoles, Goto, Shape, Job
      <4>. QED
        BY <2>2, <3>0, <4>1, <1>2, WorkerMoves DEF Counting
    <3>5. CASE JudgeRole(w)
      <4>1. job'[w].risk >= job[w].risk /\ job'[w].risk \in Nat
            /\ pc[w] = "judgeRole" /\ pc'[w] = "raise"
        BY <3>0, <3>5 DEF JudgeRole, Higher, Goto, Shape, Job
      <4>. QED
        BY <2>2, <3>0, <4>1, <1>2, WorkerMoves DEF Counting, Job
    <3>6. CASE Raise(w)
      <4>1. job[w].risk >= 80 /\ job[w].risk \in Nat
        BY <2>2, <3>0, <3>6 DEF Raise, Counting, Job
      <4>2. Alerting(w) /\ RuleOf(w) = "R-AUTH-001"
        BY <3>0, <4>1 DEF Alerting, RuleOf, ByExport, AlertScore
      <4>3. /\ <<"R-AUTH-001", ip>> \in DOMAIN raised'
            /\ raised'[<<"R-AUTH-001", ip>>] = now
        BY <3>0, <3>6, <4>2 DEF Raise, Put
      <4>. QED
        BY <1>2, <4>3, <1>0 DEF Alerted, Caught
    <3>. QED
      BY <3>0, <1>2, <3>1, <3>2, <3>3, <3>4, <3>5, <3>6 DEF Process, Take, RecordAccess,
         RecordFailure, EvaluateDlp, ArriveBot, ObserveClient, JudgeClient
  <2>. QED
    BY <1>2, <2>1, <2>2, CaughtWorker
<1>3. CASE CleanTrackers
  <2>1. /\ UNCHANGED <<now, pc, job, raised>>
        /\ DOMAIN trackers' \subseteq DOMAIN trackers
        /\ \A ip \in DOMAIN trackers' : trackers'[ip] = trackers[ip]
    BY <1>3 DEF CleanTrackers, Without
  <2>2. \A t : Stuffing(t)' <=> Stuffing(t)
    BY <2>1 DEF Stuffing
  <2>. QED
    BY <2>1, <2>2 DEF Caught, Counting, Alerted
<1>4. CASE Tick
  <2>1. UNCHANGED <<pc, job, raised, trackers>> /\ now' = now + 1
    BY <1>4 DEF Tick, engines
  <2>2. ASSUME NEW ip \in DOMAIN trackers, Stuffing(trackers[ip])'
        PROVE  Stuffing(trackers[ip])
    <3>1. /\ trackers[ip].first \in Nat /\ trackers[ip].first <= now
          /\ trackers[ip].count \in Nat /\ trackers'[ip] = trackers[ip]
      BY <2>1 DEF Caught
    <3>2. PICK t : t = trackers[ip]
      OBVIOUS
    <3>3. Stuffing(t)'
      BY <2>1, <2>2, <3>2 DEF Stuffing
    <3>. QED
      BY <2>1, <3>1, <3>2, <3>3, StuffingFades
  <2>. QED
    BY <2>1, <2>2, <1>0 DEF Caught, Counting, Alerted
<1>5. CASE UNCHANGED <<now, pc, job, raised, trackers>>
  <2>1. \A t : Stuffing(t)' <=> Stuffing(t)
    BY <1>5 DEF Stuffing
  <2>. QED
    BY <1>5, <2>1 DEF Caught, Counting, Alerted
<1>6. ASSUME NEW w \in Workers, Process(w) PROVE Caught'
  <2>1. RecordFailure(w) \/ UNCHANGED trackers
    BY <1>6 DEF Process, Take, RecordAccess, EvaluateBola, ReadTracker, JudgeTracker, ReadRoles,
       JudgeRole, Raise, EvaluateDlp, ArriveBot, ObserveClient, JudgeClient, engines
  <2>. QED
    BY <1>1, <1>2, <1>6, <2>1
<1>. QED
  BY <1>3, <1>4, <1>5, <1>6 DEF Next, CleanBola, CleanClients, CopyRows, Fitted, vars, engines

(* An address that fails too often under too many names has been alerted   *)
(* for since its tracker began, or will be by a worker that is under way,  *)
(* for any number of workers, addresses and names and whatever the limits  *)
(* (auth_failure.go:38-85).                                                *)
THEOREM BurstsAreAlerted == Spec => []BurstIsAlerted
<1>1. Init => Shape /\ Caught
  BY ShapeInit, CaughtInit
<1>2. Shape /\ Caught /\ [Next]_vars => Shape' /\ Caught'
  BY ShapeStep, CaughtStep
<1>3. Shape /\ Caught => BurstIsAlerted
  <2>. SUFFICES ASSUME Shape, Caught, NEW ip \in DOMAIN trackers, Stuffing(trackers[ip])
                PROVE  \/ Underway({"bola", "auth", "judge", "bfla", "judgeRole", "raise"},
                                   LAMBDA e : e.ip = ip /\ e.failed)
                       \/ RaisedSince(<<"R-AUTH-001", ip>>, trackers[ip].first - 1)
    BY DEF BurstIsAlerted
  <2>1. CASE \E w \in Workers : Counting(w, ip)
    BY <2>1 DEF Counting, Underway
  <2>2. CASE Alerted(<<"R-AUTH-001", ip>>, trackers[ip].first)
    BY <2>2 DEF Alerted, RaisedSince, Caught
  <2>. QED
    BY <2>1, <2>2 DEF Caught
<1>. QED
  BY <1>1, <1>2, <1>3, PTL DEF Spec

-----------------------------------------------------------------------------
(* Traversals.  What an account met within the window is in the window of  *)
(* its baseline.  If it is too much, counted from any time within the      *)
(* window, then an alert is newer than that time, or a worker that found   *)
(* too much is on its way to it.                                           *)

Walking(w, account) ==
    /\ pc[w] \in {"auth", "judge", "bfla", "judgeRole", "raise"}
    /\ job[w].event.account = account /\ job[w].risk >= AlertScore

Met(account, since) ==
    {x.object : x \in {y \in accessed : y.account = account /\ y.at > since}}

Baselines ==
    /\ \A x \in accessed : x.at \in Nat /\ x.at <= now
    /\ \A a \in DOMAIN base :
         /\ base[a].total \in Nat
         /\ base[a].lastAccess \in Nat /\ base[a].lastAccess <= now
         /\ IsFiniteSet(DOMAIN base[a].window)
         /\ \A i \in DOMAIN base[a].window :
              /\ i \in Nat /\ i <= base[a].total
              /\ base[a].window[i].at <= base[a].lastAccess
              /\ base[a].window[i].at \in Nat
    /\ \A x \in accessed : x.at > now - Window =>
         /\ x.account \in DOMAIN base
         /\ \E i \in DOMAIN base[x.account].window :
              /\ base[x.account].window[i].object = x.object
              /\ base[x.account].window[i].at = x.at

Walked ==
    /\ \A s \in DOMAIN raised : raised[s] \in Nat /\ raised[s] <= now
    /\ \A account : \A since \in Int :
         since >= now - Window /\ Cardinality(Met(account, since)) > UniqueLimit =>
            \/ \E w \in Workers : Walking(w, account)
            \/ Alerted(<<"account", account>>, since + 1)

LEMMA BaselinesInit == Init => Baselines
BY DEF Init, Baselines, Nothing

LEMMA WalkedInit == Init => Walked
<1>. SUFFICES ASSUME Init PROVE Walked
  OBVIOUS
<1>1. \A account : \A since \in Int : Met(account, since) = {}
  BY DEF Init, Met
<1>2. Cardinality({}) = 0
  BY FS_EmptySet
<1>3. UniqueLimit \in Nat
  BY DetectionAssumption
<1>4. DOMAIN raised = {}
  BY DEF Init, Nothing
<1>5. ~(Cardinality({}) > UniqueLimit)
  BY <1>2, <1>3
<1>. QED
  BY <1>1, <1>4, <1>5 DEF Walked

(* What EvaluateBola keeps of an account's accesses, and the one at hand.  *)
LEMMA EvaluateKeeps ==
    ASSUME Shape, Baselines, NEW w \in Workers, EvaluateBola(w), NEW a, a = job[w].event.account
    PROVE  /\ Baselines'
           /\ IsFiniteSet(DOMAIN base'[a].window)
           /\ \A since \in Int : since >= now - Window =>
                 Met(a, since)' \subseteq Objects(base'[a].window)
           /\ \A b : \A since \in Int : b # a /\ since >= now - Window =>
                 Met(b, since)' = Met(b, since)
<1>. DEFINE e == job[w].event
            old == Get(base, a, NewBaseline)
            all == Put(old.window, old.total + 1, [object |-> e.object, at |-> now])
            kept == [i \in InWindow(all) |-> all[i]]
            new == [account |-> a, object |-> e.object, at |-> now]
<1>0. now' = now /\ now \in Nat /\ Window \in Nat /\ Window > 0
  BY DetectionAssumption DEF EvaluateBola, Shape
<1>1. /\ old.total \in Nat /\ IsFiniteSet(DOMAIN old.window)
      /\ \A i \in DOMAIN old.window : i \in Nat /\ i <= old.total /\ old.window[i].at \in Nat
                                      /\ old.window[i].at <= now
  <2>1. CASE a \in DOMAIN base
    <3>1. old = base[a]
      BY <2>1 DEF Get
    <3>. HIDE DEF old
    <3>. QED
      BY <1>0, <2>1, <3>1 DEF Baselines
  <2>2. CASE a \notin DOMAIN base
    <3>1. old = NewBaseline
      BY <2>2 DEF Get
    <3>2. DOMAIN old.window = {} /\ old.total = 0
      BY <3>1 DEF NewBaseline, Nothing
    <3>. QED
      BY <3>2, FS_EmptySet
  <2>. QED
    BY <2>1, <2>2
<1>2. /\ base' = Put(base, a, [total |-> old.total + 1, window |-> kept, lastAccess |-> now])
      /\ accessed' = {x \in accessed : x.at > now - Window} \cup {new}
  BY DEF EvaluateBola
<1>3. /\ old.total + 1 \notin DOMAIN old.window
      /\ DOMAIN all = DOMAIN old.window \cup {old.total + 1}
      /\ all[old.total + 1] = [object |-> e.object, at |-> now]
      /\ \A i \in DOMAIN old.window : all[i] = old.window[i]
  <2>1. old.total + 1 \notin DOMAIN old.window
    BY <1>1
  <2>. QED
    BY <2>1 DEF Put
<1>4. /\ DOMAIN kept = {i \in DOMAIN all : all[i].at > now - Window}
      /\ \A i \in DOMAIN kept : kept[i] = all[i]
  BY DEF InWindow
<1>5. /\ DOMAIN base' = DOMAIN base \cup {a}
      /\ base'[a].total = old.total + 1 /\ base'[a].lastAccess = now
      /\ base'[a].window = kept
      /\ \A b \in DOMAIN base : b # a => base'[b] = base[b]
  BY <1>2 DEF Put
<1>6. \A x \in accessed : x.at > now - Window /\ x.account = a =>
         \E i \in DOMAIN old.window : old.window[i].object = x.object /\ old.window[i].at = x.at
  BY DEF Baselines, Get
<1>. HIDE DEF old, all, kept
<1>7. IsFiniteSet(DOMAIN kept)
  <2>1. IsFiniteSet(DOMAIN all)
    BY <1>1, <1>3, FS_AddElement
  <2>2. DOMAIN kept \subseteq DOMAIN all
    BY <1>4
  <2>. QED
    BY <2>1, <2>2, FS_Subset
<1>8. ASSUME NEW i \in DOMAIN kept
      PROVE  i \in Nat /\ i <= old.total + 1 /\ kept[i].at \in Nat /\ kept[i].at <= now
  BY <1>0, <1>1, <1>3, <1>4
<1>9. ASSUME NEW x \in accessed', x.account = a, x.at > now - Window
      PROVE  \E i \in DOMAIN kept : kept[i].object = x.object /\ kept[i].at = x.at
  <2>1. CASE x = new
    <3>1. old.total + 1 \in DOMAIN kept
      BY <1>0, <1>3, <1>4
    <3>. QED
      BY <2>1, <3>1, <1>3, <1>4
  <2>2. CASE x \in accessed
    <3>1. PICK i \in DOMAIN old.window : old.window[i].object = x.object /\ old.window[i].at = x.at
      BY <1>6, <1>9, <2>2
    <3>2. i \in DOMAIN kept /\ kept[i] = old.window[i]
      BY <1>3, <1>4, <1>9, <3>1
    <3>. QED
      BY <3>1, <3>2
  <2>. QED
    BY <1>2, <2>1, <2>2
<1>10. ASSUME NEW x \in accessed' PROVE x.at \in Nat /\ x.at <= now
  BY <1>0, <1>2 DEF Baselines
<1>11. Baselines'
  <2>1. ASSUME NEW b \in DOMAIN base'
        PROVE  /\ base'[b].total \in Nat
               /\ base'[b].lastAccess \in Nat /\ base'[b].lastAccess <= now
               /\ IsFiniteSet(DOMAIN base'[b].window)
               /\ \A i \in DOMAIN base'[b].window :
                    /\ i \in Nat /\ i <= base'[b].total
                    /\ base'[b].window[i].at <= base'[b].lastAccess
                    /\ base'[b].window[i].at \in Nat
    <3>1. CASE b = a
      BY <3>1, <1>0, <1>1, <1>5, <1>7, <1>8
    <3>2. CASE b # a
      BY <3>2, <1>5 DEF Baselines
    <3>. QED
      BY <3>1, <3>2
  <2>2. ASSUME NEW x \in accessed', x.at > now - Window
        PROVE  /\ x.account \in DOMAIN base'
               /\ \E i \in DOMAIN base'[x.account].window :
                    /\ base'[x.account].window[i].object = x.object
                    /\ base'[x.account].window[i].at = x.at
    <3>1. CASE x.account = a
      BY <3>1, <2>2, <1>5, <1>9
    <3>2. CASE x.account # a
      <4>1. x \in accessed
        BY <3>2, <1>2
      <4>. QED
        BY <4>1, <3>2, <2>2, <1>5 DEF Baselines
    <3>. QED
      BY <3>1, <3>2
  <2>. QED
    BY <1>0, <1>10, <2>1, <2>2 DEF Baselines
<1>12. ASSUME NEW since \in Int, since >= now - Window
       PROVE  Met(a, since)' \subseteq Objects(kept)
  <2>. SUFFICES ASSUME NEW x \in accessed', x.account = a, x.at > since
                PROVE  x.object \in Objects(kept)
    BY DEF Met
  <2>1. x.at > now - Window
    BY <1>0, <1>10, <1>12
  <2>. QED
    BY <2>1, <1>9 DEF Objects
<1>13. ASSUME NEW b, NEW since \in Int, b # a, since >= now - Window
       PROVE  Met(b, since)' = Met(b, since)
  <2>1. \A x : x \in accessed' /\ x.account = b /\ x.at > since
                 <=> x \in accessed /\ x.account = b /\ x.at > since
    BY <1>0, <1>2, <1>13 DEF Baselines
  <2>. QED
    BY <2>1 DEF Met
<1>. QED
  BY <1>5, <1>7, <1>11, <1>12, <1>13

LEMMA BaselinesStep == Shape /\ Baselines /\ [Next]_vars => Baselines'
<1>. SUFFICES ASSUME Shape, Baselines, [Next]_vars PROVE Baselines'
  OBVIOUS
<1>1. ASSUME NEW w \in Workers, EvaluateBola(w) PROVE Baselines'
  BY <1>1, EvaluateKeeps
<1>2. CASE CleanBola
  <2>1. /\ now' = now /\ accessed' = accessed
        /\ \A a \in DOMAIN base' : a \in DOMAIN base /\ base'[a] = base[a]
        /\ \A a \in DOMAIN base : a \notin DOMAIN base' => now - base[a].lastAccess > BaselineTTL
    BY <1>2 DEF CleanBola, Without
  <2>2. /\ Window \in Nat /\ BaselineTTL \in Nat /\ Window <= BaselineTTL /\ now \in Nat
    BY DetectionAssumption DEF Shape
  <2>3. ASSUME NEW x \in accessed, x.at > now - Window
        PROVE  x.account \in DOMAIN base'
    BY <2>1, <2>2, <2>3 DEF Baselines
  <2>. QED
    BY <2>1, <2>3 DEF Baselines
<1>3. CASE Tick
  <2>1. /\ now' = now + 1 /\ now \in Nat /\ UNCHANGED <<accessed, base>>
    BY <1>3 DEF Tick, engines, Shape
  <2>2. Window \in Nat
    BY DetectionAssumption
  <2>3. \A x \in accessed : x.at > now' - Window => x.at > now - Window
    BY <2>1, <2>2 DEF Baselines
  <2>. QED
    BY <2>1, <2>3 DEF Baselines
<1>4. CASE UNCHANGED <<now, accessed, base>>
  BY <1>4 DEF Baselines
<1>. QED
  BY <1>1, <1>2, <1>3, <1>4 DEF Next, Process, Take, RecordAccess, RecordFailure,
     ReadTracker, JudgeTracker, ReadRoles, JudgeRole, Raise, EvaluateDlp, ArriveBot,
     ObserveClient, JudgeClient, CleanTrackers, CleanClients, CopyRows, Fitted, vars, engines

LEMMA ProcessRaises ==
    ASSUME NEW w \in Workers, Process(w) PROVE RaisedGrows
<1>1. CASE UNCHANGED raised
  BY <1>1 DEF RaisedGrows
<1>2. CASE Raise(w)
  BY <1>2 DEF RaisedGrows, Raise, Put
<1>3. CASE EvaluateDlp(w)
  BY <1>3 DEF RaisedGrows, EvaluateDlp, Put
<1>4. CASE JudgeClient(w)
  BY <1>4 DEF RaisedGrows, JudgeClient, Put
<1>. QED
  BY <1>1, <1>2, <1>3, <1>4 DEF Process, Take, RecordAccess, RecordFailure, EvaluateBola,
     ReadTracker, JudgeTracker, ReadRoles, JudgeRole, ArriveBot, ObserveClient

(* An account that met too much before a worker's step still has its alert *)
(* or its worker after it.                                                 *)
LEMMA WalkedKept ==
    ASSUME Shape, Walked, Baselines, NEW w \in Workers, Process(w),
           NEW account, NEW since \in Int, since >= now - Window,
           Cardinality(Met(account, since)) > UniqueLimit
    PROVE  \/ \E u \in Workers : Walking(u, account)'
           \/ Alerted(<<"account", account>>, since + 1)'
<1>0. now' = now /\ now \in Nat
  BY WorkerMoves DEF Shape
<1>1. CASE Alerted(<<"account", account>>, since + 1)
  <2>1. since < now
    BY <1>0, <1>1 DEF Alerted, Walked
  <2>2. RaisedGrows
    BY ProcessRaises
  <2>. QED
    BY <1>0, <1>1, <2>1, <2>2 DEF Alerted, RaisedGrows, Walked
<1>2. ASSUME NEW u \in Workers, Walking(u, account), u # w
      PROVE  Walking(u, account)'
  BY <1>2, OthersStay DEF Walking
<1>3. ASSUME Walking(w, account)
      PROVE  Walking(w, account)' \/ Alerted(<<"account", account>>, since + 1)'
  <2>0. /\ pc[w] \in {"auth", "judge", "bfla", "judgeRole", "raise"}
        /\ job[w] \in Job(w) /\ job[w].event.account = account
        /\ job[w].risk \in Nat /\ job[w].risk >= AlertScore
    BY <1>3 DEF Walking, Shape, Job
  <2>1. CASE ReadTracker(w)
    <3>1. job'[w].risk = job[w].risk /\ pc'[w] \in {"judge", "bfla", "raise"}
      BY <2>0, <2>1 DEF ReadTracker, AfterAuth, Goto, Shape, Job
    <3>. QED
      BY <2>0, <3>1, WorkerMoves DEF Walking
  <2>2. CASE JudgeTracker(w)
    <3>1. job'[w].risk >= job[w].risk /\ job'[w].risk \in Nat /\ pc'[w] \in {"bfla", "raise"}
      BY <2>0, <2>2 DEF JudgeTracker, Higher, AfterAuth, Goto, Shape, Job
    <3>. QED
      BY <2>0, <3>1, WorkerMoves DEF Walking, AlertScore
  <2>3. CASE ReadRoles(w)
    <3>1. job'[w].risk = job[w].risk /\ pc'[w] = "judgeRole"
      BY <2>0, <2>3 DEF ReadRoles, Goto, Shape, Job
    <3>. QED
      BY <2>0, <3>1, WorkerMoves DEF Walking
  <2>4. CASE JudgeRole(w)
    <3>1. job'[w].risk >= job[w].risk /\ job'[w].risk \in Nat /\ pc'[w] = "raise"
      BY <2>0, <2>4 DEF JudgeRole, Higher, Goto, Shape, Job
    <3>. QED
      BY <2>0, <3>1, WorkerMoves DEF Walking, AlertScore
  <2>5. CASE Raise(w)
    <3>1. Alerting(w)
      BY <2>0 DEF Alerting
    <3>2. /\ <<"account", account>> \in DOMAIN raised'
          /\ raised'[<<"account", account>>] = now
      BY <2>0, <2>5, <3>1 DEF Raise, Put
    <3>3. since < now
      <4>1. SUFFICES ASSUME since >= now PROVE FALSE
        BY <1>0
      <4>2. Met(account, since) = {}
        BY <1>0, <4>1 DEF Met, Baselines
      <4>3. Cardinality(Met(account, since)) = 0
        BY <4>2, FS_EmptySet
      <4>4. UniqueLimit \in Nat
        BY DetectionAssumption
      <4>. QED
        BY <4>3, <4>4
    <3>. QED
      BY <1>0, <3>2, <3>3 DEF Alerted
  <2>. QED
    BY <2>0, <2>1, <2>2, <2>3, <2>4, <2>5 DEF Process, Take, RecordAccess, RecordFailure,
       EvaluateBola, EvaluateDlp, ArriveBot, ObserveClient, JudgeClient
<1>. QED
  BY <1>1, <1>2, <1>3 DEF Walked

LEMMA ObjectsFinite ==
    ASSUME NEW window, IsFiniteSet(DOMAIN window)
    PROVE  IsFiniteSet(Objects(window))
<1>. DEFINE f == [i \in DOMAIN window |-> window[i].object]
<1>1. f \in Surjection(DOMAIN window, Objects(window))
  BY DEF Surjection, Objects
<1>. QED
  BY <1>1, FS_Surjection

LEMMA MetFinite ==
    ASSUME Shape, Baselines, NEW account
    PROVE  IsFiniteSet(Met(account, now - Window))
<1>1. CASE account \in DOMAIN base
  <2>1. Met(account, now - Window) \subseteq Objects(base[account].window)
    BY DEF Met, Objects, Baselines
  <2>2. IsFiniteSet(Objects(base[account].window))
    BY <1>1, ObjectsFinite DEF Baselines
  <2>. QED
    BY <2>1, <2>2, FS_Subset
<1>2. CASE account \notin DOMAIN base
  <2>1. Met(account, now - Window) = {}
    BY <1>2 DEF Met, Baselines
  <2>. QED
    BY <2>1, FS_EmptySet
<1>. QED
  BY <1>1, <1>2

LEMMA EvaluateAlerts ==
    ASSUME Shape, NEW w \in Workers, EvaluateBola(w),
           NEW account, account = job[w].event.account,
           Cardinality(Objects(base'[account].window)) > UniqueLimit
    PROVE  Walking(w, account)'
<1>. DEFINE old == Get(base, job[w].event.account, NewBaseline)
            all == Put(old.window, old.total + 1, [object |-> job[w].event.object, at |-> now])
            kept == [i \in InWindow(all) |-> all[i]]
<1>1. base'[account].window = kept
  <2>1. base' = Put(base, job[w].event.account,
                    [total |-> old.total + 1, window |-> kept, lastAccess |-> now])
    BY DEF EvaluateBola
  <2>. HIDE DEF kept, old
  <2>. QED
    BY <2>1 DEF Put
<1>2. PICK risk \in BolaRisks(Cardinality(Objects(kept)), Cardinality(DOMAIN kept)) :
         job' = [job EXCEPT ![w].risk = risk]
  BY DEF EvaluateBola
<1>. HIDE DEF kept
<1>3. risk \in {71, 90}
  <2>1. Cardinality(Objects(kept)) > UniqueLimit
    BY <1>1
  <2>2. BolaRisks(Cardinality(Objects(kept)), Cardinality(DOMAIN kept)) = {71, 90}
    BY <2>1 DEF BolaRisks
  <2>. QED
    BY <2>2
<1>4. pc'[w] = "auth" /\ job'[w].risk = risk /\ job'[w].event.account = account
  BY <1>2 DEF EvaluateBola, Goto, Shape, Job
<1>. QED
  BY <1>3, <1>4 DEF Walking, AlertScore

LEMMA WalkedProcess ==
    ASSUME Shape, Walked, Baselines, NEW w \in Workers, Process(w)
    PROVE  Walked'
<1>0. now' = now /\ now \in Nat
  BY WorkerMoves DEF Shape
<1>1. \A s \in DOMAIN raised' : raised'[s] \in Nat /\ raised'[s] <= now'
  BY <1>0, ProcessRaises DEF RaisedGrows, Walked
<1>2. ASSUME NEW account, NEW since \in Int, since >= now - Window,
             Cardinality(Met(account, since)') > UniqueLimit
      PROVE  \/ \E u \in Workers : Walking(u, account)'
             \/ Alerted(<<"account", account>>, since + 1)'
  <2>1. CASE Met(account, since)' = Met(account, since)
    BY <1>2, <2>1, WalkedKept
  <2>2. CASE EvaluateBola(w) /\ account = job[w].event.account
    <3>. DEFINE met == Objects(base'[account].window)
    <3>1. /\ IsFiniteSet(DOMAIN base'[account].window)
          /\ Met(account, since)' \subseteq met
      BY <1>2, <2>2, EvaluateKeeps
    <3>2. IsFiniteSet(met)
      BY <3>1, ObjectsFinite
    <3>. HIDE DEF met
    <3>3. /\ Cardinality(met) \in Nat /\ Cardinality(Met(account, since)') \in Nat
          /\ Cardinality(Met(account, since)') <= Cardinality(met)
      <4>1. PICK M : M = Met(account, since)'
        OBVIOUS
      <4>2. /\ M \in SUBSET met /\ IsFiniteSet(M) /\ Cardinality(M) <= Cardinality(met)
        BY <3>1, <3>2, <4>1, FS_Subset
      <4>3. Cardinality(M) \in Nat /\ Cardinality(met) \in Nat
        BY <3>2, <4>2, FS_CardinalityType
      <4>. QED
        BY <4>1, <4>2, <4>3
    <3>4. Cardinality(met) > UniqueLimit
      <4>1. UniqueLimit \in Nat
        BY DetectionAssumption
      <4>. QED
        BY <1>2, <3>3, <4>1
    <3>5. Walking(w, account)'
      BY <2>2, <3>4, EvaluateAlerts DEF met
    <3>. QED
      BY <3>5
  <2>3. CASE EvaluateBola(w) /\ account # job[w].event.account
    BY <1>2, <2>1, <2>3, EvaluateKeeps
  <2>4. CASE ~EvaluateBola(w)
    <3>1. UNCHANGED accessed
      BY <2>4 DEF Process, Take, RecordAccess, RecordFailure, ReadTracker, JudgeTracker,
         ReadRoles, JudgeRole, Raise, EvaluateDlp, ArriveBot, ObserveClient, JudgeClient
    <3>2. Met(account, since)' = Met(account, since)
      BY <3>1 DEF Met
    <3>. QED
      BY <2>1, <3>2
  <2>. QED
    BY <2>2, <2>3, <2>4
<1>. QED
  BY <1>0, <1>1, <1>2 DEF Walked

LEMMA WalkedStep == Shape /\ Baselines /\ Walked /\ [Next]_vars => Walked'
<1>. SUFFICES ASSUME Shape, Baselines, Walked, [Next]_vars PROVE Walked'
  OBVIOUS
<1>1. ASSUME NEW w \in Workers, Process(w) PROVE Walked'
  BY <1>1, WalkedProcess
<1>2. CASE Tick
  <2>1. /\ now' = now + 1 /\ now \in Nat /\ UNCHANGED <<pc, job, raised, accessed>>
    BY <1>2 DEF Tick, Shape
  <2>2. Window \in Nat
    BY DetectionAssumption
  <2>3. \A since \in Int : since >= now' - Window => since >= now - Window
    BY <2>1, <2>2
  <2>4. \A account, since : Met(account, since)' = Met(account, since)
    BY <2>1 DEF Met
  <2>. QED
    BY <2>1, <2>3, <2>4 DEF Walked, Walking, Alerted
<1>3. CASE UNCHANGED <<now, pc, job, raised, accessed>>
  <2>1. \A account, since : Met(account, since)' = Met(account, since)
    BY <1>3 DEF Met
  <2>. QED
    BY <1>3, <2>1 DEF Walked, Walking, Alerted
<1>. QED
  BY <1>1, <1>2, <1>3 DEF Next, CleanBola, CleanTrackers, CleanClients, CopyRows, Fitted, vars,
     engines

(* An account that met too many objects within the window has been alerted *)
(* for within it, or will be by a worker that is under way, for any number *)
(* of workers, accounts and objects, any window and any clean-up that      *)
(* keeps longer than the window (bola.go:47-146, server.go:471-499).       *)
THEOREM TraversalsAreAlerted == Spec => []TraversalIsAlerted
<1>1. Init => Shape /\ Baselines /\ Walked
  BY ShapeInit, BaselinesInit, WalkedInit
<1>2. Shape /\ Baselines /\ Walked /\ [Next]_vars => Shape' /\ Baselines' /\ Walked'
  BY ShapeStep, BaselinesStep, WalkedStep
<1>3. Shape /\ Baselines /\ Walked => TraversalIsAlerted
  <2>. SUFFICES ASSUME Shape, Baselines, Walked, NEW account,
                       ~(Cardinality(Met(account, now - Window)) <= UniqueLimit)
                PROVE  \/ Underway({"auth", "judge", "bfla", "judgeRole", "raise"},
                                   LAMBDA e : e.account = account)
                       \/ RaisedSince(<<"account", account>>, now - Window)
    BY DEF TraversalIsAlerted, Met
  <2>1. /\ now - Window \in Int /\ UniqueLimit \in Nat
        /\ \A since \in Int : since + 1 > since
    BY DetectionAssumption DEF Shape
  <2>2. IsFiniteSet(Met(account, now - Window))
    BY MetFinite
  <2>3. Cardinality(Met(account, now - Window)) > UniqueLimit
    BY <2>1, <2>2, FS_CardinalityType
  <2>4. CASE \E w \in Workers : Walking(w, account)
    BY <2>4 DEF Walking, Underway
  <2>5. CASE Alerted(<<"account", account>>, now - Window + 1)
    BY <2>1, <2>5 DEF Alerted, RaisedSince, Walked
  <2>. QED
    BY <2>1, <2>3, <2>4, <2>5 DEF Walked
<1>. QED
  BY <1>1, <1>2, <1>3, PTL DEF Spec

-----------------------------------------------------------------------------
(* Automated clients.  Whoever recorded the last request of a listed       *)
(* client in a burst has what the table shows of it still to judge, or the *)
(* client was alerted for a moment ago.                                    *)

Request == [at : Nat, browser : BOOLEAN]

Judging(w, c) ==
    pc[w] = "judgeBot" /\ job[w].event.client = c /\ job[w].found = clients[c].requests

Clients ==
    \A c \in DOMAIN clients :
      /\ clients[c].requests \in Seq(Request)
      /\ \A i \in DOMAIN clients[c].requests : clients[c].requests[i].at <= now

Listed ==
    /\ \A s \in DOMAIN raised : raised[s] \in Nat /\ raised[s] <= now
    /\ \A c \in DOMAIN clients \cap mode.listed :
         CountSince(clients[c].requests, now - 1) > Burst =>
           \/ \E w \in Workers : Judging(w, c)
           \/ Alerted(<<"R-BOT-001", c>>, now)

LEMMA ListedInit == Init => Clients /\ Listed
BY DEF Init, Clients, Listed, Nothing

LEMMA CountFalls ==
    ASSUME NEW r \in Seq(Request), NEW a \in Int, NEW b \in Int, b <= a
    PROVE  /\ CountSince(r, a) \in Nat /\ CountSince(r, b) \in Nat
           /\ CountSince(r, a) <= CountSince(r, b)
<1>. DEFINE A == {i \in DOMAIN r : r[i].at > a}
            B == {i \in DOMAIN r : r[i].at > b}
<1>1. IsFiniteSet(DOMAIN r)
  <2>1. DOMAIN r = 1 .. Len(r) /\ Len(r) \in Nat
    OBVIOUS
  <2>. QED
    BY <2>1, FS_Interval
<1>2. IsFiniteSet(B)
  BY <1>1, FS_Subset
<1>3. A \subseteq B
  <2>. SUFFICES ASSUME NEW i \in DOMAIN r, r[i].at > a PROVE r[i].at > b
    OBVIOUS
  <2>1. r[i] \in Request
    OBVIOUS
  <2>. QED
    BY <2>1 DEF Request
<1>4. IsFiniteSet(A) /\ Cardinality(A) <= Cardinality(B)
  BY <1>2, <1>3, FS_Subset
<1>5. Cardinality(A) \in Nat /\ Cardinality(B) \in Nat
  BY <1>2, <1>4, FS_CardinalityType
<1>. QED
  BY <1>4, <1>5 DEF CountSince

(* A fingerprint on the list and a burst are enough for an alert. *)
LEMMA ListedBurstScores ==
    ASSUME NEW script \in BOOLEAN, NEW regular \in BOOLEAN, NEW bare \in BOOLEAN
    PROVE  BotScore(TRUE, script, regular, TRUE, bare) >= AlertScore
BY DEF BotScore, Least, AlertScore

LEMMA RecordedRequests ==
    ASSUME Shape, Clients, NEW w \in Workers, ObserveClient(w)
    PROVE  LET c == job[w].event.client
           IN  /\ \A d \in DOMAIN clients' : d # c => d \in DOMAIN clients /\ clients'[d] = clients[d]
               /\ \/ /\ c \notin DOMAIN clients'
                  \/ /\ c \in DOMAIN clients' /\ pc'[w] = "judgeBot" /\ job'[w].event = job[w].event
                     /\ job'[w].found = clients'[c].requests
                     /\ clients'[c].requests \in Seq(Request)
                     /\ \A i \in DOMAIN clients'[c].requests : clients'[c].requests[i].at <= now
<1>. DEFINE e == job[w].event
            at == job[w].at
            known == e.client \in DOMAIN clients
            table == IF ~known /\ Cardinality(DOMAIN clients) >= mode.room
                     THEN Pruned(at) ELSE clients
            old == IF known THEN clients[e.client].requests ELSE <<>>
            request == [at |-> at, browser |-> e.browser]
            requests == Recent(Append(old, request))
<1>1. /\ pc[w] = "table" /\ job[w] \in Job(w) /\ at \in Nat /\ at <= now /\ now \in Nat
      /\ request \in Request /\ request.at <= now
  BY DetectionAssumption DEF ObserveClient, Shape, Job, Request
<1>2. /\ \A d \in DOMAIN table : d \in DOMAIN clients /\ table[d] = clients[d]
      /\ ~known => e.client \notin DOMAIN table
  BY DEF Pruned, Without
<1>3. /\ old \in Seq(Request)
      /\ \A i \in DOMAIN old : old[i].at <= now
  BY DEF Clients
<1>4. \/ /\ ~known /\ clients' = table
      \/ /\ clients' = Put(table, e.client, [requests |-> requests, lastSeen |-> at])
         /\ job' = [job EXCEPT ![w].found = requests]
         /\ Goto(w, "judgeBot")
  BY DEF ObserveClient
<1>. HIDE DEF old, table, request
<1>5. /\ requests \in Seq(Request)
      /\ \A i \in DOMAIN requests : requests[i].at <= now
  <2>. DEFINE longer == Append(old, request)
  <2>1. longer \in Seq(Request) /\ Len(longer) = Len(old) + 1
    BY <1>1, <1>3
  <2>2. ASSUME NEW i \in DOMAIN longer PROVE longer[i].at <= now
    <3>1. longer[i] = request \/ (i \in DOMAIN old /\ longer[i] = old[i])
      BY <1>1, <1>3, <2>1
    <3>. QED
      BY <3>1, <1>1, <1>3
  <2>3. requests = longer \/ (Len(longer) > History /\ requests = Tail(longer))
    BY DEF Recent
  <2>. HIDE DEF longer, requests
  <2>4. CASE requests = Tail(longer) /\ Len(longer) > History
    <3>1. History \in Nat
      BY DetectionAssumption
    <3>2. /\ Tail(longer) \in Seq(Request)
          /\ \A i \in DOMAIN Tail(longer) : i + 1 \in DOMAIN longer /\ Tail(longer)[i] = longer[i + 1]
      BY <2>1, <2>4, <3>1
    <3>. QED
      BY <2>2, <2>4, <3>2
  <2>. QED
    BY <2>1, <2>2, <2>3, <2>4
<1>. HIDE DEF requests
<1>. QED
  BY <1>1, <1>2, <1>4, <1>5 DEF Put, Goto, Shape, Job

LEMMA ClientsStep == Shape /\ Clients /\ [Next]_vars => Clients'
<1>. SUFFICES ASSUME Shape, Clients, [Next]_vars PROVE Clients'
  OBVIOUS
<1>0. now \in Nat
  BY DEF Shape
<1>1. ASSUME NEW w \in Workers, ObserveClient(w) PROVE Clients'
  <2>1. now' = now
    BY <1>1 DEF ObserveClient
  <2>. QED
    BY <1>1, <2>1, RecordedRequests DEF Clients
<1>2. CASE CleanClients
  BY <1>2 DEF CleanClients, Pruned, Without, Clients
<1>3. CASE Tick
  <2>1. now' = now + 1 /\ clients' = clients
    BY <1>3 DEF Tick, engines
  <2>2. ASSUME NEW c \in DOMAIN clients, NEW i \in DOMAIN clients[c].requests
        PROVE  clients[c].requests[i].at <= now + 1
    <3>1. clients[c].requests[i] \in Request /\ clients[c].requests[i].at <= now
      BY DEF Clients
    <3>. QED
      BY <1>0, <3>1 DEF Request
  <2>. QED
    BY <2>1, <2>2 DEF Clients
<1>4. CASE UNCHANGED <<now, clients>>
  BY <1>4 DEF Clients
<1>. QED
  BY <1>1, <1>2, <1>3, <1>4 DEF Next, Process, Take, RecordAccess, RecordFailure, EvaluateBola,
     ReadTracker, JudgeTracker, ReadRoles, JudgeRole, Raise, EvaluateDlp, ArriveBot,
     JudgeClient, CleanBola, CleanTrackers, CopyRows, Fitted, vars, engines

LEMMA ListedProcess ==
    ASSUME Shape, Clients, Listed, NEW w \in Workers, Process(w)
    PROVE  Listed'
<1>0. now' = now /\ now \in Nat /\ mode' = mode
  BY WorkerMoves DEF Shape
<1>1. RaisedGrows
  BY ProcessRaises
<1>2. \A s \in DOMAIN raised' : raised'[s] \in Nat /\ raised'[s] <= now'
  BY <1>0, <1>1 DEF RaisedGrows, Listed
<1>3. \A s : Alerted(s, now) => Alerted(s, now)'
  BY <1>0, <1>1 DEF RaisedGrows, Alerted
<1>4. ASSUME NEW c \in DOMAIN clients', c \in mode.listed,
             CountSince(clients'[c].requests, now - 1) > Burst,
             ~ \E u \in Workers : Judging(u, c)'
      PROVE  Alerted(<<"R-BOT-001", c>>, now)'
  <2>1. c \in DOMAIN clients /\ clients'[c] = clients[c]
    <3>1. CASE ObserveClient(w)
      BY <3>1, <1>4, RecordedRequests DEF Judging
    <3>2. CASE ~ObserveClient(w)
      <4>1. UNCHANGED clients
        BY <3>2 DEF Process, Take, RecordAccess, RecordFailure, EvaluateBola, ReadTracker,
           JudgeTracker, ReadRoles, JudgeRole, Raise, EvaluateDlp, ArriveBot, JudgeClient, engines
      <4>. QED
        BY <4>1, <1>4
    <3>. QED
      BY <3>1, <3>2
  <2>2. ASSUME NEW u \in Workers, Judging(u, c), u # w
        PROVE  FALSE
    <3>1. Judging(u, c)'
      BY <2>1, <2>2, OthersStay DEF Judging
    <3>. QED
      BY <1>4, <3>1
  <2>3. CASE Judging(w, c)
    <3>1. JudgeClient(w) /\ job[w] \in Job(w) /\ job[w].at <= now
      BY <2>3 DEF Judging, Shape, Process, Take, RecordAccess, RecordFailure, EvaluateBola,
         ReadTracker, JudgeTracker, ReadRoles, JudgeRole, Raise, EvaluateDlp, ArriveBot, ObserveClient
    <3>2. PICK regular \in Regularity(job[w].found) :
            LET score == BotScore(c \in mode.listed, job[w].event.script, regular,
                                  Bursting(job[w].found, job[w].at), Bare(job[w].found))
            IN  raised' = IF score >= AlertScore
                          THEN Put(raised, <<"R-BOT-001", c>>, now) ELSE raised
      BY <2>3, <3>1 DEF Judging, JudgeClient
    <3>3. Bursting(job[w].found, job[w].at)
      <4>1. job[w].found \in Seq(Request) /\ job[w].found = clients'[c].requests
        BY <2>1, <2>3 DEF Judging, Clients
      <4>2. job[w].at \in Nat
        BY <3>1 DEF Job
      <4>3. /\ CountSince(job[w].found, job[w].at - 1) \in Nat
            /\ CountSince(job[w].found, now - 1) \in Nat
            /\ CountSince(job[w].found, now - 1) <= CountSince(job[w].found, job[w].at - 1)
        <5>1. now - 1 \in Int /\ job[w].at - 1 \in Int /\ job[w].at - 1 <= now - 1
          BY <1>0, <3>1, <4>2
        <5>. QED
          BY <4>1, <5>1, CountFalls
      <4>4. Burst \in Nat
        BY DetectionAssumption
      <4>. QED
        BY <1>4, <4>1, <4>3, <4>4 DEF Bursting
    <3>4. regular \in BOOLEAN /\ job[w].event.script \in BOOLEAN /\ Bare(job[w].found) \in BOOLEAN
      <4>1. regular \in BOOLEAN
        BY DEF Regularity
      <4>2. Bare(job[w].found) \in BOOLEAN
        BY DEF Bare
      <4>3. job[w].event.script \in BOOLEAN
        BY <3>1, DetectionAssumption DEF Shape, Job
      <4>. QED
        BY <4>1, <4>2, <4>3
    <3>5. raised' = Put(raised, <<"R-BOT-001", c>>, now)
      BY <1>4, <3>2, <3>3, <3>4, ListedBurstScores
    <3>. QED
      BY <1>0, <3>5 DEF Alerted, Put
  <2>. QED
    BY <1>3, <1>4, <2>1, <2>2, <2>3 DEF Listed
<1>. QED
  BY <1>0, <1>2, <1>4 DEF Listed

LEMMA ListedStep == Shape /\ Clients /\ Listed /\ [Next]_vars => Listed'
<1>. SUFFICES ASSUME Shape, Clients, Listed, [Next]_vars PROVE Listed'
  OBVIOUS
<1>1. ASSUME NEW w \in Workers, Process(w) PROVE Listed'
  BY <1>1, ListedProcess
<1>2. CASE CleanClients
  <2>1. UNCHANGED <<now, mode, pc, job, raised>>
    BY <1>2 DEF CleanClients
  <2>2. \A c \in DOMAIN clients' : c \in DOMAIN clients /\ clients'[c] = clients[c]
    BY <1>2 DEF CleanClients, Pruned, Without
  <2>3. ASSUME NEW c \in DOMAIN clients', NEW u \in Workers, Judging(u, c)
        PROVE  Judging(u, c)'
    BY <2>1, <2>2, <2>3 DEF Judging
  <2>. QED
    BY <2>1, <2>2, <2>3 DEF Listed, Alerted
<1>3. CASE Tick
  <2>1. now' = now + 1 /\ now \in Nat /\ UNCHANGED <<mode, raised, clients>>
    BY <1>3 DEF Tick, Shape, engines
  <2>2. ASSUME NEW c \in DOMAIN clients'
        PROVE  ~(CountSince(clients'[c].requests, now' - 1) > Burst)
    <3>1. clients[c].requests \in Seq(Request)
      BY <2>1, <2>2 DEF Clients
    <3>2. ASSUME NEW i \in DOMAIN clients[c].requests
          PROVE  ~(clients[c].requests[i].at > now' - 1)
      <4>1. clients[c].requests[i] \in Request /\ clients[c].requests[i].at <= now
        BY <2>1, <2>2, <3>1, <3>2 DEF Clients
      <4>. QED
        BY <2>1, <4>1 DEF Request
    <3>3. {i \in DOMAIN clients[c].requests : clients[c].requests[i].at > now' - 1} = {}
      BY <3>2
    <3>4. CountSince(clients[c].requests, now' - 1) = 0
      BY <3>3, FS_EmptySet DEF CountSince
    <3>. QED
      BY <2>1, <3>4, DetectionAssumption
  <2>3. \A s \in DOMAIN raised' : raised'[s] \in Nat /\ raised'[s] <= now'
    BY <2>1 DEF Listed
  <2>. QED
    BY <2>2, <2>3 DEF Listed
<1>4. CASE UNCHANGED <<now, mode, pc, job, raised, clients>>
  BY <1>4 DEF Listed, Judging, Alerted
<1>. QED
  BY <1>1, <1>2, <1>3, <1>4 DEF Next, CleanBola, CleanTrackers, CopyRows, Fitted, vars, engines

(* A client with a listed fingerprint that is in a burst has been alerted  *)
(* for within the minute, or a worker is about to judge it, for any number *)
(* of workers and clients, any room in the table and any lengths of the    *)
(* burst and of the history that can show it (bot.go, server.go:526-545).  *)
THEOREM ListedBurstsAreAlerted == Spec => []ListedBurstIsAlerted
<1>1. Init => Shape /\ Clients /\ Listed
  BY ShapeInit, ListedInit
<1>2. Shape /\ Clients /\ Listed /\ [Next]_vars => Shape' /\ Clients' /\ Listed'
  BY ShapeStep, ClientsStep, ListedStep
<1>3. Shape /\ Clients /\ Listed => ListedBurstIsAlerted
  <2>. SUFFICES ASSUME Shape, Clients, Listed, NEW c \in DOMAIN clients \cap mode.listed,
                       ~(CountSince(clients[c].requests, now - 1) <= Burst)
                PROVE  \/ Underway({"judgeBot"}, LAMBDA e : e.client = c)
                       \/ RaisedSince(<<"R-BOT-001", c>>, now - 1)
    BY DEF ListedBurstIsAlerted
  <2>1. now - 1 \in Int /\ now \in Nat /\ Burst \in Nat /\ now > now - 1
    BY DetectionAssumption DEF Shape
  <2>2. CountSince(clients[c].requests, now - 1) \in Nat
    <3>1. clients[c].requests \in Seq(Request)
      BY DEF Clients
    <3>. QED
      BY <2>1, <3>1, CountFalls
  <2>3. CountSince(clients[c].requests, now - 1) > Burst
    BY <2>1, <2>2
  <2>4. CASE \E w \in Workers : Judging(w, c)
    BY <2>4 DEF Judging, Underway
  <2>5. CASE Alerted(<<"R-BOT-001", c>>, now)
    BY <2>1, <2>5 DEF Alerted, RaisedSince, Listed
  <2>. QED
    BY <2>3, <2>4, <2>5 DEF Listed
<1>. QED
  BY <1>1, <1>2, <1>3, PTL DEF Spec
=============================================================================
