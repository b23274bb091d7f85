----------------------------- MODULE Detection -----------------------------
(***************************************************************************)
(* The detection engines (platform/internal/engine) as the ingest workers  *)
(* drive them (processIngestEvent of server.go): per-account windows of    *)
(* object accesses and the anomaly model over them, failure trackers per   *)
(* address, the role matrix, the table of automated clients, the cooldown  *)
(* of stored events, and the alert an event raises.                        *)
(*                                                                         *)
(* Every engine locks for itself, so the workers meet between its steps.   *)
(* Time is in minutes.  Scores are kept as far as they decide about an     *)
(* alert; DetectionProofs relates the limits to the engines' formulas.     *)
(***************************************************************************)
EXTENDS Integers, Sequences, FiniteSets, Scores, Tables

CONSTANTS
    Workers,
    Trainers,                          \* goroutines that fit a model
    Modes,                             \* circumstances, see Init
    UniqueLimit, Window, BaselineTTL,  \* bola.go: 20, 5, 24 * 60
    MinUnique,                         \* bola_ml.go: 10
    MinSamples, MaxSamples, SampleEvery, RetrainEvery,
    FailRate, UserLimit, TrackerTTL,   \* auth_failure.go: 10, 5, 60
    MinBaseline, Share,                \* bfla.go: 10, one in 20
    Burst, History, MinGaps,           \* bot.go: 100, 120, 10
    IdleTTL,                           \* bot.go: 30
    Cooldown, MaxKeys                  \* cooldown.go: 10, 10000

ASSUME DetectionAssumption ==
    /\ {UniqueLimit, MinUnique, FailRate, UserLimit, MinBaseline, Burst, MinGaps, MaxKeys}
         \subseteq Nat
    /\ {Window, SampleEvery, RetrainEvery, TrackerTTL, IdleTTL, Cooldown} \subseteq Nat \ {0}
    /\ MaxSamples \in Nat /\ MinSamples \in 1..MaxSamples
    /\ Share \in Nat \ {0}
    /\ History \in Nat /\ Burst < History    \* else no history could show a burst
    /\ BaselineTTL \in Nat /\ Window <= BaselineTTL
    /\ \A m \in Modes : \A e \in m.events : {e.failed, e.script, e.browser} \subseteq BOOLEAN

VARIABLES
    mode,      \* which events come, how many, whether the model is on
    now,
    left,      \* how many events are still to come
    pc, job,   \* each worker's step, and its event with what it has found
    roles,     \* roleMatrix of the management endpoint
    trackers,  \* failTracker
    base,      \* accountBase: how many accesses of each account there were,
               \* those in the window by their numbers, when the last one was
    clients,   \* the bot engine's clients
    last,      \* the cooldown of each engine
    ml,        \* the anomaly model and its training data
    trainer,
    stored,    \* ghost: how often an event was stored under a key, and the
               \* time it had when it last was
    raised,    \* ghost: when an alert was last raised for a subject
    accessed   \* ghost: the accesses of the last window, whatever was kept

vars == <<mode, now, left, pc, job, roles, trackers, base, clients, last, ml, trainer,
          stored, raised, accessed>>

engines == <<roles, trackers, base, clients, last, ml, trainer>>

Engines == {"bola", "auth", "bfla", "dlp", "bot"}
Roles == {"admin", "user"}

(* A mode is a set of events, how many of them come until when, the        *)
(* fingerprints on the deny list, whether FLOWLENS_BOLA_ML is on, and how  *)
(* many of the maxBotClients places other clients leave.  An event has ip, *)
(* account, role, endpoint ("plain", "admin", "export"), object, failed    *)
(* (status 401), data (what the response shows), client, script, browser.  *)
Init ==
    /\ mode \in Modes
    /\ now = 0 /\ left = mode.take
    /\ pc = [w \in Workers |-> "idle"] /\ job = [w \in Workers |-> <<>>]
    /\ roles = [r \in Roles |-> 0]
    /\ trackers = Nothing /\ base = Nothing /\ clients = Nothing
    /\ last = [e \in Engines |-> Nothing]
    /\ ml = [sampled |-> Nothing, samples |-> 0, training |-> FALSE,
             lastTrain |-> -RetrainEvery, seed |-> 1, model |-> 0]
    /\ trainer = [f \in Trainers |-> [pc |-> "idle", rows |-> 0, seed |-> 0]]
    /\ stored = Nothing /\ raised = Nothing /\ accessed = {}

Goto(w, step) == pc' = [pc EXCEPT ![w] = step]

-----------------------------------------------------------------------------
(* cooldown.go                                                             *)

(* Mutant of Expired: the keys that still count are pruned. *)
ExpiredFresh(keys, at) == {k \in DOMAIN keys : at - keys[k] < Cooldown}

Expired(keys, at) == {k \in DOMAIN keys : at - keys[k] >= Cooldown}

(* allow: whether the event is then saved or its saving fails, the key is  *)
(* taken.                                                                  *)
Store(engine, key, at) ==
    LET keys == last[engine] IN
    IF key \in DOMAIN keys /\ at - keys[key] < Cooldown
    THEN UNCHANGED <<last, stored>>
    ELSE /\ last' = [last EXCEPT ![engine] =
                       Put(IF Cardinality(DOMAIN keys) > MaxKeys
                           THEN Without(keys, Expired(keys, at)) ELSE keys, key, at)]
         /\ stored' = Put(stored, <<engine, key>>,
                [times |-> Get(stored, <<engine, key>>, [times |-> 0]).times + 1, at |-> at])

StoreIf(hit, engine, key, at) ==
    IF hit THEN Store(engine, key, at) ELSE UNCHANGED <<last, stored>>

-----------------------------------------------------------------------------
(* processIngestEvent                                                      *)

IsAdmin(e) == e.endpoint = "admin"

(* Accesses to other endpoints are recorded too, and never looked at.      *)
AfterTake(e) == IF IsAdmin(e) THEN "access" ELSE IF e.failed THEN "failure" ELSE "bola"

Take(w) ==
    /\ pc[w] = "idle" /\ left > 0 /\ left' = left - 1
    /\ \E e \in mode.events :
         /\ job' = [job EXCEPT ![w] = [event |-> e, risk |-> 0, at |-> 0, found |-> <<>>]]
         /\ Goto(w, AfterTake(e))
    /\ UNCHANGED <<mode, now, engines, stored, raised, accessed>>

RecordAccess(w) ==
    LET e == job[w].event IN
    /\ pc[w] = "access"
    /\ roles' = [roles EXCEPT ![e.role] = @ + 1]
    /\ Goto(w, IF e.failed THEN "failure" ELSE "bola")
    /\ UNCHANGED <<mode, now, left, job, trackers, base, clients, last, ml, trainer,
                   stored, raised, accessed>>

NewTracker == [count |-> 0, users |-> {}, first |-> now, last |-> now]

RecordFailure(w) ==
    LET e == job[w].event
        old == Get(trackers, e.ip, NewTracker)
    IN  /\ pc[w] = "failure"
        /\ trackers' = Put(trackers, e.ip, [old EXCEPT !.count = @ + 1,
                                                       !.users = @ \cup {e.account}, !.last = now])
        /\ Goto(w, "bola")
        /\ UNCHANGED <<mode, now, left, job, roles, base, clients, last, ml, trainer,
                       stored, raised, accessed>>

-----------------------------------------------------------------------------
(* bola.go, bola_ml.go                                                     *)

(* Mutant of InWindow: only what happens right now. *)
InWindowNow(accesses) == {i \in DOMAIN accesses : accesses[i].at >= now}

(* The numbers of the accesses that count. *)
InWindow(accesses) == {i \in DOMAIN accesses : accesses[i].at > now - Window}

Objects(accesses) == {accesses[i].object : i \in DOMAIN accesses}

NewBaseline == [total |-> 0, window |-> Nothing, lastAccess |-> 0]

(* The scores that matter: 71 to 80 and 90 to 100 of the rules, 70 to 92   *)
(* of the model.  Whether an account is an outlier is not computed.        *)
BolaRisks(unique, accesses) ==
    IF unique > UniqueLimit THEN {71, 90}
    ELSE IF /\ mode.ml /\ ml.model > 0
            /\ unique >= MinUnique /\ 10 * unique >= 7 * accesses
         THEN {0, 70, 92} ELSE {0}

(* observeLocked: one row of an account in a while, and a training run     *)
(* when it is due.                                                         *)
Sampled(account) ==
    [ml EXCEPT !.sampled = Put(@, account, now), !.samples = Least(@ + 1, MaxSamples)]

Due(m) == ~m.training /\ m.samples >= MinSamples /\ now - m.lastTrain >= RetrainEvery

Sample(account) ==
    IF ~mode.ml \/ (account \in DOMAIN ml.sampled /\ now - ml.sampled[account] < SampleEvery)
    THEN UNCHANGED <<ml, trainer>>
    ELSE LET m == Sampled(account) IN
         IF Due(m)
         THEN /\ ml' = [m EXCEPT !.training = TRUE, !.lastTrain = now]
              /\ \E f \in Trainers :
                   /\ trainer[f].pc = "idle"
                   /\ trainer' = [trainer EXCEPT ![f].pc = "started"]
         ELSE ml' = m /\ UNCHANGED trainer

(* BOLAEngine.Evaluate, under the engine's lock from end to end.           *)
EvaluateBola(w) ==
    LET e == job[w].event
        old == Get(base, e.account, NewBaseline)
        all == Put(old.window, old.total + 1, [object |-> e.object, at |-> now])
        kept == [i \in InWindow(all) |-> all[i]]
    IN  /\ pc[w] = "bola"
        /\ base' = Put(base, e.account, [total |-> old.total + 1, window |-> kept,
                                         lastAccess |-> now])
        /\ accessed' = {a \in accessed : a.at > now - Window}
                         \cup {[account |-> e.account, object |-> e.object, at |-> now]}
        /\ Sample(e.account)
        /\ \E risk \in BolaRisks(Cardinality(Objects(kept)), Cardinality(DOMAIN kept)) :
             /\ job' = [job EXCEPT ![w].risk = risk]
             /\ StoreIf(risk >= AlertScore, "bola", e.account, now)
        /\ Goto(w, "auth")
        /\ UNCHANGED <<mode, now, left, roles, trackers, clients, raised>>

(* Mutant of Unlocked: the next run may begin while this one is fitting. *)
UnlockedEarly(m) == [m EXCEPT !.seed = @ + 1, !.training = FALSE]

Unlocked(m) == [m EXCEPT !.seed = @ + 1]

(* Retrain: the rows are copied, fitted without the lock, put in place.    *)
CopyRows(f) ==
    /\ trainer[f].pc = "started"
    /\ trainer' = [trainer EXCEPT ![f] = [pc |-> "fitting", rows |-> ml.samples, seed |-> ml.seed]]
    /\ ml' = Unlocked(ml)
    /\ UNCHANGED <<mode, now, left, pc, job, roles, trackers, base, clients, last,
                   stored, raised, accessed>>

Fitted(f) ==
    /\ trainer[f].pc = "fitting"
    /\ trainer' = [trainer EXCEPT ![f].pc = "idle"]
    /\ \/ /\ trainer[f].rows >= MinSamples
          /\ ml' = [ml EXCEPT !.training = FALSE, !.model = trainer[f].seed]
       \/ ml' = [ml EXCEPT !.training = FALSE]
    /\ UNCHANGED <<mode, now, left, pc, job, roles, trackers, base, clients, last,
                   stored, raised, accessed>>

(* StartCleanup *)
CleanBola ==
    LET idle == {a \in DOMAIN base : now - base[a].lastAccess > BaselineTTL} IN
    /\ idle # {} /\ base' = Without(base, idle)
    /\ UNCHANGED <<mode, now, left, pc, job, roles, trackers, clients, last, ml, trainer,
                   stored, raised, accessed>>

-----------------------------------------------------------------------------
(* auth_failure.go                                                         *)

AfterAuth(e) == IF IsAdmin(e) /\ e.role # "admin" THEN "bfla" ELSE "raise"

(* Mutant of Snapshot: what was there before the failure at hand. *)
SnapshotBefore(e) ==
    LET t == trackers[e.ip] IN IF e.failed THEN [t EXCEPT !.count = @ - 1] ELSE t

Snapshot(e) == trackers[e.ip]

(* Evaluate reads the tracker under the lock ...                           *)
ReadTracker(w) ==
    LET e == job[w].event IN
    /\ pc[w] = "auth"
    /\ IF e.ip \in DOMAIN trackers
       THEN job' = [job EXCEPT ![w].found = Snapshot(e)] /\ Goto(w, "judge")
       ELSE UNCHANGED job /\ Goto(w, AfterAuth(e))
    /\ UNCHANGED <<mode, now, left, engines, stored, raised, accessed>>

Stuffing(t) ==
    LET minutes == IF now - t.first < 1 THEN 1 ELSE now - t.first
    IN  t.count > FailRate * minutes /\ Cardinality(t.users) > UserLimit

Higher(w, risk) == job' = [job EXCEPT ![w].risk = IF risk > @ THEN risk ELSE @, ![w].found = <<>>]

(* ... and judges it without.                                              *)
JudgeTracker(w) ==
    LET e == job[w].event
        hit == Stuffing(job[w].found)
    IN  /\ pc[w] = "judge"
        /\ Higher(w, IF hit THEN 80 ELSE 0)
        /\ StoreIf(hit, "auth", e.ip, now)
        /\ Goto(w, AfterAuth(e))
        /\ UNCHANGED <<mode, now, left, roles, trackers, base, clients, ml, trainer,
                       raised, accessed>>

(* StartCleanup *)
CleanTrackers ==
    LET idle == {ip \in DOMAIN trackers : now - trackers[ip].last > TrackerTTL} IN
    /\ idle # {} /\ trackers' = Without(trackers, idle)
    /\ UNCHANGED <<mode, now, left, pc, job, roles, base, clients, last, ml, trainer,
                   stored, raised, accessed>>

-----------------------------------------------------------------------------
(* bfla.go: no privileged role, on the management endpoint.                *)

ReadRoles(w) ==
    /\ pc[w] = "bfla"
    /\ job' = [job EXCEPT ![w].found = [own |-> roles[job[w].event.role],
                                        total |-> roles["admin"] + roles["user"]]]
    /\ Goto(w, "judgeRole")
    /\ UNCHANGED <<mode, now, left, engines, stored, raised, accessed>>

JudgeRole(w) ==
    LET e == job[w].event
        f == job[w].found
        hit == f.total < MinBaseline \/ Share * f.own < f.total
    IN  /\ pc[w] = "judgeRole"
        /\ Higher(w, IF hit THEN 75 ELSE 0)
        /\ StoreIf(hit, "bfla", <<e.account, e.endpoint>>, now)
        /\ Goto(w, "raise")
        /\ UNCHANGED <<mode, now, left, roles, trackers, base, clients, ml, trainer,
                       raised, accessed>>

-----------------------------------------------------------------------------
(* The alert of the first three engines.                                   *)

(* Sensitive fields on an export path count where the engines found less.  *)
ByExport(w) ==
    job[w].event.endpoint = "export" /\ job[w].event.data # "none" /\ job[w].risk < 75

(* detectionMetadata, ruleIDForRequirement *)
RuleOf(w) ==
    LET e == job[w].event IN
    IF ByExport(w) THEN "R-DLP-001" ELSE IF e.failed THEN "R-AUTH-001"
    ELSE IF IsAdmin(e) THEN "R-BFLA-001" ELSE "R-BOLA-001"

(* Mutant of Alerting: an alert takes more than 71. *)
AlertingAbove(w) == job[w].risk > 71 \/ ByExport(w)

Alerting(w) == job[w].risk >= AlertScore \/ ByExport(w)

HasFindings(e) == e.data \in {"masked", "bulk", "open"}

Raise(w) ==
    LET e == job[w].event IN
    /\ pc[w] = "raise"
    /\ raised' = IF Alerting(w)
                 THEN Put(Put(raised, <<RuleOf(w), e.ip>>, now), <<"account", e.account>>, now)
                 ELSE raised
    /\ job' = [job EXCEPT ![w].risk = 0]
    /\ Goto(w, IF HasFindings(e) THEN "dlp" ELSE "bot")
    /\ UNCHANGED <<mode, now, left, engines, stored, accessed>>

(* detectSensitiveData: values left unmasked ("open"), or too many of them *)
(* ("bulk").                                                               *)
EvaluateDlp(w) ==
    LET e == job[w].event
        hit == e.data \in {"bulk", "open"}
    IN  /\ pc[w] = "dlp"
        /\ StoreIf(hit, "dlp", <<e.endpoint, e.data>>, now)
        /\ raised' = IF hit THEN Put(raised, <<"R-DLP-001", e.ip>>, now) ELSE raised
        /\ Goto(w, "bot")
        /\ UNCHANGED <<mode, now, left, job, roles, trackers, base, clients, ml, trainer, accessed>>

-----------------------------------------------------------------------------
(* bot.go                                                                  *)

(* Observe takes the time before it waits for the lock.                    *)
ArriveBot(w) ==
    /\ pc[w] = "bot"
    /\ job' = [job EXCEPT ![w].at = now]
    /\ Goto(w, "table")
    /\ UNCHANGED <<mode, now, left, engines, stored, raised, accessed>>

(* pruneLocked *)
Pruned(at) == Without(clients, {c \in DOMAIN clients : at - clients[c].lastSeen > IdleTTL})

Recent(requests) == IF Len(requests) > History THEN Tail(requests) ELSE requests

(* When the table is full of active clients a new one is not looked at.    *)
ObserveClient(w) ==
    LET e == job[w].event
        at == job[w].at
        known == e.client \in DOMAIN clients
        table == IF ~known /\ Cardinality(DOMAIN clients) >= mode.room THEN Pruned(at) ELSE clients
        old == IF known THEN clients[e.client].requests ELSE <<>>
        requests == Recent(Append(old, [at |-> at, browser |-> e.browser]))
    IN  /\ pc[w] = "table"
        /\ IF ~known /\ Cardinality(DOMAIN table) >= mode.room
           THEN clients' = table /\ job' = [job EXCEPT ![w] = <<>>] /\ Goto(w, "idle")
           ELSE /\ clients' = Put(table, e.client, [requests |-> requests, lastSeen |-> at])
                /\ job' = [job EXCEPT ![w].found = requests]
                /\ Goto(w, "judgeBot")
        /\ UNCHANGED <<mode, now, left, roles, trackers, base, last, ml, trainer,
                       stored, raised, accessed>>

CountSince(requests, since) ==
    Cardinality({i \in DOMAIN requests : requests[i].at > since})

(* Mutant of Bursting: counted from the request at hand. *)
BurstingFromHere(requests, at) == CountSince(requests, at) > Burst

Bursting(requests, at) == CountSince(requests, at - 1) > Burst

(* Whether the seconds between the requests are regular is not computed.   *)
Regularity(requests) == IF Len(requests) > MinGaps THEN BOOLEAN ELSE {FALSE}

Bare(requests) == Len(requests) >= MinGaps /\ \A i \in DOMAIN requests : ~requests[i].browser

JudgeClient(w) ==
    LET e == job[w].event
        at == job[w].at
        requests == job[w].found
    IN  /\ pc[w] = "judgeBot"
        /\ \E regular \in Regularity(requests) :
             LET score == BotScore(e.client \in mode.listed, e.script, regular,
                                   Bursting(requests, at), Bare(requests))
             IN  /\ StoreIf(score >= 50, "bot", e.client, at)
                 /\ raised' = IF score >= AlertScore
                              THEN Put(raised, <<"R-BOT-001", e.client>>, now) ELSE raised
        /\ job' = [job EXCEPT ![w] = <<>>] /\ Goto(w, "idle")
        /\ UNCHANGED <<mode, now, left, roles, trackers, base, clients, ml, trainer, accessed>>

(* StartCleanup *)
CleanClients ==
    /\ clients' = Pruned(now) /\ clients' # clients
    /\ UNCHANGED <<mode, now, left, pc, job, roles, trackers, base, last, ml, trainer,
                   stored, raised, accessed>>

-----------------------------------------------------------------------------
Tick ==
    /\ now < mode.until /\ now' = now + 1
    /\ UNCHANGED <<mode, left, pc, job, engines, stored, raised, accessed>>

(* processIngestEvent, from one engine to the next. *)
Process(w) ==
    \/ Take(w) \/ RecordAccess(w) \/ RecordFailure(w) \/ EvaluateBola(w)
    \/ ReadTracker(w) \/ JudgeTracker(w) \/ ReadRoles(w) \/ JudgeRole(w)
    \/ Raise(w) \/ EvaluateDlp(w) \/ ArriveBot(w) \/ ObserveClient(w) \/ JudgeClient(w)

Next ==
    \/ \E w \in Workers : Process(w)
    \/ \E f \in Trainers : CopyRows(f) \/ Fitted(f)
    \/ CleanBola \/ CleanTrackers \/ CleanClients \/ Tick

Spec == Init /\ [][Next]_vars

-----------------------------------------------------------------------------
(* Properties.                                                             *)

RaisedSince(subject, since) == subject \in DOMAIN raised /\ raised[subject] > since

(* Some event that fits is between its engine and its alert. *)
Underway(steps, Fits(_)) == \E w \in Workers : pc[w] \in steps /\ Fits(job[w].event)

(* An address that fails too often under too many names has been alerted   *)
(* for since its tracker began, however the workers that counted its       *)
(* failures and those that judged them took turns.                         *)
BurstIsAlerted ==
    \A ip \in DOMAIN trackers :
      \/ ~Stuffing(trackers[ip])
      \/ Underway({"bola", "auth", "judge", "bfla", "judgeRole", "raise"},
                  LAMBDA e : e.ip = ip /\ e.failed)
      \/ RaisedSince(<<"R-AUTH-001", ip>>, trackers[ip].first - 1)

(* An account that met too many objects within the window has been alerted *)
(* for within it, by whatever name the alert goes.                         *)
TraversalIsAlerted ==
    \A account \in {a.account : a \in accessed} :
      \/ Cardinality({a.object : a \in {x \in accessed : x.account = account /\ x.at > now - Window}})
           <= UniqueLimit
      \/ Underway({"auth", "judge", "bfla", "judgeRole", "raise"}, LAMBDA e : e.account = account)
      \/ RaisedSince(<<"account", account>>, now - Window)

(* A client with a listed fingerprint that is in the table and in a burst  *)
(* has been alerted for within the minute, although each worker counts     *)
(* from the time at which it came to the lock.                             *)
ListedBurstIsAlerted ==
    \A c \in DOMAIN clients \cap mode.listed :
      \/ CountSince(clients[c].requests, now - 1) <= Burst
      \/ Underway({"judgeBot"}, LAMBDA e : e.client = c)
      \/ RaisedSince(<<"R-BOT-001", c>>, now - 1)

(* Under one key an engine stores no two events closer than the cooldown,  *)
(* with concurrent workers, stale times and pruned keys.  The bot engine   *)
(* may give one a time a little earlier: another worker pruned its key at  *)
(* a later time than the one at which this one came to the lock.           *)
EventsSpaced ==
    [][\A k \in DOMAIN stored : stored'[k] # stored[k] =>
          \/ stored'[k].at - stored[k].at >= Cooldown
          \/ k[1] = "bot" /\ now - stored[k].at >= Cooldown]_vars

(* The anomaly model in use never gives way to one fitted on an earlier    *)
(* copy of the samples.                                                    *)
ModelNeverOlder == [][ml'.model >= ml.model]_vars
=============================================================================
