# FlowLens: a TLA+ model of the platform

FlowLens watches API traffic, raises alerts, opens work orders for them, and
blocks source addresses on gateways and WAFs. This directory holds
specifications of the platform's own logic, written from the Go source, the TLC
configurations that check them, and proofs that TLAPS checks.

Run `tlc -config X.cfg M` and `tlapm M.tla` in this directory. `PROJECT.json`
lists the runs, maps every definition to the lines it models, and lists the
hazards (what is hard to test in this code) with the properties that watch them.

## 1. The system

| Component | State it keeps | Operations | Talks to |
|---|---|---|---|
| SOAR manager (`soar/soar.go`) | blocks, the hourly charges, policy; copies of the blocks in the document store | Block, Unblock, ExpireDue every 30 s, Load | connectors, document store |
| Connectors (`soar/{kong,apisix,nginx,aliyun,webhook,simulator}.go`) | none of their own: the list or rules live in the gateway or WAF | Block, Unblock, Check | gateways over HTTP, nginx through a file and a command |
| Persister (`service/persist.go`) | the dirty set, `writeMu` | writeThrough, markDirty, flush every 2 s | repository |
| Tickets (`service/ticket_service.go`) | tickets, latest ticket of an alert and of an attack group | Create, EnsureForAlert, Assign, Comment, Transition, NoteAlertAction | persister; a callback into alerts |
| Alerts (`service/alert_service.go`) | alerts, the alert a repeat detection merges into | CreateDetectionAlert, RecordDisposal, SetStatus | persister |
| Rules, assets, agents (`service/*.go`) | records with users' settings and traffic's counters | update / Claim / RegisterWithID; IncrementHit / ObserveEvent / UpdateHeartbeat | persister |
| Identity (`iam/`) | accounts, sessions and policy in the identity store; policy cache, IP windows | Login, Authenticate, ChangePassword, account administration | store, audit |
| Audit (`audit/`) | the hash chain, the checkpoint, the running full verification | Record, Verify, VerifyIncremental, StartFullVerify, Purge | store |
| Ingest (`ingest/pipeline.go`) | queue, ids seen, counters | Submit, workers, clean-up, Close | processEvent in `server/server.go` |
| Detection engines (`engine/`, `ml/`) | windows, trackers, role matrix, cooldowns, a trained model | one call per event, clean-ups | alerts |
| Streams (`stream/`) | a bounded queue and a batch per sink | Publish, flush, Close | Kafka REST, ClickHouse |
| Collector agent (`agent/`) | registration, a channel, a batch, a tail position | tail, batch, send, register, heartbeat | gateway log, platform's HTTP API |
| API graph (`graph/graph.go`) | nodes, edges, activity of sources | Observe, Prune, views | ingest workers |
| Attack paths (`graph/attack.go`) | none: read from alerts | the attack view | alerts |
| Asset inventory (`service/asset_service.go`) | callers, top callers, latency window of each asset | ObserveEvent, save, load | persister |
| Compliance report, console | none | views of the above | services |

An event goes agent -> ingest queue -> a worker -> asset statistics, engines,
alert (new or merged) -> ticket. A person goes console -> session -> service ->
`writeThrough`, and every change leaves an audit record. A block goes console ->
SOAR manager -> each connector, and comes off by an operator or by the ticker.

What is hard here:

- Locks are short. Services release their mutex around saves and connector
  calls, and use what they read before it afterwards (block to extend, `before`
  copy of a ticket, row of an account).
- A failure comes late. A save that fails is undone in memory after others may
  have seen and changed the record; a connector may have acted though its
  answer was lost.
- Some things must eventually happen: expiry of a block, flushing of a dirty
  record, registration of an agent.
- What was checked is stale when it is used: an account's row, the policy, a
  session, a tail position, a model trained on earlier events, an audit
  checkpoint whose record retention may drop.
- Everything is bounded, and something happens at each bound: queues drop,
  tables turn away or forget, windows wrap round, caps are charged.
- Several processes may run (replicas), with mutexes that know nothing of each
  other; and any of them may stop between two steps.

## 2. Modules

| Module | What it models | Uses |
|---|---|---|
| `Soar` | the manager: one action per mutex section and per connector call | |
| `Connector` | what the manager takes a list-keeping connector to be (abstract) | |
| `DenyList` | Kong, APISIX and nginx as read-modify-write of a list | `Connector`, refined |
| `Persister` | write-through, dirty marks, flush, rollback, crash | |
| `Workflow` | alerts and tickets together: merging, grouping, review, callbacks, rollbacks | |
| `Accounts` | operator accounts: login, administration, the sessions they end | |
| `Sessions` | how sessions age, the cached policy, the login limit of an address | |
| `AuditTrail` | the chain of audit records, its verification, retention | |
| `Intake` | what the platform promises a sender of events (abstract) | |
| `Ingest` | batch handler, table of ids, queue, workers, sinks, shutdown | |
| `Collector` | the agent beside a gateway: tail, channel, batches, requests | |
| `Delivery` | agent and platform together, with a network that loses answers | `Collector`, `Ingest`; refines `Intake` |
| `Scores` | the engines' score formulas with the code's numbers | |
| `Tables` | Go maps: put, delete, look up | |
| `Detection` | the engines under concurrent workers, clean-ups and training | `Scores`, `Tables` |
| `Slices` | Go slices: stable sorting, keeping what passes a test | |
| `ApiGraph` | the flow graph and the activity of sources | `Tables`, `Slices` |
| `AttackPaths` | grouping, order and cut-off of the attack view | `Slices` |
| `Assets` | calls by address, top callers, latencies | `Tables`, `Slices` |
| `Traffic` | what one event leaves in graph and inventory, and alerts in paths | `ApiGraph`, `Assets`, `AttackPaths` |
| `MC*` | constants for TLC | the module |
| `*Proofs` | theorems; `SoarProofs` has those of `DenyList` too, `DetectionProofs` those of `Scores`, `PersisterProofs` those of `Traffic` | the modules, TLAPS |

Most modules have a variable `mode`: a circumstance chosen in `Init` and never
changed, such as "saves fail" or "one request at a time". A run then covers
several circumstances, and a property that holds only in some names them. The
fields of `mode` that only say how many requests are made, or until when, are
bounds of the model.

### Soar

A thread is a goroutine serving one call. `BlockBegin` is the first mutex section
of `Manager.Block` (guardrails, hourly cap, the block to extend); `BlockCall` is
one connector's call, made without the lock; `BlockEnd` is the last section:
merge the results, compute the state, charge the cap, save. `UnblockBegin`,
`ReleaseBegin`, `ReleaseCall` and `ReleaseEnd` are Unblock and `release`;
`SweepBegin`, `SweepNext` and `SweepEnd` are a pass of ExpireDue, which collects
the due blocks first and releases them one by one. `Restart` is a crash followed
by `Load`. A call may have its answer lost (`LostReplies`), a save may fail and
is then only logged (`SaveFails`). A connector in `RuleConns` (Aliyun) makes a
rule per call and needs its reference to delete it; the others keep a set.
Addresses, connectors and lifetimes are abstract; the target of a request, its
lifetime and the connectors it names are inputs. Check and the cache of
connectivity results touch nothing else and are left out.

### DenyList and Connector

`DenyList` follows one connector kind, chosen in `Init`. Read, write and (nginx)
reload are separate actions, a mutex serialises the calls of one replica, and
each may fail. nginx's reload command is optional (`reloads`): without one the call
ends when the file is written, and the file comes into force when somebody else
reloads nginx (`OthersReload`, an action of the environment). Kong creates its plugin
with the first address, and the gateway refuses a second plugin. With `Cut`, the answer of a write is lost or the process
stops in the middle. `Connector` is the promise in the comment of `soar.Adapter`;
`KeepsPromise` says that `DenyList` implements it. The refinement mapping is the
identity on `call`, and takes `enforced` to `InCharge`: what is really denied, or,
for nginx without a reload command, the addresses in the file, which is all the
connector answers for then. `FileAgrees` is about an nginx that has the command.

### Persister

A record is what the property needs: the set of numbered user changes it holds
and the number of traffic updates it counted. `Change` is the first half of
`TicketService.mutate`, `RuleService.update`, `AssetService.Claim`,
`AlertService.SetStatus` and so on; `Snapshot`, `Save`/`SaveFails`, `ClearDirty`
and `Undo` are the rest, through `writeThrough`. The rollback has two forms in
the code: tickets, rules and agents put the whole record back, alerts and assets
only the changed fields (`use.undo`). `Hit` and `MarkDirty` are the traffic side;
`FlushTake`, `Snapshot`, `Save` are the flush. `use` also says which records are
changed by users, which by traffic, whether a record has one user at a time, and
whether saves fail.

### Workflow

`TicketService` and `AlertService`, with the ingest workers and the people who
use them. An action is a section of a service's mutex: `Detect` is
`CreateDetectionAlert`; `Ensure` and `AutoCreate` are the two sections of
`EnsureForAlert`, which gives the lock up in between; `Create`, `CreateSaved` and
`CreateFails` are `create` with its save; `Annotate`, `Transition` and `Note` enter
`Mutate`, the first section of `mutate`, and `ChangeSaved` or `ChangeFails` (the
rollback) is the second; `Sync` is the callback that `SetAlertSync` installs, which
runs after the ticket's save and without its lock; `Dispose` is `RecordDisposal`,
after which a block is noted on the alert's ticket (`NoteLookup`, `Note`). `Age` is
time passing beyond the merge window. A rollback that meets a deleted ticket
panics with the mutex held: gin recovers the goroutine, nobody unlocks, and `stuck`
says so.

Left out: the owner of a ticket (and with it the guard that work starts with an
owner), history, comments' text, due dates, the self-review the demo mode allows,
and everything of an alert that is only shown.

### Accounts

A request (`Procs`) is a goroutine: it reads an account's row, works on its copy
and writes the whole row back, and nothing is locked in between. So reading, the
guard that counts the other managers, writing, and signing out are separate
actions, and two requests about one account overlap. The requests are login
(lockout, inactivity, expiry, forced change), a change of one's own password, and
the administrator's: create, role, disable and enable, unlock, reset of a
password, expiry, delete. `Bootstrap` makes the seeded accounts one after the
other and may be broken off. A session is a token and the account it belongs to;
which of them a change ends follows the code. PostgreSQL refuses to create a
session for a deleted account (`references`), the memory store does not.

Three variables are ghosts: `chosen`, the passwords an owner chose; `guesses`, how
often a wrong password was compared since the account was last cleared; `decided`,
what administrators settled last.

### Sessions

`Authenticate` reads the session, then the policy and the clock, and then
refreshes or deletes the session: each is a call of the store. The refresh is
skipped when last-seen is younger than `TouchGap`, the policy is cached for
`PolicyTTL`, and a policy that cannot be read leaves the cached or default one.
`Cleanup` deletes in the background. The login limiter is a fixed window per
address, in memory, lost in a restart; a login then creates a session. The ghost
`attempts` is a set: each attempt with its time and its number in its window.

### AuditTrail

The trail is a table, as it is in both stores: a record for each sequence number
that is still held, so that a record that is lost or a month that is dropped leaves
a gap and moves nothing. A hash is a number: `s` for the record appended with
sequence number `s`, `-s` for one rewritten together with its hash. `Append1` takes
the tail's hash and number in one step (a mutex in MemStore, `FOR UPDATE` on the head
row in PostgreSQL). Incremental verification starts at the checkpoint, the full one
at the beginning; both read in batches while others append and retention drops.
Retention is one step in memory; in PostgreSQL it lists the months to drop and drops
them one by one. Calls of PostgreSQL fail: a drop (`PurgeFails`), the read of a batch
(`WalkFails`: the request is told so, the verification in the background counts as
failed), of the checkpoint (`Loaded`: as if there were none) or of the oldest record
(`PurgedBefore`: as if it had been purged), and the write of the checkpoint or of
the record of the result, whose errors the code drops.
`Damage` alters, rewrites or removes one record behind the code's back: that is
the event the trail exists to reveal. The properties compare the verdict with what
was really done to the trail during the walk.

### Collector, Ingest, Delivery and Intake

`Collector`: the gateway writes lines, possibly in pieces, and the log is
truncated or renamed under `tailLoop`, whose actions are its wait for the file,
its reads, its look at the path, and its second read before it opens the new
file. Events go through a channel that drops when full into a batch, and
`SendEvents` posts it. `Ingest`: a batch handler takes the events one by one;
checking an id in the table and offering the event to the queue are two locked
sections with a gap between them; the table has `Room` entries, each for `TTL`,
with the code's pruning. Workers handle events and publish to the configured
sinks, which drop when full and flush in batches and once more at `Close`. `phase`
is the order of the shutdown in `cmd/main.go`. `Delivery` joins the two: a request
may be lost before it arrives, its answer may be lost, its caller may give up, and
another sender submits batches that overlap.

`Intake` is the promise: an event taken is handled, once for each time it was
taken, and is not taken again for `TTL` unless the table was crowded. The
refinement maps `held` to the number of copies of an event in the queue and with
the workers, `stopped` to `phase # "serving"`, and `Slack` to the senders less one
(each may hold a place in the table for an event it will be refused).

### Detection and Scores

An ingest worker takes an event through the engines: the cooldown, object
accesses per account (BOLA) and the anomaly model on them, failures per address,
the role matrix (BFLA), values in answers (DLP), automated clients, and then the
alert. Every engine has its own lock, so each is an action and workers meet in
between. The engines' clean-ups are actions that run as soon as the code's age
test allows. Training of the model takes its samples under the lock, fits without
it, and installs the result. Time is in minutes. `Scores` has the formulas with
the code's numbers; `Detection` keeps only on which side of a limit a count lies,
and `DetectionProofs` shows where those limits are. Whether an account is an outlier
(an isolation forest, floating-point statistics) and whether intervals are regular
is left to chance, so no property relies on it.

### ApiGraph, AttackPaths, Assets and Traffic

`Process` is what a worker leaves behind for one event: the flow graph with its
caps on nodes and edges, the activity of the event's source with its caps on
actors and touches, an asset's calls by address with the list of the top callers,
and its ring of latencies. Events carry their own time and may be late. `Prune`
drops by age. A restart loses the graph and finds the assets as saved last. The
views (the flow view, P95, attack paths) are operators over that state. The
latency window is compared with `recent`, a ghost of every latency an asset ever
counted.

`Slices` says what `sort.SliceStable` and a filtering loop do without recursion:
the member at place `p` of `Arranged(S, R)` is the one with `p - 1` others before it
in the order `R`. That can be evaluated on small slices and reasoned about for all.
The one loop that changes state as it goes, over an observation's sensitive fields,
is a recursive function (`exposed`).

## 3. Runs

| Run | Question | Answer |
|---|---|---|
| `soar` | two goroutines, a rule-creating connector, lost answers, failing saves, a restart, a policy that switches dry-run: what survives? | a block given up on holds nothing, live results stay until lifted, and a due block does not stay in force |
| `soar_release_race` | ... and does every enforced address get through again? | no: see 5.1 |
| `denylist` | do three callers of one process keep the connector's promise? | yes; for nginx when it has a reload command that reports truthfully, and without one as far as the file goes |
| `persister` | are saved changes kept, failed ones gone, unsaved records marked? | yes, within the uses section 4 explains |
| `workflow` | two workers and two people: is work reviewed by a second person, is an alert covered by one ticket, is it in step with it? | yes, each in the circumstances it names |
| `accounts` | do overlapping requests on whole rows keep duties held, passwords temporary, guessing at login bounded, decisions and deletions final? | temporary passwords and deletions in every interleaving, the others in turn |
| `sessions` | do the limits hold although the refresh lags, the policy is cached and the window is fixed? | yes, within the slack each property states |
| `audit` | is every alarm real, is damage found, and does the checkpoint cover what it says, while retention and appends go on and calls of the store fail? | yes, with the exceptions in 5 |
| `delivery` | from a log line to the sinks: is each event handled once when it is taken, in order, with losses counted, and flushed at exit? | yes; `KeepsIntake` is the refinement with its liveness |
| `detection` | is a burst found by concurrent workers although engines forget, tables are full and events are deduplicated? | yes |
| `traffic` | do graph, activity, top callers and latencies agree with each other at their caps? | yes |
| `traffic_finished` | are finished alerts left out of the attack paths? | no: see 5.2 |

**Bounds.** `soar` and `soar_release_race`: two threads are enough for every race
described here (each needs one other actor); one address, one connector, two calls,
two time units with lifetimes of one, so that a block is renewed, expires and is
swept while another call runs; one restart between any two steps.
`denylist`: three callers, two addresses and four calls, so the plugin is
created, kept, deleted and created again while others wait; nginx with and without
a reload command. `persister`: two
users' goroutines and the flusher, three changes, two traffic updates, one crash.
`workflow`: one attack, two alerts (the second once the first has aged or is
closed), two tickets; three requests when everything interleaves, which is enough
for a change during a creation and another one on top, and four or five when
people take turns, enough to submit, approve, reopen and close again.
`accounts`: four accounts, an empty installation and one with two signed-in
system administrators, a disabled third and an audit administrator, so that a
guard has one, two or no other managers to count; three requests in turn, two that
overlap; lockout at two, so that the last try is the second; one step of time,
after which locks have run out. `sessions`: time 0 to 7 with idle limits 2 and 3,
so that a session is refreshed several times, ages out both ways, and meets a
policy update while its cache is old; six logins against two a minute.
`audit`: four records in batches of two, so that a walk is interrupted in the
middle and drops happen before, at and after the checkpoint. `delivery`: see the
comment of each mode in `MCDelivery`; the queue holds one, the table three, a sink
two, each of which is exceeded. `detection`: limits of one, so that the second
event is over them; two minutes' windows; six kinds of events. `traffic`: six
nodes and edges, three actors, two touches, two top callers of three tracked, a
window of two latencies; four to seven events exceed each of them, in the modes of
`MCTraffic` named for them. The 95th percentile of two latencies is the larger one,
so the run does not tell one rank from another; `PercentileCorrect` does, for a
window of any size.
The proofs remove these bounds for the properties they cover.

Deadlock is not checked: when the bounded inputs are used up, or the process has
exited, the models rightly stop. Symmetry is used only over threads, workers,
people and interchangeable accounts, in runs without liveness.

**Fairness.** In Soar a call in progress ends (WF of `Step`): every connector call
has a 20 s timeout and no lock is held across one. The ticker starts a pass while
a block is due (WF of `SweepBegin`, `Manager.Run`). The clock runs (WF of `Tick`).
A connector that is called again and again answers some call (SF of
`LiftSucceeds`); a connector that is down for ever keeps its blocks, and so does
the code. In Delivery the tail keeps polling (WF of `FollowLog`: a goroutine with
a ticker) and the platform's workers are scheduled (WF of `Work` and `Done`: a
`for range` over the queue, and a handler that returns); no request need ever
arrive, and no line be written. In Intake handling goes on until the platform
stops. `FairSpec` of Persister and of Workflow serve the counterexamples of
section 5: the maintenance ticker keeps flushing and the repository does not fail
every flush for ever; a goroutine that can go on does. New requests of operators
and people have no fairness anywhere.

## 4. Proofs

All proofs hold for every value of the constants that the named assumptions
allow: any number of threads, addresses, connectors, records, accounts and calls.

- `SoarProofs`: `TypeCorrect`; `FailedCorrect` (a block given up on holds no live
  result), whose invariant adds that the results a running call has collected
  are its own; `LiveKept` and `DryRun`, action properties from the type
  invariant and the collected results; `CapCorrect` (the cap is exceeded by at
  most the other threads), by bounding the recent charges plus the calls between
  check and charge, with cardinality lemmas.
- `SoarProofs`, last part, about `DenyList`, each under `OneProcess` (every caller is
  of one replica, which is how the platform is deployed): `ListTypeCorrect`;
  `ListFileCorrect`, about an nginx with a reload command; `ListRefines`, which for an
  nginx without one is about the file: while no reload is under way, what the
  connector answers for (`InCharge`) is the list (`ListInCharge`), and the list read
  under the mutex is still the list when it is written, which is the invariant that
  makes each write one step of `Connector`.
- `PersisterProofs`: `TypeCorrect`, which includes that `writeMu` is held by one
  goroutine; `AckedCorrect`; `FailedCorrect`; `UnsavedCorrect`. The inductive
  invariant has three parts. `Roles`: users' goroutines save the record they changed and the flusher
  saves records that traffic changed. `DoneGrow`: without failing saves, the
  repository's changes are within the copy being saved, which is within
  memory's, so no save can drop one. `Owned`: with one user per record, memory
  differs from the repository by at most the change being saved, the `before`
  copy is what the repository has, and each change is in one record only.
  `CountedMarked` is about the records that only traffic changes: what memory has
  ahead of the repository is marked or in a flush, and what a flush carries is
  behind memory only if the record was marked again meanwhile.
- `WorkflowProofs`: `TypeCorrect`; `ReviewedCorrect` (four eyes); `IndexedCorrect`.
  One inductive invariant serves all three. `GoodTicket` is what is true of a
  ticket's value, and the invariant asks it of the tickets *and* of the copies that
  running changes keep for a rollback: a rollback can put an old value back at any
  time, so it is not enough that the present one is good. `Unshared` says that a
  ticket whose creation may still be undone is in no attack's index and in no other
  alert's entry, which is why removing one entry is enough when it is deleted. The
  proofs assume nothing of the mode: saves may fail and nobody takes turns.
  The rest, on top of that invariant, is for behaviours in which saves
  succeed. Lemmas first reduce every step to what it does to one thread, to one
  alert and to one ticket (`Moved`, `Shared`, `Opened`). `CoveredCorrect` then needs
  only that an alert never leaves the index and that a worker leaves an alert only
  once it is there. `OneOpenCorrect`: an open ticket is the one its alerts lead to
  (`OpenIndexed`), because a new one is made only for an alert without an open one;
  for attacks (`GroupIndexed`) a worker's finding that the attack has no ticket must
  still hold when it opens one (`Undecided`), which is where detections must come
  one at a time. `InStepCorrect`: a closed ticket's alert has its judgement unless
  somebody still carries the outcome, and what is carried is still true of the
  ticket (`Carried`), which is where people must take turns; workers need not.
- `SessionsProofs`: `TypeCorrect`; `AcceptedCorrect`, from `Timely`, which holds in
  every mode: a live session was last seen no later than it was last used, and ends
  within some policy's lifetime of its sign-in, and so does the copy of it that a
  request carries; `SignedInCorrect`, from `Turns`: while requests take turns and
  settings can be read, the cached policy is the stored one when it is used and the
  refresh lags the use by `TouchGap` at most. `AttemptsCorrect`, from `Limited`: the
  running window has let through no more than it counts, and neither had the one
  before it, so a minute anywhere meets two windows at most.
- `AccountsProofs`, in two layers. `Sound` holds in every mode: types, and that
  the row a request carries is of an account that was made and is not the first
  row of a new one, so a stale write cannot create; that gives `TypeCorrect`,
  `TemporaryCorrect` and `DeletedStays` whatever overlaps. `Turns` holds when
  requests take turns: `InTurn` (one request is under way, and its copy is what
  the table has until it writes), `Counted` (the failures in the row are the
  guesses made at login), `DecisionKept`, and `DutyIsHeld` with what a request that passed
  the guard still relies on; that gives `DutyCorrect`, `DecisionCorrect` and
  `GuessesCorrect`. The second layer is exactly what fails when requests overlap.
- `AuditTrailProofs`: `AlarmsCorrect`, `DamageIsFoundCorrect`, `CheckpointCorrect`
  and `OnlyOldCorrect`, for any number of verifications at a time, any batch, month
  and retention, with damage, broken-off purges and failing calls at any point. `Chain` and `Months`
  say what the table is: numbers and times ascend, each record follows the one
  before it, what a purge still has to drop is old, and an undamaged trail has no
  gap behind a record that stays. `Sealed` is what a checkpoint is worth: all that is
  left up to it was walked by a verification that passed. `Good` is what a running
  verification knows, at each of its steps: how far it has read (`Progress`), that
  all before is vouched for (`Covered`), that none of it shows damage that was there
  when it began (`Clean`), and, on a trail nobody disturbed, that it cannot run into a
  gap (`Undisturbed`). Each half of the walk, a batch that follows and a break, is a
  lemma; damage after the start of a walk falls under none of the promises.
- `DeliveryProofs`, for any number of senders, workers, lines and files:
  - `FlushedAtExitCorrect`, from `Flushed`: a closed sink has an empty batch and
    nothing in its channel but what came after its `Close`.
  - `DuplicatesWereTaken` and `IntakeKept`, the safety half of `KeepsIntake`: the
    initial states of `Delivery` map to those of `Intake` and every step to a step
    of it or to a stutter. Both rest on `Table`: an id that is in the table was taken
    when it says, or somebody holds it right now; an event taken within `TTL` that is
    not in the table, or is held again, was taken when the table was crowded; and
    an event held without a place in the table shows that it is crowded now. The hard
    steps are a pruning that forgets and a refused offer that removes what another
    request put in.
  - `LinesComeInOrder`: with a log that is renamed, from `Renamed` (the open file ends
    where the path's begins, and the tail has read exactly up to its offset); with one
    that is truncated, from `Truncating` (what is not read yet is newer, also what is
    read again from the start).
  - `LossCounted`: `SentOnce` (an event of the log is in one place between tail and
    request, in the order of the lines) and `Counted` (of the part of a request that
    is settled, no more events are untaken than it reports dropped).
- `DetectionProofs`, first where each engine reaches the score that raises an alert:
  `BolaAlertsAboveTwenty`, `ModelOnlyAdds` (the anomaly model never lowers a score),
  `AuthAlertsAboveTenAMinute`, `DlpAlertsAreFounded`, `BotAlertTakesTwoSignals`, and
  `NewcomerPassesInTheGap`, a gap in the role matrix (5). They justify the single
  limits that `Detection` keeps in place of the formulas. Then, for any number of
  workers, limits and events:
  - `BurstsAreAlerted`, from `Caught`: failures of an address above the limit were
    alerted for since they began, or the worker that counted the last of them still
    has it in hand.
  - `TraversalsAreAlerted`, from `Baselines` (the window has every access within it,
    whatever was cut off) and `Walked` (more objects than the limit since any moment
    of the window were alerted for since, or are in some worker's hand).
  - `ListedBurstsAreAlerted`, from `Clients` and `Listed`, the same for the requests
    of a listed client, which are read and judged in two sections.
  - `EventsStaySpaced`, from `Spacing`: a key an engine knows has the time of its last
    stored event, and one it forgot is older than the cooldown.
  - `ModelOnlyGetsNewer`, from `Training`: one training at a time, whose result is
    newer than the model in use.
- `PersisterProofs`, second part, about `Traffic`, for tables of any size, events of
  any age and pruning and restarts at any time:
  - `ArrangedInOrder`, on which every sorted or filtered slice rests: for a strict
    order on a finite set, `Arranged` lists each member once, in the order. `ByKey`,
    `KeptAtPlaces` and `KeptAtMembers` are its uses.
  - `TopCorrect`, from `Listed`: the list has the counts of the table, each address
    once, and one outside it has no more calls than anyone on a full list.
    `PercentileCorrect`, from `Ring`: place `p` of the window has the latency that
    `Came(p)` says, before, at and after the point where the ring comes round; the
    percentile of a sorted window is then a matter of counting places.
  - `ActivityCorrect`, from `ActivityRight`: the lists of addresses and the table of
    actors name each other, and what `topTouches` leaves out is no higher than what
    it keeps.
  - `FlowHolds`, from `GraphRight`, which is stronger than the property: an endpoint's
    service is there and was seen no earlier than the endpoint, an edge to a field
    comes from an endpoint, and the endpoint's own edge is there and no older. That
    is why neither a full table, which turns away the later links of a chain first,
    nor pruning, which keeps whatever a younger edge needs, can cut a chain. The loop
    over fields is proved by its least bad stage (`StagesRight`).
  - `AskedCorrect`: alerts are numbered as they come (`AlertsRight`), every source has
    one key (`KeysOnce`), so the alert asked for leaves one source (`WantedIsOne`),
    whose path has all its alerts (`PathMembers`).

Assumptions on the constants are named in the modules that declare them and say
what the code's own values satisfy: limits, sizes and times are natural numbers,
and sizes that are divided by or indexed with are positive (`attack.go` replaces
an `EndpointsPerActor` below one by 8); senders and workers are finite sets; in
`DetectionAssumption` a baseline outlives its window and a history is longer than
the burst it has to show; in `TrafficAssumption` an observation is a record with a
sequence of fields, and no alert has the number that stands for "not asked";
`DeliveryAssumption` keeps the events of the log apart from other senders'.

Two restrictions of `AckedIsKept` and `FailedIsGone` are real, and TLC refutes
both properties without them. With failing saves and two users of one record, U1
changes the ticket, U2 changes it on top and is saved, U1's save fails and U1
restores the ticket as it was before both: U2's acknowledged change is gone from
memory, and from the repository at the next save. And when traffic marks a
record that a user is changing, the flush saves the user's change; if the user's
own save then fails, the change is undone in memory and comes back at the next
start.

Model-checked only: the liveness properties `DueIsLifted` and `KeepsFollowing`, and
the liveness in `KeepsIntake` (`IntakeKept` is the rest of it). Liveness under
fairness and ENABLED are out of the prover's reach, and so is induction that takes
the claim as a parameter; where a proof needs one, over the stages of a loop or to
find a first occurrence, it argues with a least counterexample. Every safety
invariant and every action property that a passing run checks is a theorem.

## 5. What the checks found

By the runs:

1. `release` marks a block released after its connector calls, although another
   Block of the address may have enforced and recorded it again on the same
   block in between. The address stays enforced and nobody looks at it again
   (soar.go:383). `EveryBlockIsLifted` also fails with a restart: the process stops
   between the connector's call and the record of it.
2. The attack view leaves out alerts with the status `closed`, which no alert ever
   has; resolved and false-positive alerts stay on the paths (graph_handlers.go:62).

The following counterexamples come from the same modules with other values of the
constants or another property, and are kept out of the list of runs. Operators
named in brackets are in the `MC` module and take the place of the run's.

**SOAR and connectors.** Every Block call on Aliyun creates a rule, also for an
address whose rule is live; the stored reference is the newest, so the older rule
is never deleted (`EnforcedIsTracked`; aliyun.go:196, against docs/SOAR.md:98). Two
replicas read Kong's list and write it back: the later one undoes the earlier
(`KeepsPromise` with `Home <- TwoReplicas`; kong.go:63). With nginx in `Cut`,
`FileAgrees` fails: a reload that took effect is reported as failed and the file
is put back. Without a reload command (nginx.go:98, docs/SOAR.md:57) a block is
reported as done and the running nginx does not deny the address until somebody
reloads it; a lifted one stays denied as long (`FileAgrees` without its condition on
`reloads`, and `KeepsPromise` with `enforced` in place of `InCharge`). The cap is
tested before the connector calls and charged after them; `CapCorrect` bounds the
excess.

**Persister.** A record marked dirty between the snapshot of a write-through and
its end loses its mark, though the saved copy is the older one (`HitsReachStore`
under `FairSpec` [`MixedUse`]; persist.go:80).

**Workflow.** While a ticket's creation is being saved, somebody else can change
it. If both saves fail and the creation is undone first, the rollback of the
change dereferences a deleted ticket and panics with the mutex held; gin recovers,
and every later call of the ticket service waits for ever (`Answered` under
`FairSpec` [`FailingOnly`]; ticket_service.go:487). Reopening a ticket does not put
it back into the index of its alert: close a ticket, open a second, reopen the
first, close the second, and a third is opened (`NoDuplicateCreated`
[`ReopeningOnly`], with three tickets; ticket_service.go:570). With two workers at a
time one attack gets two tickets; with failing saves `Covered` fails (a worker
finds a ticket whose creation is then undone); without turns the callbacks of two
transitions may run in the other order and the older outcome stays on the alert.

**Accounts.** Overlapping requests break what holds in turn, each with two requests
of `Overlapping`: two administrators disable each other, each passing the
last-manager guard (`DutyIsHeld`); wrong passwords compared at the same time count
once (`LoginGuessesAreBounded`); a login that read the row before an administrator
changed the role, reset the password or disabled the account writes the old row
back (`DecisionKept`). In turn, too, a login that finds its account inactive
disables it without the guard, though it may be the last system or audit
administrator (`DutyIsHeld` without its condition on `dormant` [`DormantInTurn`];
service.go:237-250). Read from the code, without a property: an expiry date can be
set on the last manager without the guard, and a first start broken off in the
middle of `Bootstrap` leaves the missing duties with nobody, because the next start
finds accounts and makes no more. A wrong old password in ChangePassword is refused
but not counted, and locks nothing (service.go:359-362): whoever has a signed-in
session may try passwords of its account without limit, which is why
`LoginGuessesAreBounded` is about logins.

**Audit.** Retention that overlaps with a verification, or that breaks off with some
of its months dropped and an older one left (the catalogue lists them in no order),
raises a false alarm; a trail purged altogether is reported as broken (audit.go:160).
A verification in the background whose read fails is saved as the last full one,
recorded and shown with `OK=false`, like one that found a break, though its reason says
that it was interrupted (audit.go:273-276). A read that fails in `purgedBefore` counts
as purged (audit.go:203-212), and the whole trail is walked in place of a verdict.
`saveCheckpoint` can move the checkpoint back when two verifications end in the
other order. `AlarmsAreReal` and `CheckpointCovers` say what remains.

**Delivery.** A failed heartbeat marks the agent as not registered, and nothing
registers it again, though the log says it will be retried (client.go:127, 197).
`SendEvents` returns no drops for a request that failed (client.go:158), against its
comment (142). The last flush of an agent that stops uses a cancelled context, so
it never leaves (cmd/main.go:210). Lines written before the tail first finds its
file are skipped. A retry that arrives between marking an event as seen and
dropping it is answered as a duplicate of an event nobody has (pipeline.go:82,
152). Events accepted into the queue while the platform stops are lost
(pipeline.go:123), and so are records written to a sink after its `Close`. A log
renamed twice within one poll skips a file; one truncated and regrown past the
tail's position is read from the middle; and what the gateway still writes to the
old file after the second read is lost. `DuplicateWasTaken`, `EveryLineInOrder` and
`FlushedAtExit` name these conditions.

**Detection.** A role's first access to a management endpoint that others used 9 to
19 times is not flagged: the access is recorded before it is evaluated
(server.go:466, 481), and the minimum baseline and the share leave a gap
(`NewcomerPassesInTheGap`; bfla.go:67). "Two strong signals reach 70" (bot.go:35)
is not so for a scripting client in a burst, who has 60. The rate of failures is
taken since the tracker was first used and never reset, so that a burst after a
slow start is diluted. Rules' switches and parameters are not read by the engines.
Which rule an alert names follows the event's status and path, not the engine that
scored, and the two tests for a management path differ ("/adminfoo"). An event
whose save fails stays in the cooldown, and is not stored when it comes again.
Windows and cooldowns are lost in a restart. The bot engine takes an event's time
before it waits for its lock. When another worker prunes the key at a later time in
between, the event is stored with a time closer to the one before it than the
cooldown; when it is stored the cooldown has passed (`EventsSpaced`).

**Graph and inventory.** A field that two classifications name counts twice for one
event. An asset's last-seen time moves back with a late event. A data view cut off
at its limit may show a field without the service it came from.

## 6. Plan

Next, in this order: a ticket's life as the documented state machine, an abstract
specification that `Workflow` would refine while saves succeed; owners of tickets;
an agent's registration, once there is code that restores it.

Not modelled, and why: registration and heartbeats as the platform sees them (an
agent's status is computed from its last heartbeat whenever it is asked for); SQL,
migrations and the creation of partitions (storage operations are atomic and may
fail); the isolation forest (floating-point statistics); the HTTP layer, the
compliance report and the console (views without state of their own, and callers
of the modelled services); request signing, parsing of logs and configuration
(formatting); eBPF capture (a stub); deployment scripts and benchmarks.
