------------------------------ MODULE Workflow ------------------------------
(***************************************************************************)
(* Alerts and the tickets they are worked off by                           *)
(* (platform/internal/service/{alert,ticket}_service.go).                  *)
(*                                                                         *)
(* Ingest workers raise alerts and make sure that each serious one has a   *)
(* ticket.  Users open tickets, move them along and act on alerts.  Each   *)
(* service has a mutex, held in short sections: a user's change is applied *)
(* in one, saved without it, and undone in another if saving failed; the   *)
(* outcome of a ticket is carried to its alert after that.                 *)
(***************************************************************************)
EXTENDS Integers, FiniteSets

CONSTANTS
    Workers,       \* goroutines of the ingest pipeline
    Users,         \* people, each with one request at a time
    Detections,    \* what repeats are merged by: detection, account, source
    Groups, GroupOf,  \* one attack: detection and source; NoGroup if unknown
    NoGroup, Nobody,
    Modes,         \* circumstances to consider
    MaxRelated,    \* maxRelatedListed
    MaxAlerts, MaxTickets    \* bounds of the model

Threads == Workers \cup Users
AlertIds == 1 .. MaxAlerts
TicketIds == 1 .. MaxTickets
None == 0

(* fails: saving may fail; reopens: closed tickets may be reopened;        *)
(* serial: one worker and one person at a time; requests: how many people  *)
(* make (a bound).                                                         *)
Mode == [fails : BOOLEAN, reopens : BOOLEAN, serial : BOOLEAN, requests : Nat]

ASSUME WorkflowAssumption ==
    /\ Workers \cap Users = {} /\ Nobody \notin Users /\ NoGroup \notin Groups
    /\ GroupOf \in [Detections -> Groups \cup {NoGroup}]
    /\ Modes \subseteq Mode
    /\ MaxRelated \in Nat /\ MaxAlerts \in Nat /\ MaxTickets \in Nat

VARIABLES
    mode,
    alerts,    \* AlertService.alerts
    active,    \* activeDetections: the alert repeats are merged into
    tickets,   \* TicketService.tickets
    byAlert,   \* the ticket that covers an alert
    byGroup,   \* the latest ticket opened for an attack
    raised, seq,   \* numbers of alerts and of tickets made
    pc, job,   \* what each thread is doing, and its local variables
    stuck,     \* a goroutine died holding the ticket service's mutex
    requests   \* number of requests people made

vars == <<mode, alerts, active, tickets, byAlert, byGroup, raised, seq, pc, job,
          stuck, requests>>

AlertStatus == {"open", "in_progress", "resolved", "false_positive"}
TicketStatus == {"pending", "processing", "review", "done", "false_positive"}

(* recent: last seen within the merge window; disposed: it has a Disposal. *)
Alert == [det : Detections, status : AlertStatus, high : BOOLEAN,
          recent : BOOLEAN, disposed : BOOLEAN]
NoAlert == [status |-> "none"]

Ticket == [alert : AlertIds \cup {None}, group : Groups \cup {NoGroup},
           status : TicketStatus,
           submitter : Users \cup {Nobody}, closer : Users \cup {Nobody},
           related : SUBSET AlertIds]
NoTicket == [status |-> "none"]

NewTicket(a, g) ==
    [alert |-> a, group |-> g, status |-> "pending", submitter |-> Nobody,
     closer |-> Nobody, related |-> {}]

IsOpen(k) == k.status \in {"pending", "processing", "review"}
IsClosed(k) == k.status \in {"done", "false_positive"}

Job == [alert : AlertIds \cup {None}, ticket : TicketIds \cup {None},
        before : Ticket \cup {NoTicket}, prev : Alert \cup {NoAlert},
        sync : AlertStatus \cup {"none"}, note : BOOLEAN]
NoJob == [alert |-> None, ticket |-> None, before |-> NoTicket, prev |-> NoAlert,
          sync |-> "none", note |-> FALSE]

-----------------------------------------------------------------------------
Init ==
    /\ mode \in Modes
    /\ alerts = [a \in AlertIds |-> NoAlert]
    /\ active = [d \in Detections |-> None]
    /\ tickets = [i \in TicketIds |-> NoTicket]
    /\ byAlert = [a \in AlertIds |-> None]
    /\ byGroup = [g \in Groups |-> None]
    /\ raised = 0 /\ seq = 0
    /\ pc = [t \in Threads |-> "idle"]
    /\ job = [t \in Threads |-> NoJob]
    /\ stuck = FALSE /\ requests = 0

Goto(t, l, j) == pc' = [pc EXCEPT ![t] = l] /\ job' = [job EXCEPT ![t] = j]
Return(t) == Goto(t, "idle", NoJob)

(* A thread of a serial class starts only when the others are done. *)
MayStart(t, class) ==
    pc[t] = "idle" /\ (mode.serial => \A u \in class : pc[u] = "idle")

(* A person makes a request. *)
Ask(u) ==
    /\ MayStart(u, Users)
    /\ requests < mode.requests /\ requests' = requests + 1

alertVars == <<alerts, active, raised>>
ticketVars == <<tickets, byAlert, byGroup, seq, stuck>>

-----------------------------------------------------------------------------
(* The ingest path: raiseAlert.                                            *)

Mergeable(a) == a # None /\ alerts[a].status = "open" /\ alerts[a].recent

(* CreateDetectionAlert: merge into the active alert, or raise a new one.  *)
Detect(w) ==
    \E d \in Detections, high \in BOOLEAN :
      LET a == IF Mergeable(active[d]) THEN active[d] ELSE raised + 1
          x == IF a <= raised
               THEN [alerts[a] EXCEPT !.high = @ \/ high, !.recent = TRUE]
               ELSE [det |-> d, status |-> "open", high |-> high,
                     recent |-> TRUE, disposed |-> FALSE]
      IN  /\ MayStart(w, Workers) /\ a \in AlertIds
          /\ alerts' = [alerts EXCEPT ![a] = x]
          /\ active' = [active EXCEPT ![d] = a]
          /\ raised' = IF a > raised THEN a ELSE raised
          /\ IF x.high THEN Goto(w, "ensure", [NoJob EXCEPT !.alert = a])
             ELSE UNCHANGED <<pc, job>>
          /\ UNCHANGED <<mode, ticketVars, requests>>

(* Time passes: a's last occurrence falls out of the merge window. *)
Age ==
    \E a \in AlertIds :
        /\ alerts[a] # NoAlert /\ alerts[a].recent
        /\ alerts' = [alerts EXCEPT ![a].recent = FALSE]
        /\ UNCHANGED <<mode, active, raised, ticketVars, pc, job, requests>>

HasRoom(k) == Cardinality(k.related) < MaxRelated

GroupTicket(a) ==
    LET g == GroupOf[alerts[a].det]
    IN  IF g = NoGroup THEN None ELSE byGroup[g]

(* Mutant of Covers: an attack's ticket never takes in another alert. *)
CoversNever(i) == FALSE

(* The attack's ticket takes the alert in: it is open, or it was judged a  *)
(* false positive.                                                         *)
Covers(i) == i # None /\ tickets[i].status # "done"

(* Mutant of Mapped: the index does not learn of the ticket. *)
NotMapped(a, i) == byAlert

Mapped(a, i) == IF a = None THEN byAlert ELSE [byAlert EXCEPT ![a] = i]

(* EnsureForAlert up to where it gives up the lock. *)
Ensure(w) ==
    LET a == job[w].alert
        i == GroupTicket(a)
    IN  /\ pc[w] = "ensure" /\ ~stuck
        /\ \/ /\ byAlert[a] # None
              /\ Return(w) /\ UNCHANGED <<tickets, byAlert>>
           \/ /\ byAlert[a] = None /\ Covers(i)
              /\ byAlert' = Mapped(a, i)
              /\ tickets' = IF IsOpen(tickets[i]) /\ HasRoom(tickets[i])
                            THEN [tickets EXCEPT ![i].related = @ \cup {a}]
                            ELSE tickets
              /\ Return(w)
           \/ /\ byAlert[a] = None /\ ~Covers(i)
              /\ Goto(w, "create", job[w])
              /\ UNCHANGED <<tickets, byAlert>>
        /\ UNCHANGED <<mode, alertVars, byGroup, seq, stuck, requests>>

(* The check create makes. *)
HasOpenTicket(a) == a # None /\ byAlert[a] # None /\ IsOpen(tickets[byAlert[a]])

(* create, in one section of the mutex. *)
Open(i, a, g) ==
    /\ i = seq + 1 /\ i \in TicketIds
    /\ seq' = i
    /\ tickets' = [tickets EXCEPT ![i] = NewTicket(a, g)]
    /\ byAlert' = Mapped(a, i)
    /\ byGroup' = IF g = NoGroup THEN byGroup ELSE [byGroup EXCEPT ![g] = i]
    /\ UNCHANGED stuck

(* An automatic ticket; the error of create is dropped. *)
AutoCreate(w) ==
    LET a == job[w].alert
    IN  /\ pc[w] = "create" /\ ~stuck
        /\ IF HasOpenTicket(a) THEN UNCHANGED ticketVars
           ELSE Open(seq + 1, a, GroupOf[alerts[a].det])
        /\ Return(w)
        /\ UNCHANGED <<mode, alertVars, requests>>

-----------------------------------------------------------------------------
(* People and their requests.                                              *)

(* Create: refused while the alert has an open ticket, which changes       *)
(* nothing; else saved, or deleted again if that fails.                    *)
Create(u) ==
    \E a \in AlertIds \cup {None} :
        /\ Ask(u) /\ ~stuck
        /\ a # None => alerts[a] # NoAlert
        /\ ~HasOpenTicket(a)
        /\ Open(seq + 1, a, NoGroup)
        /\ Goto(u, "created", [NoJob EXCEPT !.alert = a, !.ticket = seq + 1])
        /\ UNCHANGED <<mode, alertVars>>

CreateSaved(u) ==
    /\ pc[u] = "created" /\ ~stuck
    /\ Return(u)
    /\ UNCHANGED <<mode, alertVars, ticketVars, requests>>

Unmapped(a, i) ==
    IF a # None /\ byAlert[a] = i THEN [byAlert EXCEPT ![a] = None] ELSE byAlert

CreateFails(u) ==
    /\ mode.fails
    /\ pc[u] = "created" /\ ~stuck
    /\ tickets' = [tickets EXCEPT ![job[u].ticket] = NoTicket]
    /\ byAlert' = Unmapped(job[u].alert, job[u].ticket)
    /\ Return(u)
    /\ UNCHANGED <<mode, alertVars, byGroup, seq, stuck, requests>>

(* mutate: k replaces ticket i, in the first section of the mutex. *)
Mutate(u, i, k, sync) ==
    /\ ~stuck /\ tickets[i] # NoTicket
    /\ tickets' = [tickets EXCEPT ![i] = k]
    /\ Goto(u, "save", [NoJob EXCEPT !.ticket = i, !.before = tickets[i],
                                    !.alert = tickets[i].alert, !.sync = sync])
    /\ UNCHANGED <<mode, alertVars, byAlert, byGroup, seq, stuck>>

(* Comment and Assign: the history and the owner are not modelled. *)
Annotate(u) ==
    \E i \in TicketIds : Ask(u) /\ Mutate(u, i, tickets[i], "none")

(* The table of transitions. *)
MovesFrom(status) ==
    CASE status = "pending"        -> {"processing", "false_positive"}
      [] status = "processing"     -> {"review", "false_positive"}
      [] status = "review"         -> {"done", "processing", "false_positive"}
      [] status = "done"           -> {"processing"}
      [] status = "false_positive" -> {"processing"}
      [] OTHER                     -> {}

(* Mutant of MayApprove: the reviewer is not compared with the submitter. *)
AnyoneApproves(k, u) == TRUE

MayApprove(k, u) == k.submitter # u

SubmitterAfter(k, to, u) ==
    CASE to = "review" -> u
      [] to = "processing" /\ k.status = "review" -> Nobody
      [] OTHER -> k.submitter

(* Mutant of Outcome: every closed ticket resolves its alert. *)
AlwaysResolved(from, to) ==
    IF to \in {"done", "false_positive"} THEN "resolved" ELSE "none"

(* What the alert is told of a transition. *)
Outcome(from, to) ==
    CASE to = "done" -> "resolved"
      [] to = "false_positive" -> "false_positive"
      [] to = "processing" /\ from \in {"done", "false_positive"} -> "in_progress"
      [] OTHER -> "none"

(* Transition.  Requests name an owner and give a note where one is needed. *)
Transition(u) ==
    \E i \in TicketIds, to \in TicketStatus :
      LET k == tickets[i]
      IN  /\ Ask(u)
          /\ to \in MovesFrom(k.status)
          /\ IsClosed(k) => mode.reopens
          /\ to = "done" => MayApprove(k, u)
          /\ Mutate(u, i,
                    [k EXCEPT !.status = to, !.submitter = SubmitterAfter(k, to, u),
                              !.closer = IF to = "done" THEN u ELSE Nobody],
                    Outcome(k.status, to))

(* The change is saved, unless the ticket was deleted meanwhile: then the  *)
(* answer is an error and the alert is not told.                           *)
ChangeSaved(u) ==
    LET j == job[u]
    IN  /\ pc[u] = "save" /\ ~stuck
        /\ IF tickets[j.ticket] = NoTicket \/ j.sync = "none" \/ j.alert = None
           THEN Return(u) ELSE Goto(u, "sync", j)
        /\ UNCHANGED <<mode, alertVars, ticketVars, requests>>

(* Saving failed.  If the ticket was deleted meanwhile the rollback        *)
(* dereferences nil while it holds the mutex, and nothing releases that.   *)
ChangeFails(u) ==
    LET j == job[u]
        gone == tickets[j.ticket] = NoTicket
    IN  /\ mode.fails
        /\ pc[u] = "save" /\ ~stuck
        /\ tickets' = IF gone THEN tickets ELSE [tickets EXCEPT ![j.ticket] = j.before]
        /\ stuck' = gone
        /\ Return(u)
        /\ UNCHANGED <<mode, alertVars, byAlert, byGroup, seq, requests>>

(* The callback: AlertService.SetStatus, whose failure is only logged. *)
Sync(u) ==
    LET a == job[u].alert
    IN  /\ pc[u] = "sync"
        /\ alerts' = [alerts EXCEPT ![a].status = job[u].sync]
        /\ Goto(u, "synced", [job[u] EXCEPT !.prev = alerts[a]])
        /\ UNCHANGED <<mode, active, raised, ticketVars, requests>>

SyncSaved(u) ==
    /\ pc[u] = "synced"
    /\ Return(u)
    /\ UNCHANGED <<mode, alertVars, ticketVars, requests>>

SyncFails(u) ==
    /\ mode.fails
    /\ pc[u] = "synced"
    /\ alerts' = [alerts EXCEPT ![job[u].alert].status = job[u].prev.status]
    /\ Return(u)
    /\ UNCHANGED <<mode, active, raised, ticketVars, requests>>

(* RecordDisposal of an action that failed, was taken, or was a block; a   *)
(* block is also noted on the alert's open ticket.                         *)
Dispose(u) ==
    \E a \in AlertIds, how \in {"failed", "taken", "blocked"} :
        /\ Ask(u) /\ alerts[a] # NoAlert
        /\ alerts' = [alerts EXCEPT ![a].status = IF how = "failed" THEN @ ELSE "in_progress",
                                    ![a].disposed = TRUE]
        /\ Goto(u, "disposed", [NoJob EXCEPT !.alert = a, !.prev = alerts[a],
                                             !.note = how = "blocked"])
        /\ UNCHANGED <<mode, active, raised, ticketVars>>

DisposeSaved(u) ==
    /\ pc[u] = "disposed"
    /\ IF job[u].note THEN Goto(u, "note", [job[u] EXCEPT !.prev = NoAlert]) ELSE Return(u)
    /\ UNCHANGED <<mode, alertVars, ticketVars, requests>>

DisposeFails(u) ==
    LET j == job[u]
    IN  /\ mode.fails
        /\ pc[u] = "disposed"
        /\ alerts' = [alerts EXCEPT ![j.alert].status = j.prev.status,
                                    ![j.alert].disposed = j.prev.disposed]
        /\ Return(u)
        /\ UNCHANGED <<mode, active, raised, ticketVars, requests>>

(* NoteAlertAction: look the ticket up, then comment on it, whatever it    *)
(* has become in between.                                                  *)
NoteLookup(u) ==
    LET a == job[u].alert
    IN  /\ pc[u] = "note" /\ ~stuck
        /\ IF HasOpenTicket(a)
           THEN Goto(u, "noting", [NoJob EXCEPT !.ticket = byAlert[a]])
           ELSE Return(u)
        /\ UNCHANGED <<mode, alertVars, ticketVars, requests>>

Note(u) ==
    /\ pc[u] = "noting" /\ ~stuck
    /\ UNCHANGED requests
    /\ \/ Mutate(u, job[u].ticket, tickets[job[u].ticket], "none")
       \/ /\ tickets[job[u].ticket] = NoTicket
          /\ Return(u)
          /\ UNCHANGED <<mode, alertVars, ticketVars>>

-----------------------------------------------------------------------------
Handle(w) == Ensure(w) \/ AutoCreate(w)

Continue(u) ==
    \/ CreateSaved(u) \/ CreateFails(u) \/ ChangeSaved(u) \/ ChangeFails(u)
    \/ Sync(u) \/ SyncSaved(u) \/ SyncFails(u)
    \/ DisposeSaved(u) \/ DisposeFails(u) \/ NoteLookup(u) \/ Note(u)

Next ==
    \/ Age
    \/ \E w \in Workers : Detect(w) \/ Handle(w)
    \/ \E u \in Users :
          Create(u) \/ Annotate(u) \/ Transition(u) \/ Dispose(u) \/ Continue(u)

Spec == Init /\ [][Next]_vars

(* A goroutine that can go on does; new requests need not come. *)
FairSpec == Spec /\ \A w \in Workers : WF_vars(Handle(w))
                 /\ \A u \in Users : WF_vars(Continue(u))

-----------------------------------------------------------------------------
(* The values each variable takes; a ticket under review names its         *)
(* submitter, and lists no more alerts than maxRelatedListed.              *)
TypeOK ==
    /\ mode \in Modes
    /\ alerts \in [AlertIds -> Alert \cup {NoAlert}]
    /\ active \in [Detections -> AlertIds \cup {None}]
    /\ tickets \in [TicketIds -> Ticket \cup {NoTicket}]
    /\ byAlert \in [AlertIds -> TicketIds \cup {None}]
    /\ byGroup \in [Groups -> TicketIds \cup {None}]
    /\ raised \in 0 .. MaxAlerts /\ seq \in 0 .. MaxTickets
    /\ pc \in [Threads -> {"idle", "ensure", "create", "created", "save", "sync",
                           "synced", "disposed", "note", "noting"}]
    /\ job \in [Threads -> Job]
    /\ stuck \in BOOLEAN /\ requests \in Nat
    /\ \A i \in TicketIds : tickets[i] # NoTicket =>
         /\ Cardinality(tickets[i].related) <= MaxRelated
         /\ tickets[i].status = "review" => tickets[i].submitter # Nobody

(* A finished ticket was approved by somebody else than the person who     *)
(* asked for its review, whatever failed and was rolled back on the way    *)
(* (Transition, mutate).                                                   *)
ReviewedByAnother ==
    \A i \in TicketIds : tickets[i].status = "done" =>
        tickets[i].submitter # Nobody /\ tickets[i].closer # tickets[i].submitter

(* The indexes never name a ticket that a failed creation has deleted: the *)
(* ingest path and NoteAlertAction follow them without a check.            *)
IndexedExist ==
    /\ \A a \in AlertIds : byAlert[a] # None => tickets[byAlert[a]] # NoTicket
    /\ \A g \in Groups : byGroup[g] # None => tickets[byGroup[g]] # NoTicket

(* The tickets an alert is on. *)
OpenFor(a) == {i \in TicketIds : /\ tickets[i] # NoTicket /\ IsOpen(tickets[i])
                                 /\ a = tickets[i].alert \/ a \in tickets[i].related}

(* While saves do not fail and nothing is reopened, an alert is on one     *)
(* open ticket at most, opened for it or shared; and with one detection    *)
(* handled at a time an attack has one open automatic ticket at most       *)
(* (create, EnsureForAlert).                                               *)
OneOpenTicket ==
    ~mode.fails /\ ~mode.reopens =>
        /\ \A a \in AlertIds : Cardinality(OpenFor(a)) <= 1
        /\ mode.serial => \A g \in Groups :
              Cardinality({i \in TicketIds : /\ tickets[i] # NoTicket
                                             /\ IsOpen(tickets[i]) /\ tickets[i].group = g}) <= 1

(* While saves do not fail, a serious alert has a ticket or a worker that  *)
(* is about to give it one (raiseAlert).                                   *)
Covered ==
    ~mode.fails => \A a \in AlertIds : alerts[a] # NoAlert /\ alerts[a].high =>
        byAlert[a] # None \/ \E w \in Workers : pc[w] # "idle" /\ job[w].alert = a

(* When people take turns and saves do not fail, an alert that nobody      *)
(* acted on has the standing of its ticket, if it is closed and the only   *)
(* one (Transition, SetAlertSync).                                         *)
AlertInStep ==
    mode.serial /\ ~mode.fails /\ (\A u \in Users : pc[u] = "idle") =>
        \A i \in TicketIds :
            LET a == tickets[i].alert
            IN  /\ tickets[i] # NoTicket /\ IsClosed(tickets[i])
                /\ a # None
                => \/ alerts[a].disposed
                   \/ \E j \in TicketIds \ {i} : tickets[j] # NoTicket /\ tickets[j].alert = a
                   \/ alerts[a].status =
                         IF tickets[i].status = "done" THEN "resolved" ELSE "false_positive"

(* docs/WORK_ORDERS.md: creating a ticket for an alert that has an open    *)
(* one is refused (create).                                                *)
NoDuplicateCreated ==
    [][\A i \in TicketIds :
         tickets[i] = NoTicket /\ tickets'[i] # NoTicket /\ tickets'[i].alert # None =>
            \A j \in TicketIds : tickets[j] # NoTicket /\ IsOpen(tickets[j])
                                   => tickets[j].alert # tickets'[i].alert]_vars

(* docs/WORK_ORDERS.md: a change that cannot be saved is rolled back and   *)
(* reported, so every request comes to an end (mutate).                    *)
Answered == \A u \in Users : pc[u] # "idle" ~> pc[u] = "idle"
=============================================================================
