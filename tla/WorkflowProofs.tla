--------------------------- MODULE WorkflowProofs ---------------------------
(***************************************************************************)
(* Proofs about Workflow, for any number of workers, people, alerts and    *)
(* tickets: first in every mode, with failing saves, reopened tickets and  *)
(* any interleaving; then while saves succeed.                             *)
(***************************************************************************)
EXTENDS Workflow, FiniteSetTheorems, TLAPS

Labels == {"idle", "ensure", "create", "created", "save", "sync",
           "synced", "disposed", "note", "noting"}

(* TypeOK without what it says of a ticket's parts. *)
Types ==
    /\ mode \in Modes
    /\ alerts \in [AlertIds -> Alert \cup {NoAlert}]
    /\ active \in [Detections -> AlertIds \cup {None}]
    /\ tickets \in [TicketIds -> Ticket \cup {NoTicket}]
    /\ byAlert \in [AlertIds -> TicketIds \cup {None}]
    /\ byGroup \in [Groups -> TicketIds \cup {None}]
    /\ raised \in 0 .. MaxAlerts /\ seq \in 0 .. MaxTickets
    /\ pc \in [Threads -> Labels]
    /\ job \in [Threads -> Job]
    /\ stuck \in BOOLEAN /\ requests \in Nat

(* Alerts are numbered as they are raised, and never removed. *)
Raised ==
    /\ \A a \in AlertIds : a <= raised <=> alerts[a] # NoAlert
    /\ \A d \in Detections : active[d] <= raised

(* What is true of a ticket's value, in the service or in a copy kept for  *)
(* a rollback: a rollback can only bring back what was reviewed properly.  *)
GoodTicket(k) ==
    k # NoTicket =>
        /\ k.alert <= raised
        /\ Cardinality(k.related) <= MaxRelated
        /\ k.status = "review" => k.submitter # Nobody
        /\ k.status = "done" => k.submitter # Nobody /\ k.closer # k.submitter

Reviewed == \A i \in TicketIds : GoodTicket(tickets[i])

(* What a thread at label l knows in its local variables. *)
StepOK(l, j) ==
    /\ GoodTicket(j.before)
    /\ j.alert <= raised
    /\ l \in {"ensure", "create", "sync", "synced", "disposed", "note"} => j.alert # None
    /\ l \in {"created", "save", "noting"} => j.ticket # None
    /\ l = "save" => j.before # NoTicket
    /\ l = "sync" => j.sync # "none"
    /\ l \in {"synced", "disposed"} => j.prev # NoAlert

Jobs == \A t \in Threads : StepOK(pc[t], job[t])

Indexed ==
    /\ IndexedExist
    /\ \A a \in AlertIds : byAlert[a] <= seq
    /\ \A g \in Groups : byGroup[g] <= seq

(* A ticket that may still be rolled back is in the index of its own alert *)
(* at most: no attack's ticket, and shared with no other alert.            *)
Unshared ==
    \A t \in Threads : pc[t] = "created" =>
        /\ job[t].ticket <= seq
        /\ \A g \in Groups : byGroup[g] # job[t].ticket
        /\ \A a \in AlertIds : byAlert[a] = job[t].ticket => a = job[t].alert

IInv == Types /\ Raised /\ Reviewed /\ Jobs /\ Indexed /\ Unshared

-----------------------------------------------------------------------------
(* Facts the steps share. *)

LEMMA Blanks ==
    /\ NoTicket \notin Ticket /\ NoAlert \notin Alert /\ NoJob \in Job
    /\ NoJob.before = NoTicket /\ NoJob.alert = 0
<1>1. NoTicket \notin Ticket
  BY DEF NoTicket, Ticket, TicketStatus
<1>2. NoAlert \notin Alert
  BY DEF NoAlert, Alert, AlertStatus
<1>3. NoJob \in Job
  BY DEF NoJob, Job, None
<1>. QED
  BY <1>1, <1>2, <1>3 DEF NoJob, None

LEMMA GoodTicketKept ==
    ASSUME Types, raised' \in Nat, raised <= raised',
           NEW k \in Ticket \cup {NoTicket}, GoodTicket(k)
    PROVE  GoodTicket(k)'
<1>1. CASE k = NoTicket
  BY <1>1 DEF GoodTicket
<1>2. CASE k \in Ticket
  <2>1. k.alert \in Nat /\ raised \in Nat
    BY <1>2, WorkflowAssumption DEF Ticket, AlertIds, None, Types
  <2>. QED
    BY <2>1 DEF GoodTicket
<1>. QED
  BY <1>1, <1>2

(* One thread moves; the others keep what they know. *)
LEMMA JobsKept ==
    ASSUME Types, Jobs, raised' \in Nat, raised <= raised',
           NEW t \in Threads, NEW l \in Labels, NEW j \in Job, Goto(t, l, j), StepOK(l, j)'
    PROVE  /\ pc' \in [Threads -> Labels] /\ job' \in [Threads -> Job]
           /\ pc'[t] = l /\ job'[t] = j
           /\ \A u \in Threads \ {t} : pc'[u] = pc[u] /\ job'[u] = job[u]
           /\ Jobs'
<1>1. /\ pc' \in [Threads -> Labels] /\ job' \in [Threads -> Job]
      /\ pc'[t] = l /\ job'[t] = j
      /\ \A u \in Threads \ {t} : pc'[u] = pc[u] /\ job'[u] = job[u]
  BY DEF Goto, Types
<1>2. ASSUME NEW u \in Threads
      PROVE  StepOK(pc[u], job[u])'
  <2>1. CASE u = t
    BY <2>1, <1>1 DEF StepOK, GoodTicket
  <2>2. CASE u # t
    <3>1. job[u] \in Job /\ StepOK(pc[u], job[u])
      BY DEF Types, Jobs
    <3>2. GoodTicket(job[u].before)'
      <4>1. job[u].before \in Ticket \cup {NoTicket} /\ GoodTicket(job[u].before)
        BY <3>1 DEF Job, StepOK
      <4>2. job[u]'.before = job[u].before
        BY <1>1, <2>2
      <4>. QED
        BY <4>1, <4>2, GoodTicketKept DEF GoodTicket
    <3>3. job[u].alert \in Nat /\ raised \in Nat
      BY <3>1, WorkflowAssumption DEF Job, AlertIds, None, Types
    <3>4. job[u].alert <= raised'
      BY <3>1, <3>3 DEF StepOK
    <3>. QED
      BY <3>1, <3>2, <3>4, <2>2, <1>1 DEF StepOK
  <2>. QED
    BY <2>1, <2>2
<1>. QED
  BY <1>1, <1>2 DEF Jobs

LEMMA ReviewedKept ==
    ASSUME Types, Reviewed, UNCHANGED tickets, raised' \in Nat, raised <= raised'
    PROVE  Reviewed'
<1>1. ASSUME NEW i \in TicketIds
      PROVE  GoodTicket(tickets[i])'
  <2>1. tickets[i] \in Ticket \cup {NoTicket} /\ GoodTicket(tickets[i])
    BY DEF Types, Reviewed
  <2>. QED
    BY <2>1, GoodTicketKept DEF GoodTicket
<1>. QED
  BY <1>1 DEF Reviewed

(* The steps of a thread that leave the index and the tickets alone.       *)
LEMMA UnsharedKept ==
    ASSUME Types, Jobs, Unshared, UNCHANGED <<byAlert, byGroup, seq>>,
           NEW t \in Threads, NEW l \in Labels, NEW j \in Job, Goto(t, l, j), l # "created"
    PROVE  Unshared'
BY DEF Unshared, Goto, Types

LEMMA IndexedKept ==
    ASSUME Indexed, UNCHANGED <<tickets, byAlert, byGroup, seq>>
    PROVE  Indexed'
BY DEF Indexed, IndexedExist

(* A step that changes nothing but the thread's own state. *)
LEMMA ThreadStep ==
    ASSUME IInv, UNCHANGED <<mode, alertVars, ticketVars>>, requests' \in Nat,
           NEW t \in Threads, NEW l \in Labels, NEW j \in Job, Goto(t, l, j),
           l # "created", StepOK(l, j)
    PROVE  IInv'
<1>1. raised' \in Nat /\ raised <= raised' /\ UNCHANGED <<tickets, byAlert, byGroup, seq>>
  BY WorkflowAssumption DEF IInv, Types, alertVars, ticketVars
<1>2. StepOK(l, j)'
  BY <1>1 DEF StepOK, GoodTicket, alertVars
<1>3. /\ pc' \in [Threads -> Labels] /\ job' \in [Threads -> Job]
      /\ Jobs'
  BY <1>1, <1>2, JobsKept DEF IInv
<1>4. Types' /\ Raised'
  BY <1>3 DEF IInv, Types, Raised, alertVars, ticketVars
<1>5. Reviewed' /\ Indexed' /\ Unshared'
  BY <1>1, ReviewedKept, IndexedKept, UnsharedKept DEF IInv
<1>. QED
  BY <1>3, <1>4, <1>5 DEF IInv

LEMMA IdleOK ==
    ASSUME Types
    PROVE  "idle" \in Labels /\ NoJob \in Job /\ StepOK("idle", NoJob)
<1>1. raised \in Nat
  BY WorkflowAssumption DEF Types
<1>. QED
  BY <1>1, Blanks DEF StepOK, GoodTicket, Labels

LEMMA ReturnStep ==
    ASSUME IInv, UNCHANGED <<mode, alertVars, ticketVars>>, requests' \in Nat,
           NEW t \in Threads, Return(t)
    PROVE  IInv'
BY IdleOK, ThreadStep DEF IInv, Return
-----------------------------------------------------------------------------
(* Steps on alerts. *)

(* One alert gets a new value; no alert is removed. *)
LEMMA AlertStep ==
    ASSUME IInv, UNCHANGED <<mode, active, raised, ticketVars>>, requests' \in Nat,
           NEW a \in AlertIds, alerts[a] # NoAlert, NEW x \in Alert,
           alerts' = [alerts EXCEPT ![a] = x],
           NEW t \in Threads, NEW l \in Labels, NEW j \in Job, Goto(t, l, j),
           l # "created", StepOK(l, j)
    PROVE  IInv'
<1>1. raised' \in Nat /\ raised <= raised' /\ UNCHANGED <<tickets, byAlert, byGroup, seq>>
  BY WorkflowAssumption DEF IInv, Types, ticketVars
<1>2. StepOK(l, j)'
  BY DEF StepOK, GoodTicket
<1>3. pc' \in [Threads -> Labels] /\ job' \in [Threads -> Job] /\ Jobs'
  BY <1>1, <1>2, JobsKept DEF IInv
<1>4. alerts' \in [AlertIds -> Alert \cup {NoAlert}]
      /\ \A b \in AlertIds : alerts'[b] # NoAlert <=> alerts[b] # NoAlert
  BY Blanks DEF IInv, Types
<1>5. Types' /\ Raised'
  BY <1>3, <1>4 DEF IInv, Types, Raised, ticketVars
<1>6. Reviewed' /\ Indexed' /\ Unshared'
  BY <1>1, ReviewedKept, IndexedKept, UnsharedKept DEF IInv
<1>. QED
  BY <1>3, <1>5, <1>6 DEF IInv

(* The alert a thread works on has been raised. *)
LEMMA JobAlert ==
    ASSUME IInv, NEW t \in Threads, job[t].alert # None
    PROVE  /\ job[t].alert \in AlertIds /\ alerts[job[t].alert] # NoAlert
           /\ alerts[job[t].alert] \in Alert
<1>1. job[t] \in Job /\ StepOK(pc[t], job[t])
  BY DEF IInv, Types, Jobs
<1>2. job[t].alert \in AlertIds /\ job[t].alert <= raised
  BY <1>1 DEF Job, StepOK
<1>. QED
  BY <1>2 DEF IInv, Types, Raised

LEMMA AgeStep ==
    ASSUME IInv, Age
    PROVE  IInv'
<1>1. PICK a \in AlertIds : /\ alerts[a] # NoAlert
                            /\ alerts' = [alerts EXCEPT ![a].recent = FALSE]
  BY DEF Age
<1>2. UNCHANGED <<mode, active, raised, ticketVars, pc, job, requests>>
  BY DEF Age
<1>3. alerts' \in [AlertIds -> Alert \cup {NoAlert}]
      /\ \A b \in AlertIds : alerts'[b] # NoAlert <=> alerts[b] # NoAlert
  <2>1. alerts[a] \in Alert
    BY <1>1 DEF IInv, Types
  <2>2. [alerts[a] EXCEPT !.recent = FALSE] \in Alert
    BY <2>1 DEF Alert
  <2>3. alerts' = [alerts EXCEPT ![a] = [alerts[a] EXCEPT !.recent = FALSE]]
    BY <1>1 DEF IInv, Types
  <2>. QED
    BY <1>1, <2>2, <2>3, Blanks DEF IInv, Types
<1>4. Types' /\ Raised'
  BY <1>2, <1>3 DEF IInv, Types, Raised, ticketVars
<1>5. Reviewed' /\ Jobs' /\ Indexed' /\ Unshared'
  BY <1>2 DEF IInv, Reviewed, Jobs, StepOK, GoodTicket, Indexed, IndexedExist, Unshared,
              ticketVars
<1>. QED
  BY <1>4, <1>5 DEF IInv

LEMMA DetectStep ==
    ASSUME IInv, NEW w \in Workers, Detect(w)
    PROVE  IInv'
<1>1. PICK d \in Detections, high \in BOOLEAN :
        LET a == IF Mergeable(active[d]) THEN active[d] ELSE raised + 1
            x == IF a <= raised
                 THEN [alerts[a] EXCEPT !.high = @ \/ high, !.recent = TRUE]
                 ELSE [det |-> d, status |-> "open", high |-> high,
                       recent |-> TRUE, disposed |-> FALSE]
        IN  /\ a \in AlertIds
            /\ alerts' = [alerts EXCEPT ![a] = x]
            /\ active' = [active EXCEPT ![d] = a]
            /\ raised' = IF a > raised THEN a ELSE raised
            /\ IF x.high THEN Goto(w, "ensure", [NoJob EXCEPT !.alert = a])
               ELSE UNCHANGED <<pc, job>>
  BY DEF Detect
<1>. DEFINE a == IF Mergeable(active[d]) THEN active[d] ELSE raised + 1
            x == IF a <= raised
                 THEN [alerts[a] EXCEPT !.high = @ \/ high, !.recent = TRUE]
                 ELSE [det |-> d, status |-> "open", high |-> high,
                       recent |-> TRUE, disposed |-> FALSE]
<1>2. UNCHANGED <<mode, ticketVars, requests>> /\ w \in Threads
  BY DEF Detect, Threads
<1>3. /\ a \in AlertIds /\ raised \in Nat /\ raised' \in 0 .. MaxAlerts
      /\ raised <= raised' /\ a <= raised' /\ (a <= raised \/ a = raised + 1)
      /\ raised' = IF a > raised THEN a ELSE raised
  BY <1>1, WorkflowAssumption DEF IInv, Types, Raised, Mergeable, AlertIds, None
<1>4. x \in Alert
  <2>1. CASE a <= raised
    <3>1. alerts[a] \in Alert
      BY <2>1, <1>3 DEF IInv, Types, Raised
    <3>. QED
      BY <2>1, <3>1 DEF Alert
  <2>2. CASE ~(a <= raised)
    BY <2>2 DEF Alert, AlertStatus
  <2>. QED
    BY <2>1, <2>2
<1>5. PICK b \in AlertIds, y \in Alert :
        /\ b <= raised' /\ (b <= raised \/ b = raised + 1)
        /\ raised' = IF b > raised THEN b ELSE raised
        /\ alerts' = [alerts EXCEPT ![b] = y] /\ active' = [active EXCEPT ![d] = b]
        /\ \/ Goto(w, "ensure", [NoJob EXCEPT !.alert = b])
           \/ UNCHANGED <<pc, job>>
  BY <1>1, <1>3, <1>4
<1>6. /\ alerts' \in [AlertIds -> Alert \cup {NoAlert}]
      /\ active' \in [Detections -> AlertIds \cup {None}] /\ Raised'
  <2>1. alerts' \in [AlertIds -> Alert \cup {NoAlert}]
        /\ active' \in [Detections -> AlertIds \cup {None}]
    BY <1>5 DEF IInv, Types
  <2>2. ASSUME NEW c \in AlertIds
        PROVE  c <= raised' <=> alerts'[c] # NoAlert
    BY <1>3, <1>5, <2>2, Blanks DEF IInv, Types, Raised, AlertIds
  <2>3. ASSUME NEW e \in Detections
        PROVE  active'[e] <= raised'
    <3>1. active[e] \in Nat /\ active[e] <= raised
      BY WorkflowAssumption DEF IInv, Types, Raised, AlertIds, None
    <3>. QED
      BY <1>3, <1>5, <3>1 DEF IInv, Types
  <2>. QED
    BY <2>1, <2>2, <2>3 DEF Raised
<1>7. /\ pc' \in [Threads -> Labels] /\ job' \in [Threads -> Job]
      /\ Jobs' /\ Unshared'
  <2>1. raised' \in Nat /\ UNCHANGED <<byAlert, byGroup, seq>>
    BY <1>2, <1>3, WorkflowAssumption DEF ticketVars
  <2>2. CASE Goto(w, "ensure", [NoJob EXCEPT !.alert = b])
    <3>1. [NoJob EXCEPT !.alert = b] \in Job
      BY Blanks DEF Job
    <3>2. StepOK("ensure", [NoJob EXCEPT !.alert = b])'
      <4>1. [NoJob EXCEPT !.alert = b].alert = b /\ [NoJob EXCEPT !.alert = b].before = NoTicket
        BY DEF NoJob
      <4>2. b # None
        BY DEF AlertIds, None
      <4>. QED
        BY <4>1, <4>2, <1>5 DEF StepOK, GoodTicket
    <3>3. "ensure" \in Labels
      BY DEF Labels
    <3>. QED
      BY <1>2, <1>3, <2>1, <2>2, <3>1, <3>2, <3>3, JobsKept, UnsharedKept DEF IInv
  <2>3. CASE UNCHANGED <<pc, job>>
    <3>1. ASSUME NEW u \in Threads
          PROVE  StepOK(pc[u], job[u])'
      <4>1. job[u] \in Job /\ StepOK(pc[u], job[u])
        BY DEF IInv, Types, Jobs
      <4>2. GoodTicket(job[u].before)'
        <5>1. job[u].before \in Ticket \cup {NoTicket} /\ GoodTicket(job[u].before)
          BY <4>1 DEF Job, StepOK
        <5>2. job[u]'.before = job[u].before
          BY <2>3
        <5>. QED
          BY <5>1, <5>2, <1>3, <2>1, GoodTicketKept DEF IInv, GoodTicket
      <4>3. job[u].alert \in Nat
        BY <4>1, WorkflowAssumption DEF Job, AlertIds, None
      <4>. QED
        BY <4>1, <4>2, <4>3, <1>3, <2>1, <2>3 DEF StepOK
    <3>2. Unshared'
      BY <2>1, <2>3 DEF Unshared, IInv
    <3>. QED
      BY <3>1, <3>2, <2>3 DEF Jobs, IInv, Types
  <2>. QED
    BY <1>5, <2>2, <2>3
<1>8. Types'
  BY <1>2, <1>3, <1>6, <1>7 DEF IInv, Types, ticketVars
<1>9. Reviewed' /\ Indexed'
  <2>1. UNCHANGED <<tickets, byAlert, byGroup, seq>> /\ raised' \in Nat
    BY <1>2, <1>3, WorkflowAssumption DEF ticketVars
  <2>. QED
    BY <2>1, <1>3, ReviewedKept, IndexedKept DEF IInv
<1>. QED
  BY <1>6, <1>7, <1>8, <1>9 DEF IInv

LEMMA SyncStep ==
    ASSUME IInv, NEW u \in Users, Sync(u)
    PROVE  IInv'
<1>. DEFINE a == job[u].alert
            x == [alerts[a] EXCEPT !.status = job[u].sync]
            j == [job[u] EXCEPT !.prev = alerts[a]]
<1>1. /\ u \in Threads /\ job[u] \in Job /\ StepOK("sync", job[u])
  BY DEF Sync, IInv, Types, Jobs, Threads
<1>2. a # None /\ job[u].sync \in AlertStatus
  BY <1>1 DEF StepOK, Job
<1>3. a \in AlertIds /\ alerts[a] # NoAlert /\ alerts[a] \in Alert
  BY <1>1, <1>2, JobAlert
<1>4. x \in Alert /\ alerts' = [alerts EXCEPT ![a] = x]
  BY <1>2, <1>3 DEF Sync, Alert, IInv, Types
<1>5. j \in Job /\ j.prev = alerts[a] /\ j.alert = a /\ j.before = job[u].before
      /\ Goto(u, "synced", j) /\ "synced" \in Labels
  BY <1>1, <1>3 DEF Sync, Job, Labels
<1>6. StepOK("synced", j)
  BY <1>1, <1>2, <1>3, <1>5 DEF StepOK
<1>7. UNCHANGED <<mode, active, raised, ticketVars>> /\ requests' \in Nat
  BY DEF Sync, IInv, Types
<1>. HIDE DEF a, x, j
<1>. QED
  BY <1>1, <1>3, <1>4, <1>5, <1>6, <1>7, AlertStep

LEMMA DisposeStep ==
    ASSUME IInv, NEW u \in Users, Dispose(u)
    PROVE  IInv'
<1>1. PICK a \in AlertIds, how \in {"failed", "taken", "blocked"} :
        /\ alerts[a] # NoAlert
        /\ alerts' = [alerts EXCEPT ![a].status = IF how = "failed" THEN @ ELSE "in_progress",
                                    ![a].disposed = TRUE]
        /\ Goto(u, "disposed", [NoJob EXCEPT !.alert = a, !.prev = alerts[a],
                                             !.note = how = "blocked"])
  BY DEF Dispose
<1>. DEFINE x == [alerts[a] EXCEPT !.status = IF how = "failed" THEN @ ELSE "in_progress",
                                   !.disposed = TRUE]
            j == [NoJob EXCEPT !.alert = a, !.prev = alerts[a], !.note = how = "blocked"]
<1>2. u \in Threads /\ alerts[a] \in Alert /\ a <= raised
  BY <1>1 DEF Threads, IInv, Types, Raised
<1>3. x \in Alert /\ alerts' = [alerts EXCEPT ![a] = x]
  BY <1>1, <1>2 DEF Alert, AlertStatus, IInv, Types
<1>4. j \in Job /\ j.prev = alerts[a] /\ j.alert = a /\ j.before = NoTicket
      /\ Goto(u, "disposed", j) /\ "disposed" \in Labels
  BY <1>1, <1>2, Blanks DEF Job, NoJob, Labels
<1>5. StepOK("disposed", j)
  BY <1>1, <1>2, <1>4 DEF StepOK, GoodTicket, AlertIds, None
<1>6. UNCHANGED <<mode, active, raised, ticketVars>> /\ requests' \in Nat
  BY DEF Dispose, Ask, IInv, Types
<1>. HIDE DEF x, j
<1>. QED
  BY <1>1, <1>2, <1>3, <1>4, <1>5, <1>6, AlertStep

(* A failed save puts back what the alert was: SyncFails, DisposeFails. *)
LEMMA AlertRestored ==
    ASSUME IInv, NEW u \in Users, SyncFails(u) \/ DisposeFails(u)
    PROVE  IInv'
<1>1. /\ u \in Threads /\ job[u] \in Job /\ StepOK(pc[u], job[u])
      /\ pc[u] \in {"synced", "disposed"}
  BY DEF SyncFails, DisposeFails, IInv, Types, Jobs, Threads
<1>. DEFINE a == job[u].alert
<1>2. /\ a \in AlertIds /\ alerts[a] # NoAlert /\ alerts[a] \in Alert
      /\ job[u].prev \in Alert
  BY <1>1, JobAlert DEF StepOK, Job
<1>3. PICK x \in Alert : alerts' = [alerts EXCEPT ![a] = x]
  <2>1. CASE SyncFails(u)
    <3>1. [alerts[a] EXCEPT !.status = job[u].prev.status] \in Alert
      BY <1>2 DEF Alert
    <3>. QED
      BY <2>1, <3>1, <1>2 DEF SyncFails, IInv, Types
  <2>2. CASE DisposeFails(u)
    <3>1. [alerts[a] EXCEPT !.status = job[u].prev.status,
                            !.disposed = job[u].prev.disposed] \in Alert
      BY <1>2 DEF Alert
    <3>. QED
      BY <2>2, <3>1, <1>2 DEF DisposeFails, IInv, Types
  <2>. QED
    BY <2>1, <2>2
<1>4. /\ UNCHANGED <<mode, active, raised, ticketVars>> /\ requests' \in Nat
      /\ Goto(u, "idle", NoJob)
  BY DEF SyncFails, DisposeFails, Return, IInv, Types
<1>. HIDE DEF a
<1>. QED
  BY <1>1, <1>2, <1>3, <1>4, IdleOK, AlertStep DEF IInv

-----------------------------------------------------------------------------
(* Steps on tickets. *)

(* An existing ticket gets another good value. *)
LEMMA TicketStep ==
    ASSUME IInv, UNCHANGED <<mode, alertVars, byAlert, byGroup, seq>>,
           stuck' \in BOOLEAN, requests' \in Nat,
           NEW i \in TicketIds, tickets[i] # NoTicket, NEW k \in Ticket, GoodTicket(k),
           tickets' = [tickets EXCEPT ![i] = k],
           NEW t \in Threads, NEW l \in Labels, NEW j \in Job, Goto(t, l, j),
           l # "created", StepOK(l, j)
    PROVE  IInv'
<1>1. raised' \in Nat /\ raised <= raised' /\ raised' = raised
  BY WorkflowAssumption DEF IInv, Types, alertVars
<1>2. StepOK(l, j)'
  BY <1>1 DEF StepOK, GoodTicket
<1>3. /\ pc' \in [Threads -> Labels] /\ job' \in [Threads -> Job]
      /\ Jobs'
  BY <1>1, <1>2, JobsKept DEF IInv
<1>4. Types' /\ Raised'
  BY <1>3 DEF IInv, Types, Raised, alertVars
<1>5. Reviewed'
  BY <1>1 DEF IInv, Types, Reviewed, GoodTicket
<1>6. Indexed'
  BY Blanks DEF IInv, Types, Indexed, IndexedExist
<1>7. Unshared'
  BY UnsharedKept DEF IInv
<1>. QED
  BY <1>3, <1>4, <1>5, <1>6, <1>7 DEF IInv

LEMMA MutateStep ==
    ASSUME IInv, requests' \in Nat, NEW u \in Users, NEW i \in TicketIds,
           NEW k, tickets[i] # NoTicket => k \in Ticket /\ GoodTicket(k),
           NEW sync \in AlertStatus \cup {"none"}, Mutate(u, i, k, sync)
    PROVE  IInv'
<1>. DEFINE j == [NoJob EXCEPT !.ticket = i, !.before = tickets[i],
                               !.alert = tickets[i].alert, !.sync = sync]
<1>1. /\ u \in Threads /\ tickets[i] # NoTicket /\ tickets[i] \in Ticket
      /\ GoodTicket(tickets[i])
  BY DEF Mutate, Threads, IInv, Types, Reviewed
<1>2. /\ j \in Job /\ j.before = tickets[i] /\ j.alert = tickets[i].alert
      /\ j.ticket = i /\ Goto(u, "save", j) /\ "save" \in Labels
  BY <1>1, Blanks DEF Mutate, Job, NoJob, Labels, Ticket
<1>3. StepOK("save", j)
  BY <1>1, <1>2 DEF StepOK, GoodTicket, TicketIds, None
<1>4. /\ UNCHANGED <<mode, alertVars, byAlert, byGroup, seq>> /\ stuck' \in BOOLEAN
      /\ tickets' = [tickets EXCEPT ![i] = k]
  BY DEF Mutate, IInv, Types
<1>. HIDE DEF j
<1>. QED
  BY <1>1, <1>2, <1>3, <1>4, TicketStep

(* Where the review by a second person comes from: done is only entered    *)
(* from review, by somebody else than the submitter.                       *)
LEMMA TransitionStep ==
    ASSUME IInv, NEW u \in Users, Transition(u)
    PROVE  IInv'
<1>1. PICK i \in TicketIds, to \in TicketStatus :
        LET k == tickets[i]
        IN  /\ to \in MovesFrom(k.status)
            /\ to = "done" => MayApprove(k, u)
            /\ Mutate(u, i,
                      [k EXCEPT !.status = to, !.submitter = SubmitterAfter(k, to, u),
                                !.closer = IF to = "done" THEN u ELSE Nobody],
                      Outcome(k.status, to))
  BY DEF Transition
<1>. DEFINE k == tickets[i]
            n == [k EXCEPT !.status = to, !.submitter = SubmitterAfter(k, to, u),
                           !.closer = IF to = "done" THEN u ELSE Nobody]
<1>2. k \in Ticket /\ GoodTicket(k) /\ k # NoTicket
  BY <1>1 DEF Mutate, IInv, Types, Reviewed
<1>3. SubmitterAfter(k, to, u) \in Users \cup {Nobody}
  BY <1>2 DEF SubmitterAfter, Ticket
<1>4. /\ n \in Ticket /\ n.alert = k.alert /\ n.related = k.related /\ n.status = to
      /\ n.submitter = SubmitterAfter(k, to, u)
      /\ n.closer = IF to = "done" THEN u ELSE Nobody
  BY <1>2, <1>3 DEF Ticket
<1>5. GoodTicket(n)
  <2>1. to = "review" => n.submitter # Nobody
    BY <1>4, WorkflowAssumption DEF SubmitterAfter
  <2>2. to = "done" => n.submitter # Nobody /\ n.closer # n.submitter
    <3>1. to = "done" => k.status = "review"
      BY <1>1, <1>2 DEF MovesFrom, Ticket, TicketStatus
    <3>. QED
      BY <1>1, <1>2, <1>4, <3>1 DEF SubmitterAfter, MayApprove, GoodTicket
  <2>. QED
    BY <1>2, <1>4, <2>1, <2>2 DEF GoodTicket
<1>6. Outcome(k.status, to) \in AlertStatus \cup {"none"}
  BY DEF Outcome, AlertStatus
<1>7. requests' \in Nat
  BY DEF Transition, Ask, IInv, Types
<1>8. Mutate(u, i, n, Outcome(k.status, to))
  BY <1>1
<1>. HIDE DEF k, n
<1>. QED
  BY <1>4, <1>5, <1>6, <1>7, <1>8, MutateStep

LEMMA AnnotateStep ==
    ASSUME IInv, NEW u \in Users, Annotate(u)
    PROVE  IInv'
<1>1. PICK i \in TicketIds : Mutate(u, i, tickets[i], "none")
  BY DEF Annotate
<1>2. requests' \in Nat
  BY DEF Annotate, Ask, IInv, Types
<1>3. tickets[i] # NoTicket => tickets[i] \in Ticket /\ GoodTicket(tickets[i])
  BY DEF IInv, Types, Reviewed
<1>. QED
  BY <1>1, <1>2, <1>3, MutateStep

LEMMA NoteStep ==
    ASSUME IInv, NEW u \in Users, Note(u)
    PROVE  IInv'
<1>. DEFINE i == job[u].ticket
<1>1. u \in Threads /\ i \in TicketIds /\ requests' \in Nat
  BY DEF Note, Threads, IInv, Types, Jobs, StepOK, Job
<1>2. CASE Mutate(u, i, tickets[i], "none")
  <2>1. tickets[i] # NoTicket => tickets[i] \in Ticket /\ GoodTicket(tickets[i])
    BY <1>1 DEF IInv, Types, Reviewed
  <2>. QED
    BY <1>1, <1>2, <2>1, MutateStep
<1>3. CASE Return(u) /\ UNCHANGED <<mode, alertVars, ticketVars>>
  BY <1>1, <1>3, ReturnStep
<1>. QED
  BY <1>2, <1>3 DEF Note

(* The outcome of a save: nothing, or the ticket gets back what it was. *)
LEMMA SavedStep ==
    ASSUME IInv, NEW u \in Users,
           CreateSaved(u) \/ ChangeSaved(u) \/ SyncSaved(u) \/ DisposeSaved(u)
    PROVE  IInv'
<1>1. /\ u \in Threads /\ job[u] \in Job /\ StepOK(pc[u], job[u])
      /\ UNCHANGED <<mode, alertVars, ticketVars>> /\ requests' \in Nat
  BY DEF CreateSaved, ChangeSaved, SyncSaved, DisposeSaved, Threads, IInv, Types, Jobs
<1>2. CASE Return(u)
  BY <1>1, <1>2, ReturnStep
<1>3. CASE ChangeSaved(u) /\ ~Return(u)
  <2>1. Goto(u, "sync", job[u]) /\ job[u].sync # "none" /\ job[u].alert # None
    BY <1>3 DEF ChangeSaved
  <2>2. StepOK("sync", job[u]) /\ "sync" \in Labels
    BY <1>1, <2>1 DEF StepOK, Labels
  <2>. QED
    BY <1>1, <2>1, <2>2, ThreadStep
<1>4. CASE DisposeSaved(u) /\ ~Return(u)
  <2>. DEFINE j == [job[u] EXCEPT !.prev = NoAlert]
  <2>1. /\ j \in Job /\ j.alert = job[u].alert /\ j.before = job[u].before
        /\ pc[u] = "disposed" /\ Goto(u, "note", j) /\ "note" \in Labels
    BY <1>1, <1>4 DEF DisposeSaved, Job, Labels
  <2>2. StepOK("note", j)
    BY <1>1, <2>1 DEF StepOK
  <2>. HIDE DEF j
  <2>. QED
    BY <1>1, <2>1, <2>2, ThreadStep
<1>. QED
  BY <1>2, <1>3, <1>4 DEF CreateSaved, SyncSaved

LEMMA NoteLookupStep ==
    ASSUME IInv, NEW u \in Users, NoteLookup(u)
    PROVE  IInv'
<1>1. /\ u \in Threads /\ job[u] \in Job /\ StepOK("note", job[u])
      /\ UNCHANGED <<mode, alertVars, ticketVars>> /\ requests' \in Nat
  BY DEF NoteLookup, Threads, IInv, Types, Jobs
<1>2. CASE Return(u)
  BY <1>1, <1>2, ReturnStep
<1>3. CASE ~Return(u)
  <2>. DEFINE i == byAlert[job[u].alert]
              j == [NoJob EXCEPT !.ticket = i]
  <2>1. Goto(u, "noting", j) /\ HasOpenTicket(job[u].alert)
    BY <1>3 DEF NoteLookup
  <2>2. i \in TicketIds /\ i # None
    BY <1>1, <2>1 DEF HasOpenTicket, IInv, Types, Job
  <2>3. j \in Job /\ j.ticket = i /\ j.alert = 0 /\ j.before = NoTicket /\ "noting" \in Labels
    BY <2>2, Blanks DEF Job, NoJob, None, Labels
  <2>4. StepOK("noting", j)
    <3>1. raised \in Nat
      BY WorkflowAssumption DEF IInv, Types
    <3>. QED
      BY <2>2, <2>3, <3>1 DEF StepOK, GoodTicket
  <2>. HIDE DEF j
  <2>. QED
    BY <1>1, <2>1, <2>3, <2>4, ThreadStep
<1>. QED
  BY <1>2, <1>3

LEMMA ChangeFailsStep ==
    ASSUME IInv, NEW u \in Users, ChangeFails(u)
    PROVE  IInv'
<1>. DEFINE i == job[u].ticket
<1>1. /\ u \in Threads /\ job[u] \in Job /\ StepOK("save", job[u])
      /\ UNCHANGED <<mode, alertVars, byAlert, byGroup, seq>> /\ requests' \in Nat
      /\ stuck' \in BOOLEAN
  BY DEF ChangeFails, Threads, IInv, Types, Jobs
<1>2. /\ Goto(u, "idle", NoJob) /\ StepOK("idle", NoJob) /\ "idle" \in Labels
      /\ NoJob \in Job
  BY IdleOK DEF ChangeFails, Return, IInv
<1>3. CASE tickets[i] = NoTicket
  <2>1. raised' \in Nat /\ raised' = raised /\ raised <= raised' /\ UNCHANGED tickets
    BY <1>1, <1>3, WorkflowAssumption DEF ChangeFails, IInv, Types, alertVars
  <2>2. StepOK("idle", NoJob)'
    BY <1>2, <2>1 DEF StepOK, GoodTicket
  <2>3. pc' \in [Threads -> Labels] /\ job' \in [Threads -> Job] /\ Jobs'
    BY <1>1, <1>2, <2>1, <2>2, JobsKept DEF IInv
  <2>4. Types' /\ Raised'
    BY <1>1, <2>1, <2>3 DEF IInv, Types, Raised, alertVars
  <2>5. Reviewed' /\ Indexed' /\ Unshared'
    BY <1>1, <1>2, <2>1, ReviewedKept, IndexedKept, UnsharedKept DEF IInv
  <2>. QED
    BY <2>3, <2>4, <2>5 DEF IInv
<1>4. CASE tickets[i] # NoTicket
  <2>1. /\ i \in TicketIds /\ job[u].before \in Ticket /\ GoodTicket(job[u].before)
        /\ tickets' = [tickets EXCEPT ![i] = job[u].before]
    BY <1>1, <1>4 DEF ChangeFails, StepOK, Job
  <2>. QED
    BY <1>1, <1>2, <1>4, <2>1, TicketStep
<1>. QED
  BY <1>3, <1>4

-----------------------------------------------------------------------------
(* Steps on the index. *)

(* A ticket is opened. *)
LEMMA OpenStep ==
    ASSUME IInv, UNCHANGED <<mode, alertVars>>, requests' \in Nat,
           NEW n \in TicketIds, n = seq + 1,
           NEW a \in AlertIds \cup {None}, a <= raised,
           NEW g \in Groups \cup {NoGroup}, Open(n, a, g),
           NEW t \in Threads, NEW l \in Labels, NEW j \in Job, Goto(t, l, j), StepOK(l, j),
           l = "created" => j.ticket = n /\ j.alert = a /\ g = NoGroup
    PROVE  IInv'
<1>1. raised' \in Nat /\ raised <= raised' /\ raised' = raised /\ seq \in Nat /\ seq' = n
  BY WorkflowAssumption DEF IInv, Types, alertVars, Open
<1>2. StepOK(l, j)'
  BY <1>1 DEF StepOK, GoodTicket
<1>3. /\ pc' \in [Threads -> Labels] /\ job' \in [Threads -> Job] /\ Jobs'
      /\ pc'[t] = l /\ job'[t] = j
      /\ \A u \in Threads \ {t} : pc'[u] = pc[u] /\ job'[u] = job[u]
  BY <1>1, <1>2, JobsKept DEF IInv
<1>4. PICK k \in Ticket : k = NewTicket(a, g) /\ GoodTicket(k)
  <2>1. NewTicket(a, g) \in Ticket
    BY DEF NewTicket, Ticket, TicketStatus
  <2>2. Cardinality({}) <= MaxRelated
    BY FS_EmptySet, WorkflowAssumption
  <2>3. GoodTicket(NewTicket(a, g))
    BY <2>2 DEF GoodTicket, NewTicket
  <2>. QED
    BY <2>1, <2>3
<1>5. /\ tickets' = [tickets EXCEPT ![n] = k]
      /\ byAlert' = IF a = None THEN byAlert ELSE [byAlert EXCEPT ![a] = n]
      /\ byGroup' = IF g = NoGroup THEN byGroup ELSE [byGroup EXCEPT ![g] = n]
      /\ stuck' = stuck
  BY <1>4 DEF Open, Mapped
<1>6. /\ byAlert \in [AlertIds -> TicketIds \cup {None}]
      /\ byAlert' \in [AlertIds -> TicketIds \cup {None}]
      /\ byGroup \in [Groups -> TicketIds \cup {None}]
      /\ byGroup' \in [Groups -> TicketIds \cup {None}]
      /\ \A b \in AlertIds : byAlert'[b] = byAlert[b] \/ (b = a /\ byAlert'[b] = n)
      /\ \A h \in Groups : byGroup'[h] = byGroup[h] \/ (g # NoGroup /\ byGroup'[h] = n)
  BY <1>5 DEF IInv, Types
<1>7. Types' /\ Raised'
  <2>1. tickets' \in [TicketIds -> Ticket \cup {NoTicket}]
    BY <1>5 DEF IInv, Types
  <2>2. seq' \in 0 .. MaxTickets
    BY <1>1, WorkflowAssumption DEF TicketIds
  <2>. QED
    BY <1>1, <1>3, <1>5, <1>6, <2>1, <2>2 DEF IInv, Types, Raised, alertVars
<1>8. Reviewed'
  BY <1>1, <1>4, <1>5 DEF IInv, Types, Reviewed, GoodTicket
<1>9. Indexed'
  <2>1. \A i \in TicketIds : tickets[i] # NoTicket => tickets'[i] # NoTicket
    BY <1>5, Blanks DEF IInv, Types
  <2>2. tickets'[n] # NoTicket
    BY <1>5, Blanks DEF IInv, Types
  <2>3. \A b \in AlertIds : byAlert'[b] <= seq'
    BY <1>1, <1>6 DEF IInv, Indexed, TicketIds, None
  <2>4. \A h \in Groups : byGroup'[h] <= seq'
    BY <1>1, <1>6 DEF IInv, Indexed, TicketIds, None
  <2>5. IndexedExist'
    BY <1>6, <2>1, <2>2 DEF IInv, Indexed, IndexedExist
  <2>. QED
    BY <2>3, <2>4, <2>5 DEF Indexed
<1>10. Unshared'
  <2>1. (\A b \in AlertIds : byAlert[b] # n) /\ (\A h \in Groups : byGroup[h] # n)
    BY <1>1, <1>6 DEF IInv, Indexed
  <2>2. ASSUME NEW u \in Threads, pc'[u] = "created"
        PROVE  /\ job'[u].ticket <= seq'
               /\ \A h \in Groups : byGroup'[h] # job'[u].ticket
               /\ \A b \in AlertIds : byAlert'[b] = job'[u].ticket => b = job'[u].alert
    <3>1. CASE u = t
      BY <1>1, <1>3, <1>6, <2>1, <2>2, <3>1
    <3>2. CASE u # t
      <4>1. /\ pc[u] = "created" /\ job'[u] = job[u] /\ job[u].ticket <= seq
            /\ job[u].ticket \in Nat
            /\ \A h \in Groups : byGroup[h] # job[u].ticket
            /\ \A b \in AlertIds : byAlert[b] = job[u].ticket => b = job[u].alert
        <5>1. job[u] \in Job
          BY DEF IInv, Types
        <5>2. job[u].ticket \in Nat
          BY <5>1, WorkflowAssumption DEF Job, TicketIds, None
        <5>. QED
          BY <1>3, <2>2, <3>2, <5>2 DEF IInv, Unshared
      <4>2. job[u].ticket # n
        BY <1>1, <4>1
      <4>. QED
        BY <1>1, <1>6, <4>1, <4>2
    <3>. QED
      BY <3>1, <3>2
  <2>. QED
    BY <2>2 DEF Unshared
<1>. QED
  BY <1>3, <1>7, <1>8, <1>9, <1>10 DEF IInv

LEMMA CreateStep ==
    ASSUME IInv, NEW u \in Users, Create(u)
    PROVE  IInv'
<1>1. PICK a \in AlertIds \cup {None} :
        /\ a # None => alerts[a] # NoAlert
        /\ Open(seq + 1, a, NoGroup)
        /\ Goto(u, "created", [NoJob EXCEPT !.alert = a, !.ticket = seq + 1])
  BY DEF Create
<1>2. PICK n \in TicketIds : n = seq + 1
  BY <1>1 DEF Open
<1>3. a <= raised
  <2>1. CASE a = None
    BY <2>1, WorkflowAssumption DEF None, IInv, Types
  <2>2. CASE a # None
    BY <1>1, <2>2 DEF IInv, Raised
  <2>. QED
    BY <2>1, <2>2
<1>. DEFINE j == [NoJob EXCEPT !.alert = a, !.ticket = n]
<1>4. /\ j \in Job /\ j.alert = a /\ j.ticket = n /\ j.before = NoTicket
      /\ Goto(u, "created", j) /\ "created" \in Labels /\ u \in Threads
  BY <1>1, <1>2, Blanks DEF Job, NoJob, Labels, Threads
<1>5. StepOK("created", j)
  BY <1>3, <1>4 DEF StepOK, GoodTicket, TicketIds, None
<1>6. UNCHANGED <<mode, alertVars>> /\ requests' \in Nat /\ Open(n, a, NoGroup)
  BY <1>1, <1>2 DEF Create, Ask, IInv, Types
<1>. HIDE DEF j
<1>. QED
  BY <1>2, <1>3, <1>4, <1>5, <1>6, OpenStep

LEMMA AutoCreateStep ==
    ASSUME IInv, NEW w \in Workers, AutoCreate(w)
    PROVE  IInv'
<1>1. /\ w \in Threads /\ job[w] \in Job /\ StepOK("create", job[w])
      /\ UNCHANGED <<mode, alertVars>> /\ requests' \in Nat
  BY DEF AutoCreate, Threads, IInv, Types, Jobs
<1>2. CASE UNCHANGED ticketVars
  BY <1>1, <1>2, ReturnStep DEF AutoCreate
<1>3. CASE Open(seq + 1, job[w].alert, GroupOf[alerts[job[w].alert].det])
  <2>1. PICK a \in AlertIds : a = job[w].alert /\ a <= raised /\ alerts[a] \in Alert
    BY <1>1, JobAlert DEF StepOK
  <2>2. PICK g \in Groups \cup {NoGroup} : g = GroupOf[alerts[a].det]
    BY <2>1, WorkflowAssumption DEF Alert
  <2>3. PICK n \in TicketIds : n = seq + 1
    BY <1>3 DEF Open
  <2>4. Open(n, a, g)
    BY <1>3, <2>1, <2>2, <2>3
  <2>5. Goto(w, "idle", NoJob) /\ "idle" \in Labels /\ NoJob \in Job /\ StepOK("idle", NoJob)
    BY IdleOK DEF AutoCreate, Return, IInv
  <2>. QED
    BY <1>1, <2>1, <2>3, <2>4, <2>5, OpenStep
<1>. QED
  BY <1>2, <1>3 DEF AutoCreate

(* A creation is undone: no index names the deleted ticket any more. *)
LEMMA CreateFailsStep ==
    ASSUME IInv, NEW u \in Users, CreateFails(u)
    PROVE  IInv'
<1>1. /\ u \in Threads /\ job[u] \in Job /\ pc[u] = "created" /\ StepOK("created", job[u])
      /\ UNCHANGED <<mode, alertVars, byGroup, seq, stuck>> /\ requests' \in Nat
  BY DEF CreateFails, Threads, IInv, Types, Jobs
<1>2. PICK n \in TicketIds : n = job[u].ticket
  BY <1>1 DEF StepOK, Job
<1>3. /\ \A g \in Groups : byGroup[g] # n
      /\ \A a \in AlertIds : byAlert[a] = n => a = job[u].alert
  BY <1>1, <1>2 DEF IInv, Unshared
<1>4. tickets' = [tickets EXCEPT ![n] = NoTicket] /\ byAlert' = Unmapped(job[u].alert, n)
  BY <1>2 DEF CreateFails
<1>5. /\ byAlert' \in [AlertIds -> TicketIds \cup {None}]
      /\ \A a \in AlertIds : byAlert'[a] # n /\ byAlert'[a] \in {byAlert[a], None}
  <2>1. job[u].alert \in AlertIds \cup {None} /\ n # None
    BY <1>1 DEF Job, TicketIds, None
  <2>2. byAlert' \in [AlertIds -> TicketIds \cup {None}]
    BY <1>4 DEF Unmapped, IInv, Types
  <2>3. ASSUME NEW a \in AlertIds
        PROVE  byAlert'[a] # n /\ byAlert'[a] \in {byAlert[a], None}
    <3>1. None \notin AlertIds
      BY DEF None, AlertIds
    <3>. QED
      BY <1>3, <1>4, <2>1, <3>1 DEF Unmapped, IInv, Types
  <2>. QED
    BY <2>2, <2>3
<1>6. raised' \in Nat /\ raised <= raised' /\ raised' = raised
  BY <1>1, WorkflowAssumption DEF IInv, Types, alertVars
<1>7. /\ Goto(u, "idle", NoJob) /\ StepOK("idle", NoJob) /\ "idle" \in Labels
      /\ NoJob \in Job
  BY IdleOK DEF CreateFails, Return, IInv
<1>8. StepOK("idle", NoJob)'
  BY <1>6, <1>7 DEF StepOK, GoodTicket
<1>9. /\ pc' \in [Threads -> Labels] /\ job' \in [Threads -> Job] /\ Jobs'
      /\ pc'[u] = "idle"
      /\ \A v \in Threads \ {u} : pc'[v] = pc[v] /\ job'[v] = job[v]
  BY <1>1, <1>6, <1>7, <1>8, JobsKept DEF IInv
<1>10. Types' /\ Raised'
  BY <1>1, <1>4, <1>5, <1>9 DEF IInv, Types, Raised, alertVars
<1>11. Reviewed'
  BY <1>4, <1>6 DEF IInv, Types, Reviewed, GoodTicket
<1>12. Indexed'
  <2>1. \A i \in TicketIds : i # n => tickets'[i] = tickets[i]
    BY <1>4 DEF IInv, Types
  <2>2. \A a \in AlertIds : byAlert'[a] # None => tickets'[byAlert'[a]] # NoTicket
    BY <1>5, <2>1 DEF IInv, Indexed, IndexedExist
  <2>3. \A g \in Groups : byGroup'[g] # None => tickets'[byGroup'[g]] # NoTicket
    BY <1>1, <1>3, <2>1 DEF IInv, Types, Indexed, IndexedExist
  <2>4. \A a \in AlertIds : byAlert'[a] <= seq'
    BY <1>1, <1>5, WorkflowAssumption DEF IInv, Types, Indexed, None
  <2>5. \A g \in Groups : byGroup'[g] <= seq'
    BY <1>1 DEF IInv, Indexed
  <2>. QED
    BY <2>2, <2>3, <2>4, <2>5 DEF Indexed, IndexedExist
<1>13. Unshared'
  <2>1. ASSUME NEW v \in Threads, pc'[v] = "created"
        PROVE  /\ job'[v].ticket <= seq'
               /\ \A g \in Groups : byGroup'[g] # job'[v].ticket
               /\ \A a \in AlertIds : byAlert'[a] = job'[v].ticket => a = job'[v].alert
    <3>1. /\ pc[v] = "created" /\ job'[v] = job[v] /\ StepOK(pc[v], job[v])
      BY <1>9, <2>1 DEF IInv, Jobs
    <3>2. job[v].ticket # None
      BY <3>1 DEF StepOK
    <3>. QED
      BY <1>1, <1>5, <3>1, <3>2 DEF IInv, Unshared
  <2>. QED
    BY <2>1 DEF Unshared
<1>. QED
  BY <1>9, <1>10, <1>11, <1>12, <1>13 DEF IInv

LEMMA AlertsFinite == IsFiniteSet(AlertIds)
BY FS_Interval, WorkflowAssumption DEF AlertIds

(* An attack's ticket takes an alert in.  The ticket is in byGroup, so it  *)
(* is none that a failed save could still delete.                          *)
LEMMA CoverStep ==
    ASSUME IInv, UNCHANGED <<mode, alertVars, byGroup, seq, stuck>>, requests' \in Nat,
           NEW a \in AlertIds, NEW h \in Groups, NEW i \in TicketIds, i = byGroup[h],
           byAlert' = [byAlert EXCEPT ![a] = i],
           NEW k \in Ticket, GoodTicket(k),
           tickets' = tickets \/ tickets' = [tickets EXCEPT ![i] = k],
           NEW t \in Threads, Return(t)
    PROVE  IInv'
<1>1. raised' \in Nat /\ raised <= raised' /\ raised' = raised
  BY WorkflowAssumption DEF IInv, Types, alertVars
<1>2. /\ Goto(t, "idle", NoJob) /\ StepOK("idle", NoJob) /\ "idle" \in Labels
      /\ NoJob \in Job
  BY IdleOK DEF Return, IInv
<1>3. StepOK("idle", NoJob)'
  BY <1>1, <1>2 DEF StepOK, GoodTicket
<1>4. /\ pc' \in [Threads -> Labels] /\ job' \in [Threads -> Job] /\ Jobs'
      /\ pc'[t] = "idle"
      /\ \A v \in Threads \ {t} : pc'[v] = pc[v] /\ job'[v] = job[v]
  BY <1>1, <1>2, <1>3, JobsKept DEF IInv
<1>5. /\ tickets' \in [TicketIds -> Ticket \cup {NoTicket}]
      /\ \A m \in TicketIds : tickets'[m] = tickets[m] \/ tickets'[m] = k
  BY DEF IInv, Types
<1>6. Types' /\ Raised'
  BY <1>4, <1>5 DEF IInv, Types, Raised, alertVars
<1>7. Reviewed'
  BY <1>1, <1>5 DEF IInv, Types, Reviewed, GoodTicket
<1>8. Indexed'
  <2>1. \A m \in TicketIds : tickets[m] # NoTicket => tickets'[m] # NoTicket
    BY <1>5, Blanks
  <2>2. tickets[i] # NoTicket /\ i <= seq
    BY DEF IInv, Indexed, IndexedExist, TicketIds, None
  <2>3. \A b \in AlertIds : byAlert'[b] = byAlert[b] \/ byAlert'[b] = i
    BY DEF IInv, Types
  <2>. QED
    BY <2>1, <2>2, <2>3 DEF IInv, Types, Indexed, IndexedExist
<1>9. Unshared'
  <2>1. ASSUME NEW v \in Threads, pc'[v] = "created"
        PROVE  /\ job'[v].ticket <= seq'
               /\ \A g \in Groups : byGroup'[g] # job'[v].ticket
               /\ \A b \in AlertIds : byAlert'[b] = job'[v].ticket => b = job'[v].alert
    <3>1. pc[v] = "created" /\ job'[v] = job[v]
      BY <1>4, <2>1
    <3>2. \A b \in AlertIds : byAlert'[b] = byAlert[b] \/ byAlert'[b] = i
      BY DEF IInv, Types
    <3>. QED
      BY <3>1, <3>2 DEF IInv, Unshared
  <2>. QED
    BY <2>1 DEF Unshared
<1>. QED
  BY <1>4, <1>6, <1>7, <1>8, <1>9 DEF IInv

LEMMA EnsureStep ==
    ASSUME IInv, NEW w \in Workers, Ensure(w)
    PROVE  IInv'
<1>1. /\ w \in Threads /\ job[w] \in Job /\ StepOK("ensure", job[w])
      /\ UNCHANGED <<mode, alertVars, byGroup, seq, stuck>> /\ requests' \in Nat
  BY DEF Ensure, Threads, IInv, Types, Jobs
<1>2. CASE Return(w) /\ UNCHANGED <<tickets, byAlert>>
  BY <1>1, <1>2, ReturnStep DEF ticketVars
<1>3. CASE Goto(w, "create", job[w]) /\ UNCHANGED <<tickets, byAlert>>
  <2>1. StepOK("create", job[w]) /\ "create" \in Labels
    BY <1>1 DEF StepOK, Labels
  <2>. QED
    BY <1>1, <1>3, <2>1, ThreadStep DEF ticketVars
<1>4. CASE LET a == job[w].alert
               i == GroupTicket(a)
           IN  /\ Covers(i)
               /\ byAlert' = Mapped(a, i)
               /\ tickets' = IF IsOpen(tickets[i]) /\ HasRoom(tickets[i])
                             THEN [tickets EXCEPT ![i].related = @ \cup {a}]
                             ELSE tickets
               /\ Return(w)
  <2>1. PICK a \in AlertIds : a = job[w].alert /\ alerts[a] \in Alert
    BY <1>1, JobAlert DEF StepOK
  <2>2. PICK h \in Groups : GroupTicket(a) = byGroup[h]
    BY <1>4, <2>1, WorkflowAssumption DEF GroupTicket, Covers, Alert
  <2>3. PICK i \in TicketIds : i = byGroup[h] /\ i # None
    BY <1>4, <2>1, <2>2 DEF Covers, IInv, Types
  <2>4. tickets[i] \in Ticket /\ GoodTicket(tickets[i]) /\ tickets[i] # NoTicket
    BY <2>3 DEF IInv, Types, Indexed, IndexedExist, Reviewed
  <2>5. byAlert' = [byAlert EXCEPT ![a] = i]
    <3>1. a # None
      BY DEF AlertIds, None
    <3>. QED
      BY <1>4, <2>1, <2>2, <2>3, <3>1 DEF Mapped
  <2>6. PICK k \in Ticket : /\ GoodTicket(k)
                            /\ tickets' = tickets \/ tickets' = [tickets EXCEPT ![i] = k]
    <3>. DEFINE r == tickets[i].related
                n == [tickets[i] EXCEPT !.related = r \cup {a}]
    <3>1. CASE IsOpen(tickets[i]) /\ HasRoom(tickets[i])
      <4>1. /\ n \in Ticket /\ n.alert = tickets[i].alert /\ n.status = tickets[i].status
            /\ n.submitter = tickets[i].submitter /\ n.closer = tickets[i].closer
            /\ n.related = r \cup {a}
        BY <2>4 DEF Ticket
      <4>2. IsFiniteSet(r)
        <5>1. r \subseteq AlertIds
          BY <2>4 DEF Ticket
        <5>. QED
          BY <5>1, AlertsFinite, FS_Subset
      <4>3. Cardinality(r \cup {a}) <= MaxRelated
        <5>1. Cardinality(r) \in Nat /\ Cardinality(r) < MaxRelated
          BY <3>1, <4>2, FS_CardinalityType DEF HasRoom
        <5>2. Cardinality(r \cup {a}) \in {Cardinality(r), Cardinality(r) + 1}
          BY <4>2, FS_AddElement
        <5>. QED
          BY <5>1, <5>2, WorkflowAssumption
      <4>4. GoodTicket(n)
        BY <2>4, <4>1, <4>3 DEF GoodTicket
      <4>5. tickets' = [tickets EXCEPT ![i] = n]
        BY <1>4, <2>1, <2>2, <2>3, <3>1 DEF IInv, Types
      <4>. QED
        BY <4>1, <4>4, <4>5
    <3>2. CASE ~(IsOpen(tickets[i]) /\ HasRoom(tickets[i]))
      BY <1>4, <2>1, <2>2, <2>3, <2>4, <3>2
    <3>. QED
      BY <3>1, <3>2
  <2>7. Return(w)
    BY <1>4
  <2>. QED
    BY <1>1, <2>3, <2>5, <2>6, <2>7, CoverStep
<1>. QED
  BY <1>2, <1>3, <1>4 DEF Ensure

-----------------------------------------------------------------------------
(* The invariant, and what it says. *)

LEMMA InitIInv ==
    ASSUME Init
    PROVE  IInv
<1>. USE DEF Init
<1>1. Types
  <2>1. raised \in 0 .. MaxAlerts /\ seq \in 0 .. MaxTickets /\ requests \in Nat
    BY WorkflowAssumption
  <2>2. pc \in [Threads -> Labels] /\ job \in [Threads -> Job]
    BY Blanks DEF Labels
  <2>3. stuck \in BOOLEAN
    OBVIOUS
  <2>4. /\ alerts \in [AlertIds -> Alert \cup {NoAlert}]
        /\ active \in [Detections -> AlertIds \cup {None}]
        /\ tickets \in [TicketIds -> Ticket \cup {NoTicket}]
        /\ byAlert \in [AlertIds -> TicketIds \cup {None}]
        /\ byGroup \in [Groups -> TicketIds \cup {None}]
    OBVIOUS
  <2>. QED
    BY <2>1, <2>2, <2>3, <2>4 DEF Types
<1>2. Raised /\ Indexed
  BY WorkflowAssumption DEF Raised, Indexed, IndexedExist, AlertIds, None
<1>3. Reviewed
  BY DEF Reviewed, GoodTicket
<1>4. Jobs /\ Unshared
  BY <1>1, IdleOK DEF Jobs, Unshared
<1>. QED
  BY <1>1, <1>2, <1>3, <1>4 DEF IInv

LEMMA NextIInv ==
    ASSUME IInv, [Next]_vars
    PROVE  IInv'
<1>1. CASE Age
  BY <1>1, AgeStep
<1>2. ASSUME NEW w \in Workers, Detect(w) \/ Handle(w)
      PROVE  IInv'
  BY <1>2, DetectStep, EnsureStep, AutoCreateStep DEF Handle
<1>3. ASSUME NEW u \in Users,
             Create(u) \/ Annotate(u) \/ Transition(u) \/ Dispose(u) \/ Continue(u)
      PROVE  IInv'
  <2>1. CASE Continue(u)
    BY <2>1, SavedStep, CreateFailsStep, ChangeFailsStep, SyncStep, AlertRestored,
       NoteLookupStep, NoteStep DEF Continue
  <2>. QED
    BY <1>3, <2>1, CreateStep, AnnotateStep, TransitionStep, DisposeStep
<1>4. CASE UNCHANGED vars
  BY <1>4 DEF vars, IInv, Types, Raised, Reviewed, Jobs, StepOK, GoodTicket, Indexed,
              IndexedExist, Unshared
<1>. QED
  BY <1>1, <1>2, <1>3, <1>4 DEF Next

LEMMA Consequences ==
    ASSUME IInv
    PROVE  TypeOK /\ ReviewedByAnother /\ IndexedExist
<1>1. TypeOK
  BY DEF IInv, Types, Labels, Reviewed, GoodTicket, TypeOK
<1>2. ReviewedByAnother
  <2>1. NoTicket.status # "done"
    BY DEF NoTicket
  <2>. QED
    BY <2>1 DEF IInv, Reviewed, GoodTicket, ReviewedByAnother
<1>. QED
  BY <1>1, <1>2 DEF IInv, Indexed

(* IInv holds in every state of every behaviour. *)
LEMMA Inductive == Spec => []IInv
<1>1. Init => IInv
  BY InitIInv
<1>2. IInv /\ [Next]_vars => IInv'
  BY NextIInv
<1>. QED
  BY <1>1, <1>2, PTL DEF Spec

(* Alerts, tickets, indexes and goroutines keep to their domains; in       *)
(* particular a ticket under review always names who asked for the review, *)
(* and a ticket shared by an attack lists maxRelatedListed alerts at most. *)
THEOREM TypeCorrect == Spec => []TypeOK
<1>1. IInv => TypeOK
  BY Consequences
<1>. QED
  BY <1>1, Inductive, PTL

(* Four eyes: however requests, failed saves and rollbacks interleave, a   *)
(* done ticket was approved by somebody else than the person who submitted *)
(* it (the check in Transition, and the copy mutate puts back).            *)
THEOREM ReviewedCorrect == Spec => []ReviewedByAnother
<1>1. IInv => ReviewedByAnother
  BY Consequences
<1>. QED
  BY <1>1, Inductive, PTL

(* The indexes the ingest path follows without a check never lead to a     *)
(* ticket that a failed creation deleted (Create, EnsureForAlert).         *)
THEOREM IndexedCorrect == Spec => []IndexedExist
<1>1. IInv => IndexedExist
  BY Consequences
<1>. QED
  BY <1>1, Inductive, PTL

-----------------------------------------------------------------------------
(* While saves succeed: an open ticket is the one its alerts and its       *)
(* attack lead to, a serious alert is covered, and in turn an alert has    *)
(* the standing of its ticket.                                             *)

Sound == IInv /\ ~mode.fails

LEMMA ModeKept == [Next]_vars => mode' = mode
BY DEF Next, vars, Age, Detect, Handle, Ensure, AutoCreate, Create, Annotate, Transition, Dispose,
       Continue, CreateSaved, CreateFails, ChangeSaved, ChangeFails, Sync, SyncSaved, SyncFails,
       DisposeSaved, DisposeFails, NoteLookup, Note, Mutate

(* One thread moves; what it does is its next label and local variables.   *)
LEMMA Moves ==
    ASSUME IInv, NEW t \in Threads, NEW l, NEW j, Goto(t, l, j)
    PROVE  /\ pc'[t] = l /\ job'[t] = j
           /\ \A u \in Threads : u # t => pc'[u] = pc[u] /\ job'[u] = job[u]
BY DEF IInv, Types, Goto

LEMMA ReturnMoves ==
    ASSUME IInv, NEW t \in Threads, Return(t)
    PROVE  /\ pc'[t] = "idle"
           /\ \A u \in Threads : u # t => pc'[u] = pc[u] /\ job'[u] = job[u]
BY Moves DEF Return

LEMMA AllThreads ==
    /\ Threads = Workers \cup Users /\ Workers \cap Users = {}
    /\ \A a \in AlertIds : a # None
    /\ \A i \in TicketIds : i # None
BY WorkflowAssumption DEF Threads, AlertIds, TicketIds, None

(* What mutate leaves to be saved, and to be told to the alert.            *)
LEMMA MutateMoves ==
    ASSUME Sound, NEW u \in Users, NEW i, NEW k, NEW sync, Mutate(u, i, k, sync)
    PROVE  /\ pc'[u] = "save" /\ job'[u].ticket = i
           /\ job'[u].alert = tickets[i].alert /\ job'[u].sync = sync
<1>. DEFINE j == [NoJob EXCEPT !.ticket = i, !.before = tickets[i],
                               !.alert = tickets[i].alert, !.sync = sync]
<1>1. j.ticket = i /\ j.alert = tickets[i].alert /\ j.sync = sync
  BY DEF NoJob
<1>2. Goto(u, "save", j)
  BY DEF Mutate
<1>. HIDE DEF j
<1>3. pc'[u] = "save" /\ job'[u] = j
  BY <1>2, Moves, AllThreads DEF Sound
<1>. QED
  BY <1>1, <1>3

(* A step of a person leaves every worker where it is.                     *)
LEMMA PersonMoves ==
    ASSUME Sound, NEW u \in Users,
           Create(u) \/ Annotate(u) \/ Transition(u) \/ Dispose(u) \/ Continue(u)
    PROVE  \A t \in Threads : t # u => pc'[t] = pc[t] /\ job'[t] = job[t]
<1>1. u \in Threads
  BY AllThreads
<1>2. \/ \E l, j : Goto(u, l, j)
      \/ UNCHANGED <<pc, job>>
  <2>1. CASE Continue(u)
    <3>1. CASE CreateSaved(u) \/ CreateFails(u) \/ ChangeFails(u) \/ SyncSaved(u) \/ SyncFails(u) \/ DisposeFails(u)
      BY <3>1 DEF CreateSaved, CreateFails, ChangeFails, SyncSaved, SyncFails, DisposeFails, Return
    <3>2. CASE ChangeSaved(u) \/ DisposeSaved(u) \/ NoteLookup(u)
      BY <3>2 DEF ChangeSaved, DisposeSaved, NoteLookup, Return
    <3>3. CASE Sync(u) \/ Note(u)
      BY <3>3 DEF Sync, Note, Mutate, Return
    <3>. QED
      BY <2>1, <3>1, <3>2, <3>3 DEF Continue
  <2>2. CASE Create(u) \/ Annotate(u) \/ Transition(u) \/ Dispose(u)
    BY <2>2 DEF Create, Annotate, Transition, Dispose, Mutate
  <2>. QED
    BY <2>1, <2>2
<1>. QED
  BY <1>1, <1>2, Moves DEF Sound

(* A worker that does not move itself stays where it is.                   *)
LEMMA WorkerStays ==
    ASSUME Sound, [Next]_vars, NEW v \in Workers, ~Detect(v), ~Handle(v)
    PROVE  pc'[v] = pc[v] /\ job'[v] = job[v]
<1>1. ASSUME NEW w \in Workers, Detect(w)
      PROVE  pc'[v] = pc[v] /\ job'[v] = job[v]
  <2>1. UNCHANGED <<pc, job>> \/ \E j : Goto(w, "ensure", j)
    BY <1>1 DEF Detect
  <2>. QED
    BY <1>1, <2>1, Moves, AllThreads DEF Sound
<1>2. ASSUME NEW w \in Workers, Handle(w)
      PROVE  pc'[v] = pc[v] /\ job'[v] = job[v]
  BY <1>2, Moves, AllThreads DEF Sound, Handle, Ensure, AutoCreate, Return
<1>3. ASSUME NEW u \in Users,
             Create(u) \/ Annotate(u) \/ Transition(u) \/ Dispose(u) \/ Continue(u)
      PROVE  pc'[v] = pc[v] /\ job'[v] = job[v]
  BY <1>3, PersonMoves, AllThreads
<1>4. CASE Age \/ UNCHANGED vars
  BY <1>4 DEF Age, vars
<1>. QED
  BY <1>1, <1>2, <1>3, <1>4 DEF Next

-----------------------------------------------------------------------------
(* What the steps do to an alert.                                          *)

(* A detection changes no alert but the one it goes to.                    *)
LEMMA DetectEffect ==
    ASSUME Sound, NEW w \in Workers, Detect(w)
    PROVE  \E b \in AlertIds, x \in Alert :
             /\ alerts' = [alerts EXCEPT ![b] = x]
             /\ alerts[b] # NoAlert =>
                    /\ x.det = alerts[b].det /\ x.status = alerts[b].status
                    /\ x.disposed = alerts[b].disposed
             /\ IF x.high THEN Goto(w, "ensure", [NoJob EXCEPT !.alert = b])
                ELSE UNCHANGED <<pc, job>>
             /\ MayStart(w, Workers) /\ UNCHANGED ticketVars
<1>1. PICK d \in Detections, high \in BOOLEAN :
        LET a == IF Mergeable(active[d]) THEN active[d] ELSE raised + 1
            x == IF a <= raised
                 THEN [alerts[a] EXCEPT !.high = @ \/ high, !.recent = TRUE]
                 ELSE [det |-> d, status |-> "open", high |-> high,
                       recent |-> TRUE, disposed |-> FALSE]
        IN  /\ a \in AlertIds
            /\ alerts' = [alerts EXCEPT ![a] = x]
            /\ IF x.high THEN Goto(w, "ensure", [NoJob EXCEPT !.alert = a])
               ELSE UNCHANGED <<pc, job>>
            /\ MayStart(w, Workers) /\ UNCHANGED ticketVars
  BY DEF Detect
<1>. DEFINE a == IF Mergeable(active[d]) THEN active[d] ELSE raised + 1
            x == IF a <= raised
                 THEN [alerts[a] EXCEPT !.high = @ \/ high, !.recent = TRUE]
                 ELSE [det |-> d, status |-> "open", high |-> high,
                       recent |-> TRUE, disposed |-> FALSE]
<1>2. a \in AlertIds
  BY <1>1
<1>3. a <= raised <=> alerts[a] # NoAlert
  BY <1>2 DEF Sound, IInv, Raised
<1>4. /\ x \in Alert
      /\ alerts[a] # NoAlert =>
           /\ x.det = alerts[a].det /\ x.status = alerts[a].status
           /\ x.disposed = alerts[a].disposed
  <2>1. CASE a <= raised
    <3>1. alerts[a] \in Alert
      BY <1>2, <1>3, <2>1 DEF Sound, IInv, Types
    <3>. QED
      BY <2>1, <3>1 DEF Alert
  <2>2. CASE ~(a <= raised)
    BY <1>3, <2>2 DEF Alert, AlertStatus
  <2>. QED
    BY <2>1, <2>2
<1>5. /\ alerts' = [alerts EXCEPT ![a] = x]
      /\ IF x.high THEN Goto(w, "ensure", [NoJob EXCEPT !.alert = a])
         ELSE UNCHANGED <<pc, job>>
  BY <1>1
<1>. HIDE DEF a, x
<1>. QED
  BY <1>1, <1>2, <1>4, <1>5

(* Nothing else changes what an alert is about or how serious it is, and   *)
(* its standing only to what a ticket comes to, or by acting on it.        *)
LEMMA AlertEffect ==
    ASSUME Sound, [Next]_vars, \A w \in Workers : ~Detect(w), NEW a \in AlertIds
    PROVE  /\ alerts'[a] = NoAlert <=> alerts[a] = NoAlert
           /\ alerts[a] # NoAlert =>
                /\ alerts'[a].det = alerts[a].det /\ alerts'[a].high = alerts[a].high
                /\ alerts[a].disposed => alerts'[a].disposed
                /\ alerts'[a].status = alerts[a].status \/ alerts'[a].disposed
                   \/ \E u \in Users : /\ Sync(u) /\ job[u].alert = a
                                       /\ alerts'[a].status = job[u].sync
<1>1. CASE UNCHANGED alerts
  BY <1>1
<1>2. CASE Age
  <2>1. PICK b \in AlertIds : alerts[b] # NoAlert /\ alerts' = [alerts EXCEPT ![b].recent = FALSE]
    BY <1>2 DEF Age
  <2>2. alerts[b] \in Alert
    BY <2>1 DEF Sound, IInv, Types
  <2>3. PICK x : x = [alerts[b] EXCEPT !.recent = FALSE]
    OBVIOUS
  <2>4. /\ x \in Alert /\ x.det = alerts[b].det /\ x.high = alerts[b].high
        /\ x.disposed = alerts[b].disposed /\ x.status = alerts[b].status
    BY <2>2, <2>3 DEF Alert
  <2>5. alerts' = [alerts EXCEPT ![b] = x]
    BY <2>1, <2>3
  <2>. QED
    BY <2>1, <2>4, <2>5, Blanks DEF Sound, IInv, Types
<1>3. ASSUME NEW u \in Users, Sync(u) PROVE
        /\ alerts'[a] = NoAlert <=> alerts[a] = NoAlert
        /\ alerts[a] # NoAlert =>
             /\ alerts'[a].det = alerts[a].det /\ alerts'[a].high = alerts[a].high
             /\ alerts'[a].disposed = alerts[a].disposed
             /\ \/ alerts'[a].status = alerts[a].status
                \/ job[u].alert = a /\ alerts'[a].status = job[u].sync
  <2>1. u \in Threads /\ job[u] \in Job /\ StepOK("sync", job[u])
    BY <1>3, AllThreads DEF Sync, Sound, IInv, Types, Jobs
  <2>2. PICK b \in AlertIds : b = job[u].alert /\ alerts[b] # NoAlert /\ alerts[b] \in Alert
    BY <2>1, JobAlert DEF StepOK, Sound
  <2>3. PICK x : x = [alerts[b] EXCEPT !.status = job[u].sync]
    OBVIOUS
  <2>4. /\ x.det = alerts[b].det /\ x.high = alerts[b].high /\ x # NoAlert
        /\ x.disposed = alerts[b].disposed /\ x.status = job[u].sync
    <3>1. job[u].sync \in AlertStatus
      BY <2>1 DEF StepOK, Job
    <3>2. x \in Alert
      BY <2>2, <2>3, <3>1 DEF Alert
    <3>. QED
      BY <2>2, <2>3, <3>2, Blanks DEF Alert
  <2>5. alerts' = [alerts EXCEPT ![b] = x]
    BY <1>3, <2>2, <2>3 DEF Sync
  <2>. QED
    BY <2>2, <2>4, <2>5 DEF Sound, IInv, Types
<1>4. ASSUME NEW u \in Users, Dispose(u) PROVE
        /\ alerts'[a] = NoAlert <=> alerts[a] = NoAlert
        /\ alerts[a] # NoAlert =>
             /\ alerts'[a].det = alerts[a].det /\ alerts'[a].high = alerts[a].high
             /\ alerts[a].disposed => alerts'[a].disposed
             /\ alerts'[a].status = alerts[a].status \/ alerts'[a].disposed
  <2>1. PICK b \in AlertIds, how \in {"failed", "taken", "blocked"} :
          /\ alerts[b] # NoAlert
          /\ alerts' = [alerts EXCEPT ![b].status = IF how = "failed" THEN @ ELSE "in_progress",
                                      ![b].disposed = TRUE]
    BY <1>4 DEF Dispose
  <2>2. alerts[b] \in Alert
    BY <2>1 DEF Sound, IInv, Types
  <2>. DEFINE x == [alerts[b] EXCEPT !.status = IF how = "failed" THEN @ ELSE "in_progress",
                                     !.disposed = TRUE]
  <2>4. /\ x \in Alert /\ x.det = alerts[b].det /\ x.high = alerts[b].high /\ x.disposed
    BY <2>2 DEF Alert, AlertStatus
  <2>3. alerts \in [AlertIds -> Alert \cup {NoAlert}]
    BY DEF Sound, IInv, Types
  <2>5. alerts' = [alerts EXCEPT ![b] = x]
    BY <2>1, <2>2, <2>3 DEF Alert, AlertStatus
  <2>. HIDE DEF x
  <2>. QED
    BY <2>1, <2>4, <2>5, Blanks DEF Sound, IInv, Types
<1>5. \/ UNCHANGED alerts \/ Age \/ \E u \in Users : Sync(u) \/ Dispose(u)
  BY DEF Sound, Next, vars, Handle, Ensure, AutoCreate, Create, Annotate, Transition,
         Continue, CreateSaved, CreateFails, ChangeSaved, ChangeFails, SyncSaved, SyncFails,
         DisposeSaved, DisposeFails, NoteLookup, Note, Mutate, alertVars
<1>. QED
  BY <1>1, <1>2, <1>3, <1>4, <1>5

-----------------------------------------------------------------------------
(* What the steps do to tickets and to the indexes.                        *)

(* A ticket is worked on: what it is for and whom it covers stay.          *)
Moved(i, k) ==
    /\ tickets[i] # NoTicket /\ tickets' = [tickets EXCEPT ![i] = k]
    /\ k.alert = tickets[i].alert /\ k.group = tickets[i].group
    /\ k.related = tickets[i].related
    /\ IsClosed(tickets[i]) /\ ~mode.reopens => k = tickets[i]
    /\ k = tickets[i] \/ \E u \in Users : Transition(u)
    /\ UNCHANGED <<byAlert, byGroup, seq>>

(* An attack's ticket takes in an alert that had none.                     *)
Shared(i, k, a) ==
    /\ byAlert[a] = None /\ byAlert' = [byAlert EXCEPT ![a] = i]
    /\ tickets[i] # NoTicket /\ tickets' = [tickets EXCEPT ![i] = k]
    /\ k.alert = tickets[i].alert /\ k.group = tickets[i].group /\ k.status = tickets[i].status
    /\ k.related \subseteq tickets[i].related \cup {a}
    /\ UNCHANGED <<byGroup, seq>>

(* A ticket is opened for an alert that has no open one: by a worker for   *)
(* the attack, or by a person.                                             *)
Opened(n, a, g) ==
    /\ Open(n, a, g) /\ ~HasOpenTicket(a)
    /\ \/ g = NoGroup
       \/ \E w \in Workers : /\ AutoCreate(w) /\ a = job[w].alert
                             /\ g = GroupOf[alerts[a].det]

LEMMA SameMoves ==
    ASSUME Sound, NEW u \in Users, NEW i \in TicketIds, NEW sync,
           Mutate(u, i, tickets[i], sync)
    PROVE  tickets[i] \in Ticket /\ Moved(i, tickets[i])
BY DEF Mutate, Moved, Sound, IInv, Types

LEMMA TransitionEffect ==
    ASSUME Sound, NEW u \in Users, Transition(u)
    PROVE  \E i \in TicketIds, k \in Ticket :
             /\ Moved(i, k) /\ MayStart(u, Users) /\ UNCHANGED alerts
             /\ pc'[u] = "save" /\ job'[u].ticket = i /\ job'[u].alert = k.alert
             /\ job'[u].sync = Outcome(tickets[i].status, k.status)
<1>1. PICK i \in TicketIds, to \in TicketStatus :
        LET k == tickets[i]
        IN  /\ IsClosed(k) => mode.reopens
            /\ Mutate(u, i,
                      [k EXCEPT !.status = to, !.submitter = SubmitterAfter(k, to, u),
                                !.closer = IF to = "done" THEN u ELSE Nobody],
                      Outcome(k.status, to))
  BY DEF Transition
<1>. DEFINE k == tickets[i]
            n == [k EXCEPT !.status = to, !.submitter = SubmitterAfter(k, to, u),
                           !.closer = IF to = "done" THEN u ELSE Nobody]
<1>2. k \in Ticket
  BY <1>1 DEF Mutate, Sound, IInv, Types
<1>3. SubmitterAfter(k, to, u) \in Users \cup {Nobody}
  BY <1>2 DEF SubmitterAfter, Ticket
<1>4. /\ n \in Ticket /\ n.alert = k.alert /\ n.related = k.related /\ n.group = k.group
      /\ n.status = to
  BY <1>2, <1>3 DEF Ticket
<1>5. Mutate(u, i, n, Outcome(k.status, to)) /\ (IsClosed(k) => mode.reopens)
  BY <1>1
<1>6. MayStart(u, Users)
  BY DEF Transition, Ask
<1>. HIDE DEF n
<1>7. Moved(i, n)
  BY <1>4, <1>5 DEF Mutate, Moved
<1>8. UNCHANGED alerts
  BY <1>5 DEF Mutate, alertVars
<1>9. /\ pc'[u] = "save" /\ job'[u].ticket = i /\ job'[u].alert = n.alert
      /\ job'[u].sync = Outcome(tickets[i].status, n.status)
  BY <1>4, <1>5, MutateMoves
<1>. QED
  BY <1>4, <1>6, <1>7, <1>8, <1>9

LEMMA EnsureEffect ==
    ASSUME Sound, NEW w \in Workers, Ensure(w)
    PROVE  \/ UNCHANGED <<tickets, byAlert, byGroup, seq>>
           \/ \E i \in TicketIds, k \in Ticket, a \in AlertIds : Shared(i, k, a)
<1>1. CASE LET a == job[w].alert
               i == GroupTicket(a)
           IN  /\ byAlert[a] = None /\ Covers(i)
               /\ byAlert' = Mapped(a, i)
               /\ tickets' = IF IsOpen(tickets[i]) /\ HasRoom(tickets[i])
                             THEN [tickets EXCEPT ![i].related = @ \cup {a}]
                             ELSE tickets
  <2>1. /\ w \in Threads /\ job[w].alert # None
    BY AllThreads DEF Ensure, Sound, IInv, Jobs, StepOK
  <2>2. PICK a \in AlertIds : a = job[w].alert /\ alerts[a] \in Alert
    BY <2>1, JobAlert DEF Sound
  <2>3. PICK h \in Groups : GroupTicket(a) = byGroup[h]
    BY <1>1, <2>2, WorkflowAssumption DEF GroupTicket, Covers, Alert
  <2>4. PICK i \in TicketIds : i = GroupTicket(a) /\ i = byGroup[h]
    BY <1>1, <2>2, <2>3 DEF Covers, Sound, IInv, Types
  <2>5. tickets[i] \in Ticket /\ tickets[i] # NoTicket
    BY <2>3, <2>4, AllThreads DEF Sound, IInv, Types, Indexed, IndexedExist
  <2>6. byAlert' = [byAlert EXCEPT ![a] = i] /\ byAlert[a] = None
    BY <1>1, <2>2, <2>4, AllThreads DEF Mapped
  <2>7. PICK k \in Ticket : /\ tickets' = [tickets EXCEPT ![i] = k]
                            /\ k.alert = tickets[i].alert /\ k.group = tickets[i].group
                            /\ k.status = tickets[i].status
                            /\ k.related \subseteq tickets[i].related \cup {a}
    <3>. DEFINE n == [tickets[i] EXCEPT !.related = @ \cup {a}]
    <3>1. CASE IsOpen(tickets[i]) /\ HasRoom(tickets[i])
      <4>1. /\ n \in Ticket /\ n.alert = tickets[i].alert /\ n.group = tickets[i].group
            /\ n.status = tickets[i].status /\ n.related = tickets[i].related \cup {a}
        BY <2>5 DEF Ticket
      <4>2. tickets' = [tickets EXCEPT ![i] = n]
        BY <1>1, <2>2, <2>4, <3>1 DEF Sound, IInv, Types
      <4>. HIDE DEF n
      <4>. QED
        BY <4>1, <4>2
    <3>2. CASE ~(IsOpen(tickets[i]) /\ HasRoom(tickets[i]))
      <4>1. tickets' = [tickets EXCEPT ![i] = tickets[i]]
        BY <1>1, <2>2, <2>4, <3>2 DEF Sound, IInv, Types
      <4>. QED
        BY <4>1, <2>5
    <3>. QED
      BY <3>1, <3>2
  <2>8. UNCHANGED <<byGroup, seq>>
    BY DEF Ensure
  <2>. QED
    BY <2>5, <2>6, <2>7, <2>8 DEF Shared
<1>2. CASE UNCHANGED <<tickets, byAlert>>
  BY <1>2 DEF Ensure
<1>. QED
  BY <1>1, <1>2 DEF Ensure

LEMMA TicketEffect ==
    ASSUME Sound, [Next]_vars
    PROVE  \/ UNCHANGED <<tickets, byAlert, byGroup, seq>>
           \/ \E i \in TicketIds, k \in Ticket : Moved(i, k)
           \/ \E i \in TicketIds, k \in Ticket, a \in AlertIds : Shared(i, k, a)
           \/ \E n \in TicketIds, a \in AlertIds \cup {None}, g \in Groups \cup {NoGroup} :
                Opened(n, a, g)
<1>1. ASSUME NEW u \in Users, Create(u)
      PROVE  \E n \in TicketIds, a \in AlertIds \cup {None} : Opened(n, a, NoGroup)
  BY <1>1 DEF Create, Opened, Open
<1>2. ASSUME NEW u \in Users, Annotate(u) \/ Note(u)
      PROVE  \/ UNCHANGED <<tickets, byAlert, byGroup, seq>>
             \/ \E i \in TicketIds, k \in Ticket : Moved(i, k)
  <2>1. CASE \E i \in TicketIds : Mutate(u, i, tickets[i], "none")
    BY <2>1, SameMoves
  <2>2. CASE UNCHANGED ticketVars
    BY <2>2 DEF ticketVars
  <2>3. CASE Note(u) /\ Mutate(u, job[u].ticket, tickets[job[u].ticket], "none")
    <3>1. job[u].ticket \in TicketIds
      BY <2>3, AllThreads DEF Note, Sound, IInv, Types, Jobs, StepOK, Job
    <3>. QED
      BY <2>1, <2>3, <3>1
  <2>. QED
    BY <1>2, <2>1, <2>2, <2>3 DEF Annotate, Note
<1>3. ASSUME NEW w \in Workers, AutoCreate(w)
      PROVE  \/ UNCHANGED <<tickets, byAlert, byGroup, seq>>
             \/ \E n \in TicketIds, a \in AlertIds \cup {None}, g \in Groups \cup {NoGroup} :
                  Opened(n, a, g)
  <2>1. /\ w \in Threads /\ job[w].alert # None
    BY <1>3, AllThreads DEF AutoCreate, Sound, IInv, Jobs, StepOK
  <2>2. PICK a \in AlertIds : a = job[w].alert /\ alerts[a] \in Alert
    BY <2>1, JobAlert DEF Sound
  <2>3. PICK g \in Groups \cup {NoGroup} : g = GroupOf[alerts[a].det]
    BY <2>2, WorkflowAssumption DEF Alert
  <2>4. CASE HasOpenTicket(a)
    BY <1>3, <2>2, <2>4 DEF AutoCreate, ticketVars
  <2>5. CASE ~HasOpenTicket(a)
    <3>1. Open(seq + 1, a, g)
      BY <1>3, <2>2, <2>3, <2>5 DEF AutoCreate
    <3>2. PICK n \in TicketIds : n = seq + 1
      BY <3>1 DEF Open
    <3>. QED
      BY <1>3, <2>2, <2>3, <2>5, <3>1, <3>2 DEF Opened
  <2>. QED
    BY <2>4, <2>5
<1>4. \/ UNCHANGED <<tickets, byAlert, byGroup, seq>>
      \/ \E u \in Users : Create(u) \/ Annotate(u) \/ Note(u) \/ Transition(u)
      \/ \E w \in Workers : Ensure(w) \/ AutoCreate(w)
  BY DEF Sound, Next, vars, Age, Detect, Handle, Dispose, Continue, CreateSaved, CreateFails,
         ChangeSaved, ChangeFails, Sync, SyncSaved, SyncFails, DisposeSaved, DisposeFails,
         NoteLookup, ticketVars
<1>. QED
  BY <1>1, <1>2, <1>3, <1>4, TransitionEffect, EnsureEffect

-----------------------------------------------------------------------------
(* Coverage.                                                               *)

(* While saves succeed an alert never loses its entry in the index.        *)
LEMMA IndexGrows ==
    ASSUME Sound, [Next]_vars, NEW a \in AlertIds, byAlert[a] # None
    PROVE  byAlert'[a] # None
<1>1. byAlert \in [AlertIds -> TicketIds \cup {None}]
  BY DEF Sound, IInv, Types
<1>2. CASE \E n \in TicketIds, b \in AlertIds \cup {None}, g \in Groups \cup {NoGroup} :
             Opened(n, b, g)
  BY <1>1, <1>2, AllThreads DEF Opened, Open, Mapped
<1>3. CASE \E i \in TicketIds, k \in Ticket, b \in AlertIds : Shared(i, k, b)
  BY <1>1, <1>3, AllThreads DEF Shared
<1>. QED
  BY <1>2, <1>3, TicketEffect DEF Moved

(* A worker leaves an alert only when it is in the index.                  *)
LEMMA HandleCovers ==
    ASSUME Sound, NEW w \in Workers, Handle(w)
    PROVE  byAlert'[job[w].alert] # None \/ (pc'[w] # "idle" /\ job'[w].alert = job[w].alert)
<1>1. w \in Threads /\ job[w].alert \in AlertIds
  <2>1. w \in Threads /\ job[w].alert # None
    BY AllThreads DEF Handle, Ensure, AutoCreate, Sound, IInv, Jobs, StepOK
  <2>. QED
    BY <2>1, JobAlert DEF Sound
<1>2. byAlert \in [AlertIds -> TicketIds \cup {None}]
  BY DEF Sound, IInv, Types
<1>3. CASE Goto(w, "create", job[w])
  BY <1>1, <1>3, Moves DEF Sound
<1>4. CASE Ensure(w) /\ ~Goto(w, "create", job[w])
  <2>. DEFINE a == job[w].alert
  <2>1. \/ byAlert[a] # None /\ UNCHANGED byAlert
        \/ Covers(GroupTicket(a)) /\ byAlert' = Mapped(a, GroupTicket(a))
    BY <1>4 DEF Ensure
  <2>. QED
    BY <1>1, <1>2, <2>1, AllThreads DEF Covers, Mapped
<1>5. CASE AutoCreate(w)
  <2>1. CASE HasOpenTicket(job[w].alert)
    BY <1>5, <2>1 DEF AutoCreate, HasOpenTicket, ticketVars
  <2>2. CASE ~HasOpenTicket(job[w].alert)
    <3>1. seq + 1 \in TicketIds /\ byAlert' = Mapped(job[w].alert, seq + 1)
      BY <1>5, <2>2 DEF AutoCreate, Open
    <3>. QED
      BY <1>1, <1>2, <3>1, AllThreads DEF Mapped
  <2>. QED
    BY <2>1, <2>2
<1>. QED
  BY <1>3, <1>4, <1>5 DEF Handle

LEMMA CoveredStep ==
    ASSUME IInv, Covered, [Next]_vars
    PROVE  Covered'
<1>. SUFFICES ASSUME ~mode'.fails, NEW a \in AlertIds, alerts'[a] # NoAlert, alerts'[a].high
              PROVE  \/ byAlert'[a] # None
                     \/ \E w \in Workers : pc'[w] # "idle" /\ job'[w].alert = a
  BY DEF Covered
<1>1. Sound
  BY ModeKept DEF Sound
<1>2. ASSUME alerts[a] # NoAlert, alerts[a].high
      PROVE  byAlert[a] # None \/ \E w \in Workers : pc[w] # "idle" /\ job[w].alert = a
  BY <1>1, <1>2 DEF Sound, Covered
<1>3. ASSUME NEW w \in Workers, Detect(w)
      PROVE  byAlert'[a] # None \/ \E v \in Workers : pc'[v] # "idle" /\ job'[v].alert = a
  <2>1. PICK b \in AlertIds, x \in Alert :
          /\ alerts' = [alerts EXCEPT ![b] = x]
          /\ IF x.high THEN Goto(w, "ensure", [NoJob EXCEPT !.alert = b])
             ELSE UNCHANGED <<pc, job>>
          /\ MayStart(w, Workers)
    BY <1>1, <1>3, DetectEffect
  <2>2. alerts \in [AlertIds -> Alert \cup {NoAlert}] /\ w \in Threads
    BY <1>1, AllThreads DEF Sound, IInv, Types
  <2>3. CASE a = b
    <3>1. Goto(w, "ensure", [NoJob EXCEPT !.alert = b])
      BY <2>1, <2>2, <2>3
    <3>. QED
      BY <1>1, <2>2, <2>3, <3>1, Moves DEF Sound, NoJob
  <2>4. CASE a # b
    <3>1. byAlert[a] # None \/ \E v \in Workers : pc[v] # "idle" /\ job[v].alert = a
      BY <1>2, <2>1, <2>2, <2>4
    <3>2. ASSUME NEW v \in Workers, v # w
          PROVE  pc'[v] = pc[v] /\ job'[v] = job[v]
      BY <1>1, <2>1, <2>2, <3>2, Moves, AllThreads DEF Sound
    <3>. QED
      BY <1>1, <2>1, <3>1, <3>2, IndexGrows DEF MayStart
  <2>. QED
    BY <2>3, <2>4
<1>4. CASE \A w \in Workers : ~Detect(w)
  <2>1. alerts[a] # NoAlert /\ alerts[a].high
    BY <1>1, <1>4, AlertEffect
  <2>2. CASE byAlert[a] # None
    BY <1>1, <2>2, IndexGrows
  <2>3. ASSUME NEW v \in Workers, pc[v] # "idle", job[v].alert = a
        PROVE  byAlert'[a] # None \/ (pc'[v] # "idle" /\ job'[v].alert = a)
    <3>1. CASE Handle(v)
      BY <1>1, <2>3, <3>1, HandleCovers
    <3>2. CASE ~Handle(v)
      BY <1>1, <1>4, <2>3, <3>2, WorkerStays
    <3>. QED
      BY <3>1, <3>2
  <2>. QED
    BY <1>2, <2>1, <2>2, <2>3
<1>. QED
  BY <1>3, <1>4

(* While saves succeed, no serious alert is forgotten: it is in the index  *)
(* or a worker is about to open or find its ticket, whatever other workers *)
(* and people do between the steps of raiseAlert and EnsureForAlert.       *)
THEOREM CoveredCorrect == Spec => []Covered
<1>1. Init => Covered
  BY DEF Init, Covered
<1>2. IInv /\ Covered /\ [Next]_vars => Covered'
  BY CoveredStep
<1>. QED
  BY <1>1, <1>2, Inductive, PTL DEF Spec

-----------------------------------------------------------------------------
(* One open ticket.                                                        *)

(* The alerts of an open ticket lead to it. *)
OpenIndexed == \A a \in AlertIds : \A i \in OpenFor(a) : byAlert[a] = i

OpenIn(g) == {i \in TicketIds : /\ tickets[i] # NoTicket
                                /\ IsOpen(tickets[i]) /\ tickets[i].group = g}

(* So does its attack, when detections are handled one at a time: then     *)
(* what a worker found out about the attack's ticket still holds when it   *)
(* opens another.                                                          *)
GroupIndexed == \A g \in Groups : \A i \in OpenIn(g) : byGroup[g] = i
OneWorker == \A v, w \in Workers : pc[v] # "idle" /\ pc[w] # "idle" => v = w
Undecided ==
    \A w \in Workers : pc[w] = "create" => ~Covers(GroupTicket(job[w].alert))

Filed ==
    ~mode.fails /\ ~mode.reopens =>
        OpenIndexed /\ (mode.serial => OneWorker /\ Undecided /\ GroupIndexed)

LEMMA StatusOf ==
    /\ ~IsOpen(NoTicket)
    /\ \A k \in Ticket : IsOpen(k) <=> ~IsClosed(k)
    /\ \A k : k.status = "done" => IsClosed(k) /\ ~IsOpen(k)
BY DEF IsOpen, IsClosed, NoTicket, Ticket, TicketStatus

LEMMA OpenIndexedStep ==
    ASSUME Sound, ~mode.reopens, OpenIndexed, [Next]_vars
    PROVE  OpenIndexed'
<1>. SUFFICES ASSUME NEW b \in AlertIds, NEW m \in TicketIds,
                     tickets'[m] # NoTicket, IsOpen(tickets'[m]),
                     b = tickets'[m].alert \/ b \in tickets'[m].related
              PROVE  byAlert'[b] = m
  BY DEF OpenIndexed, OpenFor, IsOpen
<1>1. /\ tickets \in [TicketIds -> Ticket \cup {NoTicket}]
      /\ byAlert \in [AlertIds -> TicketIds \cup {None}]
  BY DEF Sound, IInv, Types
<1>2. ASSUME tickets[m] # NoTicket, IsOpen(tickets[m]),
             b = tickets[m].alert \/ b \in tickets[m].related
      PROVE  byAlert[b] = m
  BY <1>2 DEF OpenIndexed, OpenFor
<1>3. CASE UNCHANGED <<tickets, byAlert, byGroup, seq>>
  BY <1>2, <1>3
<1>4. ASSUME NEW i \in TicketIds, NEW k \in Ticket, Moved(i, k)
      PROVE  byAlert'[b] = m
  <2>1. CASE m = i
    <3>1. tickets'[m] = k /\ tickets[m] \in Ticket
      BY <1>1, <1>4, <2>1 DEF Moved
    <3>2. IsOpen(tickets[m])
      BY <1>4, <2>1, <3>1, StatusOf DEF Moved
    <3>. QED
      BY <1>2, <1>4, <2>1, <3>1, <3>2 DEF Moved
  <2>2. CASE m # i
    BY <1>1, <1>2, <1>4, <2>2 DEF Moved
  <2>. QED
    BY <2>1, <2>2
<1>5. ASSUME NEW i \in TicketIds, NEW k \in Ticket, NEW a \in AlertIds, Shared(i, k, a)
      PROVE  byAlert'[b] = m
  <2>1. byAlert[b] = m \/ (m = i /\ b = a)
    <3>1. CASE m = i
      <4>1. tickets'[m] = k
        BY <1>1, <1>5, <3>1 DEF Shared
      <4>2. IsOpen(tickets[m])
        BY <1>5, <3>1, <4>1 DEF Shared, IsOpen
      <4>. QED
        BY <1>2, <1>5, <3>1, <4>1, <4>2 DEF Shared
    <3>2. CASE m # i
      BY <1>1, <1>2, <1>5, <3>2 DEF Shared
    <3>. QED
      BY <3>1, <3>2
  <2>. QED
    BY <1>1, <1>5, <2>1, AllThreads DEF Shared
<1>6. ASSUME NEW n \in TicketIds, NEW a \in AlertIds \cup {None},
             NEW g \in Groups \cup {NoGroup}, Opened(n, a, g)
      PROVE  byAlert'[b] = m
  <2>1. CASE m = n
    <3>1. tickets'[m] = NewTicket(a, g)
      BY <1>1, <1>6, <2>1 DEF Opened, Open
    <3>2. b = a
      BY <3>1 DEF NewTicket
    <3>. QED
      BY <1>1, <1>6, <2>1, <3>2, AllThreads DEF Opened, Open, Mapped
  <2>2. CASE m # n
    <3>1. tickets'[m] = tickets[m]
      BY <1>1, <1>6, <2>2 DEF Opened, Open
    <3>2. byAlert[b] = m
      BY <1>2, <3>1
    <3>3. b # a
      BY <1>6, <3>1, <3>2, AllThreads DEF Opened, HasOpenTicket
    <3>. QED
      BY <1>1, <1>6, <3>2, <3>3 DEF Opened, Open, Mapped
  <2>. QED
    BY <2>1, <2>2
<1>. QED
  BY <1>3, <1>4, <1>5, <1>6, TicketEffect

(* A detection starts, and is handled, while no other worker is busy.      *)
LEMMA OneWorkerStep ==
    ASSUME Sound, mode.serial, OneWorker, [Next]_vars
    PROVE  OneWorker'
<1>. SUFFICES ASSUME NEW v \in Workers, NEW w \in Workers, v # w,
                     pc'[v] # "idle", pc'[w] # "idle"
              PROVE  FALSE
  BY DEF OneWorker
<1>1. ASSUME NEW x \in Workers, Detect(x)
      PROVE  \A y \in Workers : pc[y] = "idle" /\ ~Handle(y)
  BY <1>1 DEF Detect, MayStart, Handle, Ensure, AutoCreate
<1>2. ASSUME NEW x \in Workers, NEW y \in Workers, x # y, Detect(x), Detect(y)
      PROVE  pc'[x] = pc[x] \/ pc'[y] = pc[y]
  <2>1. UNCHANGED <<pc, job>> \/ \E j : Goto(x, "ensure", j)
    BY <1>2 DEF Detect
  <2>. QED
    BY <1>2, <2>1, Moves, AllThreads DEF Sound
<1>3. ASSUME NEW x \in Workers, Handle(x)
      PROVE  pc[x] # "idle"
  BY <1>3 DEF Handle, Ensure, AutoCreate
<1>4. ASSUME NEW x \in Workers, ~Detect(x), ~Handle(x)
      PROVE  pc'[x] = pc[x]
  BY <1>4, WorkerStays
<1>. QED
  BY <1>1, <1>2, <1>3, <1>4 DEF OneWorker

(* A closed ticket keeps its judgement. *)
LEMMA DoneStays ==
    ASSUME Sound, ~mode.reopens, [Next]_vars,
           NEW i \in TicketIds, i <= seq, tickets[i].status = "done"
    PROVE  tickets'[i].status = "done"
<1>1. /\ tickets \in [TicketIds -> Ticket \cup {NoTicket}] /\ IsClosed(tickets[i])
  BY StatusOf DEF Sound, IInv, Types
<1>2. ASSUME NEW n \in TicketIds, NEW a, NEW g, Opened(n, a, g)
      PROVE  tickets'[i] = tickets[i]
  <2>1. i # n
    BY <1>2, WorkflowAssumption DEF Opened, Open, Sound, IInv, Types, TicketIds
  <2>. QED
    BY <1>1, <1>2, <2>1 DEF Opened, Open
<1>. QED
  BY <1>1, <1>2, TicketEffect DEF Moved, Shared

(* An attack's alerts are about the same attack for good. *)
LEMMA DetKept ==
    ASSUME Sound, [Next]_vars, NEW a \in AlertIds, alerts[a] # NoAlert
    PROVE  alerts'[a].det = alerts[a].det
<1>1. ASSUME NEW w \in Workers, Detect(w)
      PROVE  alerts'[a].det = alerts[a].det
  <2>1. PICK b \in AlertIds, x \in Alert :
          /\ alerts' = [alerts EXCEPT ![b] = x]
          /\ alerts[b] # NoAlert => x.det = alerts[b].det
    BY <1>1, DetectEffect
  <2>. QED
    BY <2>1 DEF Sound, IInv, Types
<1>. QED
  BY <1>1, AlertEffect

LEMMA UndecidedStep ==
    ASSUME Sound, ~mode.reopens, mode.serial, OneWorker, Undecided, [Next]_vars
    PROVE  Undecided'
<1>. SUFFICES ASSUME NEW w \in Workers, pc'[w] = "create"
              PROVE  ~Covers(GroupTicket(job[w].alert))'
  BY DEF Undecided
<1>1. CASE Detect(w)
  <2>1. pc[w] = "idle" /\ (UNCHANGED <<pc, job>> \/ \E j : Goto(w, "ensure", j))
    BY <1>1 DEF Detect, MayStart
  <2>. QED
    BY <2>1, Moves, AllThreads DEF Sound
<1>2. CASE Handle(w)
  <2>1. ~Return(w)
    BY ReturnMoves, AllThreads DEF Sound
  <2>2. /\ ~Covers(GroupTicket(job[w].alert)) /\ Goto(w, "create", job[w])
        /\ UNCHANGED <<tickets, alertVars, byGroup>>
    BY <1>2, <2>1 DEF Handle, Ensure, AutoCreate
  <2>3. job'[w] = job[w] /\ alerts' = alerts
    BY <2>2, Moves, AllThreads DEF Sound, alertVars
  <2>. QED
    BY <2>2, <2>3 DEF Covers, GroupTicket
<1>3. CASE ~Detect(w) /\ ~Handle(w)
  <2>1. pc[w] = "create" /\ job'[w] = job[w]
    BY <1>3, WorkerStays
  <2>2. PICK a \in AlertIds : a = job[w].alert /\ alerts[a] # NoAlert /\ alerts[a] \in Alert
    <3>1. w \in Threads /\ job[w].alert # None
      BY <2>1, AllThreads DEF Sound, IInv, Jobs, StepOK
    <3>. QED
      BY <3>1, JobAlert DEF Sound
  <2>3. PICK g : g = GroupOf[alerts[a].det] /\ g = GroupOf[alerts'[a].det] /\ g \in Groups \cup {NoGroup}
    BY <2>2, DetKept, WorkflowAssumption DEF Alert
  <2>4. CASE g = NoGroup
    BY <2>1, <2>2, <2>3, <2>4 DEF Covers, GroupTicket
  <2>5. CASE g # NoGroup
    <3>1. byGroup[g] = None \/ tickets[byGroup[g]].status = "done"
      BY <2>1, <2>2, <2>3, <2>5 DEF Undecided, Covers, GroupTicket
    <3>2. byGroup'[g] = byGroup[g]
      <4>1. \A v \in Workers : ~AutoCreate(v)
        BY <1>3, <2>1 DEF OneWorker, AutoCreate, Handle
      <4>. QED
        BY <4>1, TicketEffect DEF Moved, Shared, Opened, Open
    <3>3. byGroup[g] # None => byGroup[g] \in TicketIds /\ byGroup[g] <= seq
      BY <2>3, <2>5 DEF Sound, IInv, Types, Indexed
    <3>4. byGroup'[g] = None \/ tickets'[byGroup'[g]].status = "done"
      BY <3>1, <3>2, <3>3, DoneStays
    <3>. QED
      BY <2>1, <2>2, <2>3, <2>5, <3>4 DEF Covers, GroupTicket
  <2>. QED
    BY <2>4, <2>5
<1>. QED
  BY <1>1, <1>2, <1>3

LEMMA GroupIndexedStep ==
    ASSUME Sound, ~mode.reopens, Undecided, GroupIndexed, [Next]_vars
    PROVE  GroupIndexed'
<1>. SUFFICES ASSUME NEW h \in Groups, NEW m \in TicketIds,
                     tickets'[m] # NoTicket, IsOpen(tickets'[m]), tickets'[m].group = h
              PROVE  byGroup'[h] = m
  BY DEF GroupIndexed, OpenIn, IsOpen
<1>1. /\ tickets \in [TicketIds -> Ticket \cup {NoTicket}]
      /\ byGroup \in [Groups -> TicketIds \cup {None}]
  BY DEF Sound, IInv, Types
<1>2. ASSUME tickets[m] # NoTicket, IsOpen(tickets[m]), tickets[m].group = h
      PROVE  byGroup[h] = m
  BY <1>2 DEF GroupIndexed, OpenIn
<1>3. CASE UNCHANGED <<tickets, byAlert, byGroup, seq>>
  BY <1>2, <1>3
<1>4. ASSUME NEW i \in TicketIds, NEW k \in Ticket, NEW a \in AlertIds, Shared(i, k, a)
      PROVE  byGroup'[h] = m
  <2>1. /\ IsOpen(tickets[m]) /\ tickets[m] # NoTicket /\ tickets[m].group = h
        /\ byGroup' = byGroup
    BY <1>1, <1>4 DEF Shared, IsOpen
  <2>. QED
    BY <1>2, <2>1
<1>5. ASSUME NEW i \in TicketIds, NEW k \in Ticket, Moved(i, k)
      PROVE  byGroup'[h] = m
  <2>1. CASE m = i
    <3>1. tickets'[m] = k /\ tickets[m] \in Ticket
      BY <1>1, <1>5, <2>1 DEF Moved
    <3>2. IsOpen(tickets[m])
      BY <1>5, <2>1, <3>1, StatusOf DEF Moved
    <3>. QED
      BY <1>2, <1>5, <2>1, <3>1, <3>2 DEF Moved
  <2>2. CASE m # i
    BY <1>1, <1>2, <1>5, <2>2 DEF Moved
  <2>. QED
    BY <2>1, <2>2
<1>6. ASSUME NEW n \in TicketIds, NEW a \in AlertIds \cup {None},
             NEW g \in Groups \cup {NoGroup}, Opened(n, a, g)
      PROVE  byGroup'[h] = m
  <2>1. CASE m = n
    <3>1. tickets'[m] = NewTicket(a, g)
      BY <1>1, <1>6, <2>1 DEF Opened, Open
    <3>2. h = g
      BY <3>1 DEF NewTicket
    <3>. QED
      BY <1>1, <1>6, <2>1, <3>2, WorkflowAssumption DEF Opened, Open
  <2>2. CASE m # n
    <3>1. tickets'[m] = tickets[m]
      BY <1>1, <1>6, <2>2 DEF Opened, Open
    <3>2. byGroup[h] = m
      BY <1>2, <3>1
    <3>3. h # g
      <4>. SUFFICES ASSUME h = g PROVE FALSE
        OBVIOUS
      <4>1. PICK w \in Workers : AutoCreate(w) /\ a = job[w].alert /\ g = GroupOf[alerts[a].det]
        BY <1>6, WorkflowAssumption DEF Opened
      <4>2. ~Covers(GroupTicket(a))
        BY <4>1 DEF AutoCreate, Undecided
      <4>3. GroupTicket(a) = m
        BY <3>2, <4>1, WorkflowAssumption DEF GroupTicket
      <4>. QED
        BY <3>1, <4>2, <4>3, StatusOf, AllThreads DEF Covers
    <3>. QED
      BY <1>1, <1>6, <3>2, <3>3 DEF Opened, Open
  <2>. QED
    BY <2>1, <2>2
<1>. QED
  BY <1>3, <1>4, <1>5, <1>6, TicketEffect

LEMMA FiledStep ==
    ASSUME IInv, Filed, [Next]_vars
    PROVE  Filed'
<1>. SUFFICES ASSUME ~mode'.fails, ~mode'.reopens
              PROVE  OpenIndexed' /\ (mode'.serial => OneWorker' /\ Undecided' /\ GroupIndexed')
  BY DEF Filed
<1>1. Sound /\ ~mode.reopens /\ mode' = mode
  BY ModeKept DEF Sound
<1>. QED
  BY <1>1, OpenIndexedStep, OneWorkerStep, UndecidedStep, GroupIndexedStep DEF Filed, Sound

LEMMA AtMostOne ==
    ASSUME NEW x, NEW S, \A i \in S : x = i
    PROVE  Cardinality(S) <= 1
<1>1. S \in SUBSET {x}
  OBVIOUS
<1>2. IsFiniteSet({x}) /\ Cardinality({x}) = 1
  BY FS_Singleton
<1>3. Cardinality(S) <= Cardinality({x})
  BY <1>1, <1>2, FS_Subset
<1>. QED
  BY <1>2, <1>3

(* While saves succeed and nothing is reopened, an alert is on one open    *)
(* ticket at most, and an attack has one when detections are handled one   *)
(* at a time: the indexes that create and EnsureForAlert ask are complete. *)
THEOREM OneOpenCorrect == Spec => []OneOpenTicket
<1>1. Init => Filed
  <2>. SUFFICES ASSUME Init PROVE Filed
    OBVIOUS
  <2>1. \A w \in Workers : pc[w] = "idle"
    BY AllThreads DEF Init
  <2>2. OneWorker /\ Undecided
    BY <2>1 DEF OneWorker, Undecided
  <2>3. OpenIndexed /\ GroupIndexed
    BY DEF Init, OpenIndexed, OpenFor, GroupIndexed, OpenIn
  <2>. QED
    BY <2>2, <2>3 DEF Filed
<1>2. IInv /\ Filed /\ [Next]_vars => Filed'
  BY FiledStep
<1>3. Filed => OneOpenTicket
  BY AtMostOne DEF Filed, OpenIndexed, GroupIndexed, OneOpenTicket, OpenIn
<1>. QED
  BY <1>1, <1>2, <1>3, Inductive, PTL DEF Spec

-----------------------------------------------------------------------------
(* The standing of an alert.                                               *)

Judged(k) == IF k.status = "done" THEN "resolved" ELSE "false_positive"

(* u has still to tell the alert of ticket i what became of it. *)
Carries(u, i) == pc[u] \in {"save", "sync"} /\ job[u].ticket = i /\ job[u].sync # "none"

Numbered == \A i \in TicketIds : tickets[i] # NoTicket => i <= seq
OneUser == \A u, v \in Users : pc[u] # "idle" /\ pc[v] # "idle" => u = v

(* What is carried is still true of the ticket. *)
Carried ==
    \A u \in Users : pc[u] \in {"save", "sync"} =>
        /\ job[u].ticket \in TicketIds /\ tickets[job[u].ticket] # NoTicket
        /\ tickets[job[u].ticket].alert = job[u].alert
        /\ job[u].sync # "none" /\ IsClosed(tickets[job[u].ticket])
              => job[u].sync = Judged(tickets[job[u].ticket])

Standing ==
    \A i \in TicketIds :
        LET a == tickets[i].alert
        IN  tickets[i] # NoTicket /\ IsClosed(tickets[i]) /\ a # None =>
              \/ alerts[a].disposed
              \/ \E j \in TicketIds \ {i} : tickets[j] # NoTicket /\ tickets[j].alert = a
              \/ alerts[a].status = Judged(tickets[i])
              \/ \E u \in Users : Carries(u, i)

InTurn == Numbered /\ OneUser /\ Carried /\ Standing

Asks(u) == Create(u) \/ Annotate(u) \/ Transition(u) \/ Dispose(u)

LEMMA AsksAlone ==
    ASSUME Sound, mode.serial, NEW u \in Users, Asks(u)
    PROVE  \A v \in Users : pc[v] = "idle"
BY DEF Asks, Create, Annotate, Transition, Dispose, Ask, MayStart

LEMMA UserStays ==
    ASSUME Sound, [Next]_vars, NEW u \in Users, ~Asks(u), ~Continue(u)
    PROVE  pc'[u] = pc[u] /\ job'[u] = job[u]
<1>1. ASSUME NEW w \in Workers, Detect(w) \/ Handle(w)
      PROVE  pc'[u] = pc[u] /\ job'[u] = job[u]
  <2>1. UNCHANGED <<pc, job>> \/ \E l, j : Goto(w, l, j)
    BY <1>1 DEF Detect, Handle, Ensure, AutoCreate, Return
  <2>. QED
    BY <2>1, Moves, AllThreads DEF Sound
<1>2. ASSUME NEW v \in Users, Asks(v) \/ Continue(v)
      PROVE  pc'[u] = pc[u] /\ job'[u] = job[u]
  BY <1>2, PersonMoves, AllThreads DEF Asks
<1>3. CASE Age \/ UNCHANGED vars
  BY <1>3 DEF Age, vars
<1>. QED
  BY <1>1, <1>2, <1>3 DEF Next, Asks

LEMMA OneUserStep ==
    ASSUME Sound, mode.serial, OneUser, [Next]_vars
    PROVE  OneUser'
<1>. SUFFICES ASSUME NEW u \in Users, NEW v \in Users, u # v,
                     pc'[u] # "idle", pc'[v] # "idle"
              PROVE  FALSE
  BY DEF OneUser
<1>1. ASSUME NEW x \in Users, NEW y \in Users, x # y, Asks(x)
      PROVE  pc'[y] = "idle"
  BY <1>1, AsksAlone, PersonMoves, AllThreads DEF Asks
<1>2. ASSUME NEW x \in Users, Continue(x)
      PROVE  pc[x] # "idle"
  BY <1>2 DEF Continue, CreateSaved, CreateFails, ChangeSaved, ChangeFails, Sync, SyncSaved,
              SyncFails, DisposeSaved, DisposeFails, NoteLookup, Note, Sound
<1>3. pc[u] # "idle" /\ pc[v] # "idle"
  BY <1>1, <1>2, UserStays
<1>. QED
  BY <1>3 DEF OneUser

(* Tickets are numbered, so an existing one is never opened again.         *)
LEMMA OpenedNew ==
    ASSUME Sound, Numbered, NEW n \in TicketIds, NEW a, NEW g, Opened(n, a, g)
    PROVE  /\ tickets[n] = NoTicket /\ IsOpen(tickets'[n])
           /\ \A i \in TicketIds \ {n} : tickets'[i] = tickets[i]
<1>1. /\ tickets \in [TicketIds -> Ticket \cup {NoTicket}] /\ n = seq + 1 /\ seq \in Nat
  BY WorkflowAssumption DEF Opened, Open, Sound, IInv, Types
<1>2. tickets' = [tickets EXCEPT ![n] = NewTicket(a, g)]
  BY DEF Opened, Open
<1>. QED
  BY <1>1, <1>2 DEF Numbered, NewTicket, IsOpen

LEMMA NumberedStep ==
    ASSUME Sound, Numbered, [Next]_vars
    PROVE  Numbered'
<1>. SUFFICES ASSUME NEW i \in TicketIds, tickets'[i] # NoTicket
              PROVE  i <= seq'
  BY DEF Numbered
<1>1. tickets \in [TicketIds -> Ticket \cup {NoTicket}] /\ seq \in Nat /\ i \in Nat
  BY WorkflowAssumption DEF Sound, IInv, Types, TicketIds
<1>2. ASSUME NEW n \in TicketIds, NEW a, NEW g, Opened(n, a, g)
      PROVE  i <= seq'
  <2>1. i = n \/ tickets[i] # NoTicket
    BY <1>2, OpenedNew
  <2>. QED
    BY <1>1, <1>2, <2>1 DEF Opened, Open, Numbered
<1>. QED
  BY <1>1, <1>2, TicketEffect DEF Numbered, Moved, Shared

(* Only a transition gives a ticket another status.                        *)
LEMMA StatusKept ==
    ASSUME Sound, Numbered, [Next]_vars, NEW i \in TicketIds, tickets[i] # NoTicket
    PROVE  /\ tickets'[i] # NoTicket /\ tickets'[i].alert = tickets[i].alert
           /\ tickets'[i].status = tickets[i].status \/ \E u \in Users : Transition(u)
<1>1. tickets \in [TicketIds -> Ticket \cup {NoTicket}]
  BY DEF Sound, IInv, Types
<1>2. ASSUME NEW n \in TicketIds, NEW a, NEW g, Opened(n, a, g)
      PROVE  tickets'[i] = tickets[i]
  BY <1>2, OpenedNew
<1>. QED
  BY <1>1, <1>2, TicketEffect, Blanks DEF Moved, Shared

(* A ticket is open when it appears.                                       *)
LEMMA AppearsOpen ==
    ASSUME Sound, Numbered, [Next]_vars, NEW i \in TicketIds,
           tickets[i] = NoTicket, tickets'[i] # NoTicket
    PROVE  IsOpen(tickets'[i])
<1>1. tickets \in [TicketIds -> Ticket \cup {NoTicket}]
  BY DEF Sound, IInv, Types
<1>2. ASSUME NEW n \in TicketIds, NEW a, NEW g, Opened(n, a, g)
      PROVE  IsOpen(tickets'[i])
  BY <1>2, OpenedNew
<1>. QED
  BY <1>1, <1>2, TicketEffect DEF Moved, Shared

(* What a transition has to tell is what it made of the ticket.            *)
LEMMA OutcomeIs ==
    /\ \A from : Outcome(from, "done") = "resolved"
    /\ \A from : Outcome(from, "false_positive") = "false_positive"
    /\ \A from, k : IsClosed(k) => /\ Outcome(from, k.status) = Judged(k)
                                   /\ Outcome(from, k.status) # "none"
BY DEF Outcome, Judged, IsClosed

LEMMA CarriedStep ==
    ASSUME Sound, mode.serial, Numbered, OneUser, Carried, [Next]_vars
    PROVE  Carried'
<1>. SUFFICES ASSUME NEW u \in Users, pc'[u] \in {"save", "sync"}
              PROVE  /\ job'[u].ticket \in TicketIds /\ tickets'[job'[u].ticket] # NoTicket
                     /\ tickets'[job'[u].ticket].alert = job'[u].alert
                     /\ job'[u].sync # "none" /\ IsClosed(tickets'[job'[u].ticket])
                           => job'[u].sync = Judged(tickets'[job'[u].ticket])
  BY DEF Carried, IsClosed, Judged
<1>1. tickets \in [TicketIds -> Ticket \cup {NoTicket}] /\ u \in Threads
  BY AllThreads DEF Sound, IInv, Types
<1>2. CASE Transition(u)
  <2>1. PICK i \in TicketIds, k \in Ticket :
          /\ Moved(i, k)
          /\ job'[u].ticket = i /\ job'[u].alert = k.alert
          /\ job'[u].sync = Outcome(tickets[i].status, k.status)
    BY <1>2, TransitionEffect
  <2>2. tickets'[i] = k
    BY <1>1, <2>1 DEF Moved
  <2>. QED
    BY <2>1, <2>2, OutcomeIs, Blanks
<1>3. CASE Annotate(u) \/ Note(u)
  <2>1. ~Return(u)
    BY <1>1, ReturnMoves DEF Sound
  <2>2. PICK i \in TicketIds : Mutate(u, i, tickets[i], "none")
    <3>1. job[u].ticket \in TicketIds \/ ~Note(u)
      BY <1>1 DEF Note, Sound, IInv, Types, Jobs, StepOK, Job
    <3>. QED
      BY <1>3, <2>1, <3>1 DEF Annotate, Note
  <2>3. job'[u].ticket = i /\ job'[u].alert = tickets[i].alert /\ job'[u].sync = "none"
    BY <2>2, MutateMoves
  <2>4. tickets'[i] = tickets[i] /\ tickets[i] # NoTicket
    BY <1>1, <2>2 DEF Mutate
  <2>. QED
    BY <2>3, <2>4
<1>4. CASE ChangeSaved(u)
  <2>1. Goto(u, "sync", job[u]) /\ UNCHANGED tickets /\ pc[u] = "save"
    BY <1>1, <1>4, ReturnMoves DEF ChangeSaved, Sound, ticketVars
  <2>2. job'[u] = job[u]
    BY <1>1, <2>1, Moves DEF Sound
  <2>. QED
    BY <2>1, <2>2 DEF Carried
<1>5. CASE Continue(u) /\ ~ChangeSaved(u) /\ ~Note(u)
  <2>1. Return(u) \/ \E l \in {"synced", "note", "noting"} : \E j : Goto(u, l, j)
    BY <1>5 DEF Continue, CreateSaved, CreateFails, ChangeFails, Sync, SyncSaved, SyncFails,
                DisposeSaved, DisposeFails, NoteLookup
  <2>. QED
    BY <1>1, <2>1, Moves, ReturnMoves DEF Sound
<1>6. CASE Create(u) \/ Dispose(u)
  <2>1. \E l \in {"created", "disposed"} : \E j : Goto(u, l, j)
    BY <1>6 DEF Create, Dispose
  <2>. QED
    BY <1>1, <2>1, Moves DEF Sound
<1>7. CASE ~Asks(u) /\ ~Continue(u)
  <2>1. pc[u] \in {"save", "sync"} /\ job'[u] = job[u]
    BY <1>7, UserStays
  <2>2. PICK i \in TicketIds : i = job[u].ticket /\ tickets[i] # NoTicket
    BY <2>1 DEF Carried
  <2>3. \A v \in Users : ~Transition(v)
    BY <2>1, AsksAlone DEF Asks
  <2>4. /\ tickets'[i] # NoTicket /\ tickets'[i].alert = tickets[i].alert
        /\ tickets'[i].status = tickets[i].status
    BY <2>2, <2>3, StatusKept
  <2>. QED
    BY <2>1, <2>2, <2>4 DEF Carried, IsClosed, Judged
<1>. QED
  BY <1>2, <1>3, <1>4, <1>5, <1>6, <1>7 DEF Asks, Continue

LEMMA StandingStep ==
    ASSUME Sound, mode.serial, Numbered, OneUser, Carried, Standing, [Next]_vars
    PROVE  Standing'
<1>. SUFFICES ASSUME NEW i \in TicketIds, NEW a, a = tickets'[i].alert, a # None,
                     tickets'[i] # NoTicket, IsClosed(tickets'[i])
              PROVE  \/ alerts'[a].disposed
                     \/ \E j \in TicketIds \ {i} : tickets'[j] # NoTicket /\ tickets'[j].alert = a
                     \/ alerts'[a].status = Judged(tickets'[i])
                     \/ \E u \in Users : Carries(u, i)'
  BY DEF Standing, IsClosed, Judged
<1>1. tickets \in [TicketIds -> Ticket \cup {NoTicket}]
  BY DEF Sound, IInv, Types
<1>2. ASSUME tickets[i] # NoTicket, IsClosed(tickets[i]), tickets[i].alert = a
      PROVE  \/ alerts[a].disposed
             \/ \E j \in TicketIds \ {i} : tickets[j] # NoTicket /\ tickets[j].alert = a
             \/ alerts[a].status = Judged(tickets[i])
             \/ \E u \in Users : Carries(u, i)
  BY <1>2 DEF Standing
<1>3. ASSUME NEW j \in TicketIds, tickets[j] # NoTicket, tickets[j].alert = a
      PROVE  tickets'[j] # NoTicket /\ tickets'[j].alert = a
  BY <1>3, StatusKept
<1>4. ASSUME NEW u \in Users, Transition(u)
      PROVE  \/ alerts'[a].disposed
             \/ \E j \in TicketIds \ {i} : tickets'[j] # NoTicket /\ tickets'[j].alert = a
             \/ alerts'[a].status = Judged(tickets'[i])
             \/ \E v \in Users : Carries(v, i)'
  <2>1. PICK m \in TicketIds, k \in Ticket :
          /\ Moved(m, k) /\ UNCHANGED alerts
          /\ pc'[u] = "save" /\ job'[u].ticket = m
          /\ job'[u].sync = Outcome(tickets[m].status, k.status)
    BY <1>4, TransitionEffect
  <2>2. CASE m = i
    <3>1. tickets'[i] = k
      BY <1>1, <2>1, <2>2 DEF Moved
    <3>. QED
      BY <2>1, <2>2, <3>1, OutcomeIs DEF Carries
  <2>3. CASE m # i
    <3>1. tickets'[i] = tickets[i]
      BY <1>1, <2>1, <2>3 DEF Moved
    <3>2. \A v \in Users : ~Carries(v, i)
      BY <1>4, AsksAlone DEF Asks, Carries
    <3>. QED
      BY <1>2, <1>3, <2>1, <3>1, <3>2
  <2>. QED
    BY <2>2, <2>3
<1>5. CASE \A u \in Users : ~Transition(u)
  <2>1. /\ tickets[i] # NoTicket /\ IsClosed(tickets[i]) /\ tickets[i].alert = a
        /\ Judged(tickets'[i]) = Judged(tickets[i]) /\ tickets[i] \in Ticket
    <3>1. tickets[i] # NoTicket
      <4>. SUFFICES ASSUME tickets[i] = NoTicket PROVE FALSE
        OBVIOUS
      <4>1. IsOpen(tickets'[i])
        BY AppearsOpen
      <4>. QED
        BY <4>1 DEF IsOpen, IsClosed
    <3>. QED
      BY <1>1, <1>5, <3>1, StatusKept DEF IsClosed, Judged
  <2>2. a \in AlertIds /\ alerts[a] # NoAlert /\ alerts[a] \in Alert
    BY <2>1 DEF Ticket, Sound, IInv, Types, Raised, Reviewed, GoodTicket
  <2>3. \/ /\ alerts[a].disposed => alerts'[a].disposed
           /\ alerts'[a].status = alerts[a].status \/ alerts'[a].disposed
        \/ /\ alerts[a].disposed => alerts'[a].disposed
           /\ \E u \in Users : Sync(u) /\ job[u].alert = a /\ alerts'[a].status = job[u].sync
    <3>1. ASSUME NEW w \in Workers, Detect(w)
          PROVE  alerts'[a].status = alerts[a].status /\ alerts'[a].disposed = alerts[a].disposed
      <4>1. PICK b \in AlertIds, x \in Alert :
              /\ alerts' = [alerts EXCEPT ![b] = x]
              /\ alerts[b] # NoAlert =>
                    x.status = alerts[b].status /\ x.disposed = alerts[b].disposed
        BY <3>1, DetectEffect
      <4>. QED
        BY <2>2, <4>1 DEF Sound, IInv, Types
    <3>2. CASE \A w \in Workers : ~Detect(w)
      BY <2>2, <3>2, AlertEffect
    <3>. QED
      BY <3>1, <3>2
  <2>4. ASSUME NEW u \in Users, Sync(u), job[u].alert = a
        PROVE  \/ job[u].sync = Judged(tickets[i])
               \/ \E j \in TicketIds \ {i} : tickets[j] # NoTicket /\ tickets[j].alert = a
    <3>1. PICK t \in TicketIds :
            /\ t = job[u].ticket /\ tickets[t] # NoTicket /\ tickets[t].alert = a
            /\ job[u].sync # "none" /\ IsClosed(tickets[t]) => job[u].sync = Judged(tickets[t])
      BY <2>4 DEF Carried, Sync
    <3>2. job[u].sync # "none"
      BY <2>4, AllThreads DEF Sync, Sound, IInv, Jobs, StepOK
    <3>. QED
      BY <2>1, <3>1, <3>2
  <2>5. ASSUME NEW u \in Users, Carries(u, i)
        PROVE  alerts'[a].status = Judged(tickets[i]) \/ Carries(u, i)'
    <3>1. /\ job[u].alert = a /\ job[u].sync = Judged(tickets[i])
          /\ tickets[job[u].ticket] # NoTicket
      BY <2>1, <2>5 DEF Carries, Carried
    <3>2. CASE ChangeSaved(u)
      <4>1. Goto(u, "sync", job[u])
        BY <2>5, <3>1, <3>2 DEF ChangeSaved, Carries
      <4>. QED
        BY <2>5, <4>1, Moves, AllThreads DEF Carries, Sound
    <3>3. CASE Sync(u)
      <4>1. alerts' = [alerts EXCEPT ![a].status = job[u].sync]
        BY <3>1, <3>3 DEF Sync
      <4>. QED
        BY <2>2, <3>1, <4>1 DEF Alert, Sound, IInv, Types
    <3>4. CASE Continue(u)
      BY <2>5, <3>2, <3>3, <3>4 DEF Continue, CreateSaved, CreateFails, ChangeFails, SyncSaved,
             SyncFails, DisposeSaved, DisposeFails, NoteLookup, Note, Carries, Sound
    <3>5. CASE ~Continue(u)
      BY <2>5, <3>5, UserStays, AsksAlone DEF Carries
    <3>. QED
      BY <3>4, <3>5
  <2>. QED
    BY <1>2, <1>3, <2>1, <2>3, <2>4, <2>5
<1>. QED
  BY <1>4, <1>5

LEMMA InTurnStep ==
    ASSUME IInv, ~mode.fails /\ mode.serial => InTurn, [Next]_vars
    PROVE  (~mode.fails /\ mode.serial => InTurn)'
<1>1. mode' = mode
  BY ModeKept
<1>. QED
  BY <1>1, NumberedStep, OneUserStep, CarriedStep, StandingStep DEF InTurn, Sound

(* While saves succeed and people take turns, an alert that nobody acted   *)
(* on ends up with the judgement of its only ticket: what Transition       *)
(* carries to SetStatus after the ticket's section is still true then.     *)
THEOREM InStepCorrect == Spec => []AlertInStep
<1>. DEFINE I == ~mode.fails /\ mode.serial => InTurn
<1>1. Init => I
  <2>. SUFFICES ASSUME Init PROVE InTurn
    OBVIOUS
  <2>1. \A u \in Users : pc[u] = "idle"
    BY AllThreads DEF Init
  <2>2. \A i \in TicketIds : tickets[i] = NoTicket
    BY DEF Init
  <2>. QED
    BY <2>1, <2>2 DEF InTurn, Numbered, OneUser, Carried, Standing
<1>2. IInv /\ I /\ [Next]_vars => I'
  BY InTurnStep
<1>3. I => AlertInStep
  BY DEF InTurn, Standing, Carries, Judged, AlertInStep
<1>. QED
  BY <1>1, <1>2, <1>3, Inductive, PTL DEF Spec
=============================================================================
