----------------------------- MODULE Persister -----------------------------
(***************************************************************************)
(* The write-behind store of the platform's services (persist.go, and the  *)
(* way alerts, assets, rules, agents and tickets use it).                  *)
(*                                                                         *)
(* A service keeps its records in memory.  A user's change is written      *)
(* through: apply it, save the record, and undo the change if saving       *)
(* failed.  A traffic update (an alert merge, a hit, a heartbeat) only     *)
(* marks the record dirty, for the periodic flush.  writeMu is held from   *)
(* the snapshot of the records to the end of the save.                     *)
(*                                                                         *)
(* A record is the set of user changes it holds, each with its number, and *)
(* the number of traffic updates it has counted.                           *)
(***************************************************************************)
EXTENDS Integers, FiniteSets

CONSTANTS
    Workers,    \* goroutines that serve user changes and traffic
    Flusher,    \* the maintenance goroutine
    Ids,        \* records
    Uses,       \* ways a service may use the persister
    MaxChanges, MaxHits, MaxCrashes   \* bounds of the model

Threads == Workers \cup {Flusher}
Changes == 1 .. MaxChanges
NoChange == 0

(* direct: the records users change; counted: those traffic updates;       *)
(* alone: users never change a record at the same time; fails: saving may  *)
(* fail; undo: a failed change restores the whole "record" (tickets,       *)
(* rules, agents) or its own "field" (alerts, assets).                     *)
Use == [direct : SUBSET Ids, counted : SUBSET Ids, alone : BOOLEAN,
        fails : BOOLEAN, undo : {"record", "field"}]

ASSUME PersisterAssumption ==
    /\ Flusher \notin Workers
    /\ Uses \subseteq Use
    /\ MaxChanges \in Nat /\ MaxHits \in Nat /\ MaxCrashes \in Nat

VARIABLES
    use,        \* how the service uses the persister
    mem, db,    \* each record in memory and in the repository
    dirty,      \* persister.dirty
    pc, job,    \* what each goroutine is doing, and its local variables
    changes,    \* number of user changes made
    acked,      \* changes reported as saved
    failed,     \* changes reported as failed
    crashes

vars == <<use, mem, db, dirty, pc, job, changes, acked, failed, crashes>>

Record == [done : SUBSET Changes, hits : Nat]
NoRecord == [done |-> {}, hits |-> 0]

Job == [ids : SUBSET Ids, change : Changes \cup {NoChange},
        before : [Ids -> Record], docs : [Ids -> Record]]
Blank == [i \in Ids |-> NoRecord]
NoJob == [ids |-> {}, change |-> NoChange, before |-> Blank, docs |-> Blank]

-----------------------------------------------------------------------------
Init ==
    /\ use \in Uses
    /\ mem = Blank /\ db = Blank /\ dirty = {}
    /\ pc = [t \in Threads |-> "idle"]
    /\ job = [t \in Threads |-> NoJob]
    /\ changes = 0 /\ acked = {} /\ failed = {} /\ crashes = 0

Goto(t, l) == pc' = [pc EXCEPT ![t] = l]
Return(t) == Goto(t, "idle") /\ job' = [job EXCEPT ![t] = NoJob]

(* Mutant of WriteMuFree: the mutex is missing. *)
NoWriteMu == TRUE

(* Nobody is between its snapshot and the end of its save. *)
HasWriteMu(t) == pc[t] \in {"take", "write", "clear"}
WriteMuFree == \A t \in Threads : ~HasWriteMu(t)

(* A user is changing the record. *)
Busy(i) == \E t \in Workers : pc[t] # "idle" /\ i \in job[t].ids

(* A user's change, applied under the service's lock. *)
Change(t) ==
    \E i \in use.direct :
        LET n == changes + 1
        IN  /\ pc[t] = "idle" /\ n \in Changes
            /\ use.alone => ~Busy(i)
            /\ changes' = n
            /\ mem' = [mem EXCEPT ![i].done = @ \cup {n}]
            /\ job' = [job EXCEPT ![t] = [NoJob EXCEPT !.ids = {i}, !.change = n,
                                                       !.before = mem]]
            /\ Goto(t, "save")
            /\ UNCHANGED <<use, db, dirty, acked, failed, crashes>>

(* A traffic update ... *)
Hit(t) ==
    \E i \in use.counted :
        /\ pc[t] = "idle" /\ mem[i].hits < MaxHits
        /\ mem' = [mem EXCEPT ![i].hits = @ + 1]
        /\ job' = [job EXCEPT ![t] = [NoJob EXCEPT !.ids = {i}]]
        /\ Goto(t, "mark")
        /\ UNCHANGED <<use, db, dirty, changes, acked, failed, crashes>>

(* ... and its mark, which some services make after releasing their lock.  *)
MarkDirty(t) ==
    /\ pc[t] = "mark"
    /\ dirty' = dirty \cup job[t].ids
    /\ Return(t)
    /\ UNCHANGED <<use, mem, db, changes, acked, failed, crashes>>

(* writeThrough: take writeMu and copy the record as it is now. *)
Snapshot(t) ==
    /\ \/ pc[t] = "save" /\ WriteMuFree
       \/ pc[t] = "take"
    /\ job' = [job EXCEPT ![t].docs = mem]
    /\ Goto(t, "write")
    /\ UNCHANGED <<use, mem, db, dirty, changes, acked, failed, crashes>>

(* flush: take writeMu and the dirty set, and leave that empty; the copy   *)
(* (Snapshot) is made afterwards.                                          *)
FlushTake ==
    /\ pc[Flusher] = "idle" /\ dirty # {} /\ WriteMuFree
    /\ job' = [job EXCEPT ![Flusher].ids = dirty]
    /\ dirty' = {}
    /\ Goto(Flusher, "take")
    /\ UNCHANGED <<use, mem, db, changes, acked, failed, crashes>>

Saved(t) == [i \in Ids |-> IF i \in job[t].ids THEN job[t].docs[i] ELSE db[i]]

(* SaveDocuments succeeds; the flush is done. *)
Save(t) ==
    /\ pc[t] = "write"
    /\ db' = Saved(t)
    /\ IF t = Flusher THEN Return(t) ELSE Goto(t, "clear") /\ UNCHANGED job
    /\ UNCHANGED <<use, mem, dirty, changes, acked, failed, crashes>>

(* Mutant of Remarked: a failed flush forgets what it was saving. *)
NotRemarked(t) == dirty

(* The records of a failed flush stay dirty. *)
Remarked(t) == IF t = Flusher THEN dirty \cup job[t].ids ELSE dirty

SaveFails(t) ==
    /\ pc[t] = "write" /\ use.fails
    /\ dirty' = Remarked(t)
    /\ IF t = Flusher THEN Return(t) ELSE Goto(t, "undo") /\ UNCHANGED job
    /\ UNCHANGED <<use, mem, db, changes, acked, failed, crashes>>

(* writeThrough: the record is saved, so it is not dirty any more. *)
ClearDirty(t) ==
    /\ pc[t] = "clear"
    /\ dirty' = dirty \ job[t].ids
    /\ acked' = acked \cup {job[t].change}
    /\ Return(t)
    /\ UNCHANGED <<use, mem, db, changes, failed, crashes>>

(* Mutant of Undone: a failed change stays in memory. *)
NotUndone(t, i) == mem[i]

(* The record after the change made by t is undone. *)
Undone(t, i) ==
    IF i \notin job[t].ids THEN mem[i]
    ELSE IF use.undo = "record" THEN job[t].before[i]
    ELSE [mem[i] EXCEPT !.done = job[t].before[i].done]

Undo(t) ==
    /\ pc[t] = "undo"
    /\ mem' = [i \in Ids |-> Undone(t, i)]
    /\ failed' = failed \cup {job[t].change}
    /\ Return(t)
    /\ UNCHANGED <<use, db, dirty, changes, acked, crashes>>

(* The platform dies and loads what the repository has. *)
Crash ==
    /\ crashes < MaxCrashes
    /\ crashes' = crashes + 1
    /\ mem' = db /\ dirty' = {}
    /\ pc' = [t \in Threads |-> "idle"]
    /\ job' = [t \in Threads |-> NoJob]
    /\ UNCHANGED <<use, db, changes, acked, failed>>

Step(t) == MarkDirty(t) \/ Snapshot(t) \/ Save(t) \/ SaveFails(t) \/ ClearDirty(t) \/ Undo(t)

Next ==
    \/ \E t \in Workers : Change(t) \/ Hit(t)
    \/ \E t \in Threads : Step(t)
    \/ FlushTake
    \/ Crash

Spec == Init /\ [][Next]_vars

(* Calls end, the maintenance ticker keeps flushing, and the repository    *)
(* does not fail every flush for ever.                                     *)
FairSpec ==
    /\ Spec
    /\ \A t \in Threads : WF_vars(Step(t))
    /\ WF_vars(FlushTake) /\ SF_vars(Save(Flusher))

-----------------------------------------------------------------------------
(* Properties.                                                             *)

Saving(t) == pc[t] \in {"save", "write", "clear", "undo"}

(* Every variable has its type, one goroutine at most holds writeMu, and a *)
(* goroutine that saves a change has one.                                  *)
TypeOK ==
    /\ use \in Uses
    /\ mem \in [Ids -> Record] /\ db \in [Ids -> Record] /\ dirty \subseteq Ids
    /\ pc \in [Threads -> {"idle", "mark", "save", "take", "write", "clear", "undo"}]
    /\ pc[Flusher] \in {"idle", "take", "write"} /\ \A t \in Workers : pc[t] # "take"
    /\ job \in [Threads -> Job]
    /\ changes \in 0 .. MaxChanges /\ crashes \in Nat
    /\ acked \subseteq 1 .. changes /\ failed \subseteq 1 .. changes
    /\ \A t \in Threads : job[t].change \in 0 .. changes
    /\ \A t \in Workers : Saving(t) => job[t].change # NoChange
    /\ \A t, u \in Threads : HasWriteMu(t) /\ HasWriteMu(u) => t = u

Holds(n, records) == \E i \in Ids : n \in records[i].done

(* No record is used both ways, and no two users change one at a time: the *)
(* use the comments of persist.go have in mind.                            *)
Separate == use.alone /\ use.direct \cap use.counted = {}

(* A change reported as saved is in the repository, whatever happens       *)
(* later: no rollback of another change and no older snapshot removes it.  *)
AckedIsKept ==
    Separate \/ ~use.fails => \A n \in acked : Holds(n, db)

(* A change reported as failed is nowhere: "if saving fails the change is  *)
(* rolled back so memory never runs ahead of the database"                 *)
(* (ticket_service.go:465).                                                *)
FailedIsGone ==
    Separate => \A n \in failed : ~Holds(n, db) /\ ~Holds(n, mem)

(* A record that differs from its saved copy is marked, or some goroutine  *)
(* is about to mark it, save it or undo the difference.                    *)
Pending(i) == \E t \in Threads : pc[t] # "idle" /\ i \in job[t].ids
UnsavedIsMarked ==
    Separate => \A i \in Ids : mem[i] = db[i] \/ i \in dirty \/ Pending(i)

(* A traffic update is saved in the end: FlushInterval "bounds how long    *)
(* traffic-driven updates stay unsaved" (admin_handlers.go:27).            *)
HitsReachStore ==
    \A i \in Ids : (mem[i].hits > db[i].hits) ~> (mem[i].hits <= db[i].hits)
=============================================================================
