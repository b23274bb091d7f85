--------------------------- MODULE PersisterProofs ---------------------------
(***************************************************************************)
(* Proofs about Persister, for any number of goroutines, records and       *)
(* changes, with saves that fail and crashes; and about Traffic (the asset *)
(* inventory that is saved through it, the graphs and attack paths), for   *)
(* every table size and any events and alerts in any order.                *)
(***************************************************************************)
EXTENDS Persister, Traffic, FiniteSetTheorems, WellFoundedInduction, TLAPS

(* Who does what: users' goroutines save the record they changed, the      *)
(* flusher records that traffic changed.                                   *)
Roles ==
    /\ \A t \in Workers : Saving(t) => \E i \in use.direct : job[t].ids = {i}
    /\ \A t \in Workers : pc[t] = "mark" => \E i \in use.counted : job[t].ids = {i}
    /\ dirty \subseteq use.counted /\ job[Flusher].ids \subseteq use.counted

(* The progress of a change: in memory, in the copy to be saved, saved.    *)
Progress ==
    \A t \in Workers : \A i \in job[t].ids :
        /\ pc[t] = "save" => job[t].change \in mem[i].done
        /\ pc[t] = "write" => job[t].change \in job[t].docs[i].done
        /\ pc[t] = "clear" => job[t].change \in db[i].done

AckedInDb == \A n \in acked : Holds(n, db)

(* While saves do not fail, the repository's changes are a part of the     *)
(* copy being saved, which are a part of memory's.                         *)
DoneGrow ==
    ~use.fails =>
        /\ \A t \in Workers : pc[t] # "undo"
        /\ \A i \in Ids : db[i].done \subseteq mem[i].done
        /\ \A t \in Threads : pc[t] = "write" =>
              /\ \A i \in job[t].ids : db[i].done \subseteq job[t].docs[i].done
              /\ \A i \in Ids : job[t].docs[i].done \subseteq mem[i].done
        /\ Progress /\ AckedInDb

(* Separate use: at most one goroutine saves a record, ...                  *)
OneOwner ==
    \A t, u \in Workers : Saving(t) /\ Saving(u) /\ job[t].ids = job[u].ids => t = u

(* ... which is otherwise as the repository has it, ...                    *)
InSync ==
    \A i \in use.direct :
        mem[i] = db[i] \/ \E t \in Workers : Saving(t) /\ job[t].ids = {i}

(* ... and the goroutine's change is all that memory has beyond that.      *)
OwnerKnows ==
    \A t \in Workers : \A i \in Ids :
        Saving(t) /\ job[t].ids = {i} =>
            /\ pc[t] # "clear" =>
                  /\ job[t].before[i] = db[i]
                  /\ job[t].change \notin db[i].done
                  /\ mem[i] = [db[i] EXCEPT !.done = db[i].done \cup {job[t].change}]
            /\ pc[t] = "write" => job[t].docs[i] = mem[i]
            /\ pc[t] = "clear" => mem[i] = db[i] /\ job[t].change \in db[i].done

(* Records users do not change hold no change. *)
CountedOnly ==
    \A i \in Ids \ use.direct :
        /\ mem[i].done = {} /\ db[i].done = {}
        /\ \A t \in Threads : pc[t] = "write" => job[t].docs[i].done = {}

(* A change being saved is nobody else's, and in no other record.          *)
OwnChange ==
    /\ \A i \in Ids : db[i].done \subseteq 1 .. changes
    /\ \A t, u \in Workers : Saving(t) /\ Saving(u) /\ t # u => job[t].change # job[u].change
    /\ \A t \in Workers : Saving(t) =>
          /\ job[t].change \notin failed
          /\ \A i \in Ids : job[t].ids # {i} => job[t].change \notin db[i].done

FailedNotInDb == \A n \in failed : ~Holds(n, db)

Owned ==
    Separate => /\ OneOwner /\ InSync /\ OwnerKnows /\ CountedOnly /\ OwnChange
                /\ AckedInDb /\ FailedNotInDb

IInv == TypeOK /\ Roles /\ DoneGrow /\ Owned

-----------------------------------------------------------------------------
(* Facts about the records a step writes. *)

LEMMA ReturnType ==
    ASSUME TypeOK, NEW t \in Threads, Return(t)
    PROVE  /\ pc' = [pc EXCEPT ![t] = "idle"] /\ job' = [job EXCEPT ![t] = NoJob]
           /\ job' \in [Threads -> Job]
           /\ \A u \in Threads : job'[u].change \in 0 .. changes
<1>1. NoJob \in Job /\ NoJob.change = 0
  BY DEF NoJob, Job, Blank, NoRecord, Record, NoChange
<1>2. changes \in Nat
  BY PersisterAssumption DEF TypeOK
<1>. QED
  BY <1>1, <1>2 DEF Return, Goto, TypeOK

LEMMA SavedType ==
    ASSUME TypeOK, NEW t \in Threads
    PROVE  Saved(t) \in [Ids -> Record]
<1>1. job[t].docs \in [Ids -> Record]
  BY DEF TypeOK, Job
<1>. QED
  BY <1>1 DEF Saved, TypeOK

LEMMA UndoneType ==
    ASSUME TypeOK, NEW t \in Threads, NEW i \in Ids
    PROVE  Undone(t, i) \in Record
<1>1. job[t].before[i] \in Record /\ mem[i] \in Record
  BY DEF TypeOK, Job
<1>2. [mem[i] EXCEPT !.done = job[t].before[i].done] \in Record
  BY <1>1 DEF Record
<1>. QED
  BY <1>1, <1>2 DEF Undone

(* Who holds writeMu after one goroutine moved to l. *)
LEMMA MutexStep ==
    ASSUME TypeOK, NEW t \in Threads, NEW l, pc' = [pc EXCEPT ![t] = l],
           l \in {"take", "write", "clear"} => HasWriteMu(t) \/ WriteMuFree
    PROVE  \A u, v \in Threads : HasWriteMu(u)' /\ HasWriteMu(v)' => u = v
BY DEF TypeOK, HasWriteMu, WriteMuFree

LEMMA TypeStep == TypeOK /\ [Next]_vars => TypeOK'
<1> SUFFICES ASSUME TypeOK, [Next]_vars PROVE TypeOK'
  OBVIOUS
<1> USE PersisterAssumption
<1>w. Workers \subseteq Threads /\ Flusher \in Threads
  BY DEF Threads
<1>1. ASSUME NEW t \in Workers, Change(t) PROVE TypeOK'
  <2>1. PICK i \in use.direct :
          /\ pc[t] = "idle" /\ changes + 1 \in Changes /\ changes' = changes + 1
          /\ mem' = [mem EXCEPT ![i].done = @ \cup {changes + 1}]
          /\ job' = [job EXCEPT ![t] = [NoJob EXCEPT !.ids = {i}, !.change = changes + 1,
                                                     !.before = mem]]
          /\ pc' = [pc EXCEPT ![t] = "save"]
          /\ UNCHANGED <<use, db, dirty, acked, failed, crashes>>
    BY <1>1 DEF Change, Goto
  <2>2. i \in Ids
    BY DEF TypeOK, Use
  <2>3. [mem[i] EXCEPT !.done = @ \cup {changes + 1}] \in Record
    BY <2>1, <2>2 DEF TypeOK, Record
  <2>4. mem' \in [Ids -> Record]
    BY <2>1, <2>2, <2>3 DEF TypeOK
  <2> DEFINE j == [NoJob EXCEPT !.ids = {i}, !.change = changes + 1, !.before = mem]
  <2>5. j \in Job /\ j.change = changes + 1
    BY <2>1, <2>2 DEF NoJob, Job, Blank, NoRecord, Record, TypeOK
  <2>6. job' \in [Threads -> Job] /\ job'[t].change = changes + 1
    BY <2>1, <2>5, <1>w DEF TypeOK
  <2>7. \A u \in Threads : u # t => job'[u] = job[u] /\ pc'[u] = pc[u]
    BY <2>1, <1>w DEF TypeOK
  <2>8. \A u \in Threads : job'[u].change \in 0 .. changes'
    BY <2>1, <2>6, <2>7 DEF TypeOK, Changes
  <2>9. \A u \in Workers : Saving(u)' => job'[u].change # NoChange
    BY <2>1, <2>6, <2>7, <1>w DEF TypeOK, Saving, NoChange
  <2>10. \A u, v \in Threads : HasWriteMu(u)' /\ HasWriteMu(v)' => u = v
    BY <2>1, <1>w, MutexStep
  <2>. QED
    BY <2>1, <2>4, <2>6, <2>8, <2>9, <2>10, <1>w DEF TypeOK, Changes
<1>2. ASSUME NEW t \in Workers, Hit(t) PROVE TypeOK'
  <2>1. PICK i \in use.counted :
          /\ mem' = [mem EXCEPT ![i].hits = @ + 1]
          /\ job' = [job EXCEPT ![t] = [NoJob EXCEPT !.ids = {i}]]
          /\ pc' = [pc EXCEPT ![t] = "mark"]
          /\ UNCHANGED <<use, db, dirty, changes, acked, failed, crashes>>
    BY <1>2 DEF Hit, Goto
  <2>2. i \in Ids
    BY DEF TypeOK, Use
  <2>3. [mem[i] EXCEPT !.hits = @ + 1] \in Record
    BY <2>2 DEF TypeOK, Record
  <2>4. mem' \in [Ids -> Record]
    BY <2>1, <2>2, <2>3 DEF TypeOK
  <2> DEFINE j == [NoJob EXCEPT !.ids = {i}]
  <2>5. j \in Job /\ j.change = 0
    BY <2>2 DEF NoJob, Job, Blank, NoRecord, Record, NoChange
  <2>6. job' \in [Threads -> Job] /\ job'[t].change = 0
    BY <2>1, <2>5, <1>w DEF TypeOK
  <2>7. \A u \in Threads : u # t => job'[u] = job[u] /\ pc'[u] = pc[u]
    BY <2>1, <1>w DEF TypeOK
  <2>8. \A u \in Threads : job'[u].change \in 0 .. changes'
    BY <2>1, <2>6, <2>7 DEF TypeOK
  <2>9. \A u \in Workers : Saving(u)' => job'[u].change # NoChange
    BY <2>1, <2>7, <1>w DEF TypeOK, Saving
  <2>10. \A u, v \in Threads : HasWriteMu(u)' /\ HasWriteMu(v)' => u = v
    BY <2>1, <1>w, MutexStep
  <2>. QED
    BY <2>1, <2>4, <2>6, <2>8, <2>9, <2>10, <1>w DEF TypeOK
<1>3. ASSUME NEW t \in Threads, Return(t), changes' = changes
      PROVE  /\ pc' \in [Threads -> {"idle", "mark", "save", "take", "write", "clear", "undo"}]
             /\ pc'[Flusher] \in {"idle", "take", "write"} /\ \A u \in Workers : pc'[u] # "take"
             /\ job' \in [Threads -> Job]
             /\ \A u \in Threads : job'[u].change \in 0 .. changes'
             /\ \A u \in Workers : Saving(u)' => job'[u].change # NoChange
             /\ \A u, v \in Threads : HasWriteMu(u)' /\ HasWriteMu(v)' => u = v
  BY <1>3, <1>w, ReturnType, MutexStep DEF TypeOK, Saving
<1>4. ASSUME NEW t \in Workers, NEW l \in {"clear", "undo"}, pc[t] = "write", Goto(t, l),
             job' = job, changes' = changes
      PROVE  /\ pc' \in [Threads -> {"idle", "mark", "save", "take", "write", "clear", "undo"}]
             /\ pc'[Flusher] \in {"idle", "take", "write"} /\ \A u \in Workers : pc'[u] # "take"
             /\ job' \in [Threads -> Job]
             /\ \A u \in Threads : job'[u].change \in 0 .. changes'
             /\ \A u \in Workers : Saving(u)' => job'[u].change # NoChange
             /\ \A u, v \in Threads : HasWriteMu(u)' /\ HasWriteMu(v)' => u = v
  <2>1. HasWriteMu(t)
    BY <1>4 DEF HasWriteMu
  <2>2. \A u, v \in Threads : HasWriteMu(u)' /\ HasWriteMu(v)' => u = v
    BY <1>4, <1>w, <2>1, MutexStep DEF Goto
  <2>. QED
    BY <1>4, <2>2, <1>w DEF TypeOK, Goto, Saving
<1>5. ASSUME NEW t \in Threads, MarkDirty(t) PROVE TypeOK'
  <2>1. job[t].ids \subseteq Ids
    BY DEF TypeOK, Job
  <2>. QED  BY <1>5, <1>3, <2>1 DEF MarkDirty, TypeOK
<1>6. ASSUME NEW t \in Threads, Snapshot(t) PROVE TypeOK'
  <2>1. [job[t] EXCEPT !.docs = mem] \in Job /\ [job[t] EXCEPT !.docs = mem].change = job[t].change
    BY DEF TypeOK, Job
  <2>2. job' = [job EXCEPT ![t] = [job[t] EXCEPT !.docs = mem]] /\ pc' = [pc EXCEPT ![t] = "write"]
    BY <1>6 DEF Snapshot, Goto
  <2>3. \A u, v \in Threads : HasWriteMu(u)' /\ HasWriteMu(v)' => u = v
    BY <1>6, <2>2, MutexStep DEF Snapshot, HasWriteMu
  <2>4. t \in Workers => pc[t] = "save" \/ pc[t] = "take"
    BY <1>6 DEF Snapshot
  <2>5. job' \in [Threads -> Job] /\ \A u \in Threads : job'[u].change = job[u].change
    BY <2>1, <2>2 DEF TypeOK
  <2>. QED  BY <1>6, <2>2, <2>3, <2>4, <2>5, <1>w DEF Snapshot, TypeOK, Saving
<1>7. ASSUME FlushTake PROVE TypeOK'
  <2>1. [job[Flusher] EXCEPT !.ids = dirty] \in Job
        /\ [job[Flusher] EXCEPT !.ids = dirty].change = job[Flusher].change
    BY <1>w DEF TypeOK, Job
  <2>2. /\ job' = [job EXCEPT ![Flusher] = [job[Flusher] EXCEPT !.ids = dirty]]
        /\ pc' = [pc EXCEPT ![Flusher] = "take"]
    BY <1>7 DEF FlushTake, Goto
  <2>3. \A u, v \in Threads : HasWriteMu(u)' /\ HasWriteMu(v)' => u = v
    BY <1>7, <2>2, <1>w, MutexStep DEF FlushTake
  <2>4. job' \in [Threads -> Job] /\ \A u \in Threads : job'[u].change = job[u].change
    BY <2>1, <2>2, <1>w DEF TypeOK
  <2>. QED  BY <1>7, <2>2, <2>3, <2>4, <1>w DEF FlushTake, TypeOK, Saving
<1>8. ASSUME NEW t \in Threads, Save(t) PROVE TypeOK'
  BY <1>8, <1>3, <1>4, SavedType DEF Save, TypeOK, Threads
<1>9. ASSUME NEW t \in Threads, SaveFails(t) PROVE TypeOK'
  <2>1. Remarked(t) \subseteq Ids
    BY DEF TypeOK, Job, Remarked
  <2>. QED  BY <1>9, <1>3, <1>4, <2>1 DEF SaveFails, TypeOK, Threads
<1>10. ASSUME NEW t \in Threads, ClearDirty(t) PROVE TypeOK'
  <2>1. job[t].change \in 1 .. changes
    BY <1>10 DEF ClearDirty, TypeOK, Saving, NoChange, Threads
  <2>. QED  BY <1>10, <1>3, <1>w, <2>1 DEF ClearDirty, TypeOK
<1>11. ASSUME NEW t \in Threads, Undo(t) PROVE TypeOK'
  <2>1. job[t].change \in 1 .. changes
    BY <1>11 DEF Undo, TypeOK, Saving, NoChange, Threads
  <2>2. mem' \in [Ids -> Record]
    BY <1>11, <1>w, UndoneType DEF Undo
  <2>. QED  BY <1>11, <1>3, <1>w, <2>1, <2>2 DEF Undo, TypeOK
<1>12. ASSUME Crash PROVE TypeOK'
  <2>1. NoJob \in Job /\ NoJob.change = 0
    BY DEF NoJob, Job, Blank, NoRecord, Record, NoChange
  <2>. QED  BY <1>12, <2>1, <1>w DEF Crash, TypeOK, Saving, HasWriteMu
<1>13. CASE UNCHANGED vars
  BY <1>13 DEF vars, TypeOK, Saving, HasWriteMu
<1>. QED
  BY <1>1, <1>2, <1>5, <1>6, <1>7, <1>8, <1>9, <1>10, <1>11, <1>12, <1>13 DEF Next, Step

LEMMA InitType == Init => TypeOK
<1> SUFFICES ASSUME Init PROVE TypeOK
  OBVIOUS
<1>1. NoJob \in Job /\ NoJob.change = 0 /\ Blank \in [Ids -> Record]
  BY DEF NoJob, Job, Blank, NoRecord, Record, NoChange
<1>. QED
  BY <1>1, PersisterAssumption DEF Init, TypeOK, Threads, Saving, HasWriteMu

(* Type correctness, with writeMu held by one goroutine at a time. *)
THEOREM TypeCorrect == Spec => []TypeOK
BY InitType, TypeStep, PTL DEF Spec

-----------------------------------------------------------------------------
(* What one goroutine's step leaves to the others. *)
LEMMA Others ==
    ASSUME TypeOK, NEW t \in Threads, NEW l, pc' = [pc EXCEPT ![t] = l],
           NEW j, job' = [job EXCEPT ![t] = j]
    PROVE  /\ pc'[t] = l /\ job'[t] = j
           /\ \A u \in Threads : u # t => pc'[u] = pc[u] /\ job'[u] = job[u]
BY DEF TypeOK

(* The step of each action on the variables that the invariants are about. *)
LEMMA ChangeEffect ==
    ASSUME TypeOK, NEW t \in Workers, Change(t)
    PROVE  \E i \in use.direct :
             /\ i \in Ids /\ pc[t] = "idle" /\ (use.alone => ~Busy(i))
             /\ mem' = [mem EXCEPT ![i] = [mem[i] EXCEPT !.done = mem[i].done \cup {changes + 1}]]
             /\ pc'[t] = "save" /\ job'[t].ids = {i} /\ job'[t].change = changes + 1
             /\ job'[t].before = mem
             /\ \A u \in Threads : u # t => pc'[u] = pc[u] /\ job'[u] = job[u]
             /\ UNCHANGED <<use, db, dirty, acked, failed>> /\ changes' = changes + 1
<1>1. PICK i \in use.direct :
        /\ pc[t] = "idle" /\ (use.alone => ~Busy(i)) /\ changes' = changes + 1
        /\ mem' = [mem EXCEPT ![i].done = @ \cup {changes + 1}]
        /\ job' = [job EXCEPT ![t] = [NoJob EXCEPT !.ids = {i}, !.change = changes + 1,
                                                   !.before = mem]]
        /\ pc' = [pc EXCEPT ![t] = "save"]
        /\ UNCHANGED <<use, db, dirty, acked, failed>>
  BY DEF Change, Goto
<1>2. t \in Threads /\ i \in Ids
  BY PersisterAssumption DEF Threads, TypeOK, Use
<1> DEFINE j == [NoJob EXCEPT !.ids = {i}, !.change = changes + 1, !.before = mem]
<1>3. j.ids = {i} /\ j.change = changes + 1 /\ j.before = mem
  BY DEF NoJob
<1>. HIDE DEF j
<1>4. /\ pc'[t] = "save" /\ job'[t] = j
      /\ \A u \in Threads : u # t => pc'[u] = pc[u] /\ job'[u] = job[u]
  BY <1>1, <1>2, Others DEF j
<1>. QED
  BY <1>1, <1>2, <1>3, <1>4

LEMMA HitEffect ==
    ASSUME TypeOK, NEW t \in Workers, Hit(t)
    PROVE  \E i \in use.counted :
             /\ i \in Ids /\ pc[t] = "idle"
             /\ mem' = [mem EXCEPT ![i] = [mem[i] EXCEPT !.hits = mem[i].hits + 1]]
             /\ pc'[t] = "mark" /\ job'[t].ids = {i}
             /\ \A u \in Threads : u # t => pc'[u] = pc[u] /\ job'[u] = job[u]
             /\ UNCHANGED <<use, db, dirty, changes, acked, failed>>
<1>1. PICK i \in use.counted :
        /\ pc[t] = "idle"
        /\ mem' = [mem EXCEPT ![i].hits = @ + 1]
        /\ job' = [job EXCEPT ![t] = [NoJob EXCEPT !.ids = {i}]]
        /\ pc' = [pc EXCEPT ![t] = "mark"]
        /\ UNCHANGED <<use, db, dirty, changes, acked, failed>>
  BY DEF Hit, Goto
<1>2. t \in Threads /\ i \in Ids
  BY PersisterAssumption DEF Threads, TypeOK, Use
<1> DEFINE j == [NoJob EXCEPT !.ids = {i}]
<1>3. j.ids = {i}
  BY DEF NoJob
<1>. HIDE DEF j
<1>4. /\ pc'[t] = "mark" /\ job'[t] = j
      /\ \A u \in Threads : u # t => pc'[u] = pc[u] /\ job'[u] = job[u]
  BY <1>1, <1>2, Others DEF j
<1>. QED
  BY <1>1, <1>2, <1>3, <1>4

LEMMA ReturnEffect ==
    ASSUME TypeOK, NEW t \in Threads, Return(t)
    PROVE  /\ pc'[t] = "idle" /\ job'[t].ids = {}
           /\ \A u \in Threads : u # t => pc'[u] = pc[u] /\ job'[u] = job[u]
<1>1. NoJob.ids = {}
  BY DEF NoJob
<1>. QED
  BY <1>1, Others DEF Return, Goto

LEMMA SnapshotEffect ==
    ASSUME TypeOK, NEW t \in Threads, Snapshot(t)
    PROVE  /\ pc'[t] = "write" /\ job'[t].docs = mem /\ job'[t].ids = job[t].ids
           /\ job'[t].change = job[t].change /\ job'[t].before = job[t].before
           /\ \A u \in Threads : u # t => pc'[u] = pc[u] /\ job'[u] = job[u]
           /\ \A u \in Threads : u # t => ~HasWriteMu(u)
           /\ t \in Workers => pc[t] = "save"
           /\ t = Flusher => pc[t] = "take"
<1>1. /\ job' = [job EXCEPT ![t] = [job[t] EXCEPT !.docs = mem]]
      /\ pc' = [pc EXCEPT ![t] = "write"]
  BY DEF Snapshot, Goto
<1>2. \A u \in Threads : u # t => ~HasWriteMu(u)
  BY DEF Snapshot, TypeOK, WriteMuFree, HasWriteMu
<1>3. [job[t] EXCEPT !.docs = mem].docs = mem
      /\ \A f \in {"ids", "change", "before"} : [job[t] EXCEPT !.docs = mem][f] = job[t][f]
  BY DEF TypeOK, Job
<1>4. (t \in Workers => pc[t] = "save") /\ (t = Flusher => pc[t] = "take")
  BY DEF Snapshot, TypeOK
<1>. QED
  BY <1>1, <1>2, <1>3, <1>4, Others

(* The end of a save, one way or the other. *)
LEMMA WriteEnds ==
    ASSUME TypeOK, NEW t \in Threads, NEW l \in {"clear", "undo"}, pc[t] = "write",
           IF t = Flusher THEN Return(t) ELSE Goto(t, l) /\ UNCHANGED job
    PROVE  /\ t = Flusher => pc'[t] = "idle" /\ job'[t].ids = {}
           /\ t # Flusher => pc'[t] = l /\ job'[t] = job[t] /\ t \in Workers
           /\ \A u \in Threads : u # t => /\ pc'[u] = pc[u] /\ job'[u] = job[u]
                                          /\ ~HasWriteMu(u)
<1>1. \A u \in Threads : u # t => ~HasWriteMu(u)
  BY DEF TypeOK, HasWriteMu
<1>2. CASE t = Flusher
  BY <1>1, <1>2, ReturnEffect
<1>3. CASE t # Flusher
  BY <1>1, <1>3 DEF Goto, Threads, TypeOK
<1>. QED  BY <1>2, <1>3

LEMMA FlushTakeEffect ==
    ASSUME TypeOK, FlushTake
    PROVE  /\ pc'[Flusher] = "take" /\ job'[Flusher].ids = dirty /\ dirty' = {}
           /\ \A u \in Threads : u # Flusher => pc'[u] = pc[u] /\ job'[u] = job[u]
           /\ UNCHANGED <<use, mem, db, changes, acked, failed>>
<1>1. /\ job' = [job EXCEPT ![Flusher] = [job[Flusher] EXCEPT !.ids = dirty]]
      /\ pc' = [pc EXCEPT ![Flusher] = "take"]
  BY DEF FlushTake, Goto
<1>2. [job[Flusher] EXCEPT !.ids = dirty].ids = dirty /\ Flusher \in Threads
  BY DEF TypeOK, Job, Threads
<1>. QED  BY <1>1, <1>2, Others DEF FlushTake

LEMMA RolesStep == TypeOK /\ Roles /\ [Next]_vars => Roles'
<1> SUFFICES ASSUME TypeOK, Roles, [Next]_vars PROVE Roles'
  OBVIOUS
<1>w. Threads = Workers \cup {Flusher} /\ Flusher \notin Workers
  BY PersisterAssumption DEF Threads
<1>1. ASSUME NEW t \in Workers, Change(t) PROVE Roles'
  BY <1>1, <1>w, ChangeEffect DEF Roles, Saving
<1>2. ASSUME NEW t \in Workers, Hit(t) PROVE Roles'
  BY <1>2, <1>w, HitEffect DEF Roles, Saving
<1>3. ASSUME NEW t \in Threads, MarkDirty(t) PROVE Roles'
  <2>1. t \in Workers /\ job[t].ids \subseteq use.counted
    BY <1>3, <1>w DEF MarkDirty, TypeOK, Roles
  <2>. QED  BY <1>3, <1>w, <2>1, ReturnEffect DEF MarkDirty, Roles, Saving
<1>4. ASSUME NEW t \in Threads, Snapshot(t) PROVE Roles'
  <2>1. UNCHANGED <<use, dirty>>
    BY <1>4 DEF Snapshot
  <2>. QED  BY <1>4, <1>w, <2>1, SnapshotEffect DEF Roles, Saving
<1>5. ASSUME FlushTake PROVE Roles'
  BY <1>5, <1>w, FlushTakeEffect DEF Roles, Saving
<1>6. ASSUME NEW t \in Threads, Save(t) PROVE Roles'
  BY <1>6, <1>w, WriteEnds DEF Save, Roles, Saving
<1>7. ASSUME NEW t \in Threads, SaveFails(t) PROVE Roles'
  BY <1>7, <1>w, WriteEnds DEF SaveFails, Roles, Saving, Remarked
<1>8. ASSUME NEW t \in Threads, ClearDirty(t) PROVE Roles'
  BY <1>8, <1>w, ReturnEffect DEF ClearDirty, Roles, Saving
<1>9. ASSUME NEW t \in Threads, Undo(t) PROVE Roles'
  BY <1>9, <1>w, ReturnEffect DEF Undo, Roles, Saving
<1>10. ASSUME Crash PROVE Roles'
  <2>1. NoJob.ids = {}
    BY DEF NoJob
  <2>. QED  BY <1>10, <1>w, <2>1 DEF Crash, Roles, Saving
<1>11. CASE UNCHANGED vars
  BY <1>11 DEF vars, Roles, Saving
<1>. QED
  BY <1>1, <1>2, <1>3, <1>4, <1>5, <1>6, <1>7, <1>8, <1>9, <1>10, <1>11 DEF Next, Step

LEMMA HoldsMono ==
    ASSUME NEW n, NEW a, NEW b, \A i \in Ids : a[i].done \subseteq b[i].done
    PROVE  Holds(n, a) => Holds(n, b)
BY DEF Holds

(* DoneGrow's consequent, for the steps that leave most of it alone. *)
LEMMA DoneGrowStep == TypeOK /\ Roles /\ DoneGrow /\ [Next]_vars => DoneGrow'
<1> SUFFICES ASSUME TypeOK, Roles, DoneGrow, [Next]_vars, ~use'.fails
             PROVE  /\ \A t \in Workers : pc'[t] # "undo"
                    /\ \A i \in Ids : db'[i].done \subseteq mem'[i].done
                    /\ \A t \in Threads : pc'[t] = "write" =>
                          /\ \A i \in job'[t].ids : db'[i].done \subseteq job'[t].docs[i].done
                          /\ \A i \in Ids : job'[t].docs[i].done \subseteq mem'[i].done
                    /\ Progress' /\ AckedInDb'
  BY DEF DoneGrow
<1> DEFINE G == /\ \A t \in Workers : pc'[t] # "undo"
                /\ \A i \in Ids : db'[i].done \subseteq mem'[i].done
                /\ \A t \in Threads : pc'[t] = "write" =>
                      /\ \A i \in job'[t].ids : db'[i].done \subseteq job'[t].docs[i].done
                      /\ \A i \in Ids : job'[t].docs[i].done \subseteq mem'[i].done
                /\ Progress' /\ AckedInDb'
<1> SUFFICES G
  OBVIOUS
<1>w. Threads = Workers \cup {Flusher} /\ Flusher \notin Workers
  BY PersisterAssumption DEF Threads
<1>u. ~use.fails
  BY DEF Next, Step, vars, Change, Hit, MarkDirty, Snapshot, FlushTake, Save, SaveFails,
         ClearDirty, Undo, Crash
<1>0. /\ \A t \in Workers : pc[t] # "undo"
      /\ \A i \in Ids : db[i].done \subseteq mem[i].done
      /\ \A t \in Threads : pc[t] = "write" =>
            /\ \A i \in job[t].ids : db[i].done \subseteq job[t].docs[i].done
            /\ \A i \in Ids : job[t].docs[i].done \subseteq mem[i].done
      /\ Progress /\ AckedInDb
  BY <1>u DEF DoneGrow
<1>i. \A t \in Threads : job[t].ids \subseteq Ids
  BY DEF TypeOK, Job
<1>1. ASSUME NEW t \in Workers, Change(t) PROVE G
  <2>1. PICK i \in use.direct :
          /\ i \in Ids
          /\ mem' = [mem EXCEPT ![i] = [mem[i] EXCEPT !.done = mem[i].done \cup {changes + 1}]]
          /\ pc'[t] = "save" /\ job'[t].ids = {i} /\ job'[t].change = changes + 1
          /\ \A u \in Threads : u # t => pc'[u] = pc[u] /\ job'[u] = job[u]
          /\ UNCHANGED <<db, acked>>
    BY <1>1, ChangeEffect
  <2>2. \A k \in Ids : mem[k].done \subseteq mem'[k].done
    BY <2>1 DEF TypeOK, Record
  <2>3. changes + 1 \in mem'[i].done
    BY <2>1 DEF TypeOK, Record
  <2>4. Progress'
    BY <1>0, <1>i, <1>w, <2>1, <2>2, <2>3 DEF Progress
  <2>. QED
    BY <1>0, <1>w, <2>1, <2>2, <2>4 DEF AckedInDb, Holds
<1>2. ASSUME NEW t \in Workers, Hit(t) PROVE G
  <2>1. PICK i \in use.counted :
          /\ i \in Ids
          /\ mem' = [mem EXCEPT ![i] = [mem[i] EXCEPT !.hits = mem[i].hits + 1]]
          /\ pc'[t] = "mark"
          /\ \A u \in Threads : u # t => pc'[u] = pc[u] /\ job'[u] = job[u]
          /\ UNCHANGED <<db, acked>>
    BY <1>2, HitEffect
  <2>2. \A k \in Ids : mem[k].done = mem'[k].done
    BY <2>1 DEF TypeOK, Record
  <2>3. Progress'
    BY <1>0, <1>i, <1>w, <2>1, <2>2 DEF Progress
  <2>. QED
    BY <1>0, <1>w, <2>1, <2>2, <2>3 DEF AckedInDb, Holds
<1>3. ASSUME NEW t \in Threads, MarkDirty(t) PROVE G
  BY <1>0, <1>3, <1>w, ReturnEffect DEF MarkDirty, Progress, AckedInDb, Holds
<1>4. ASSUME NEW t \in Threads, Snapshot(t) PROVE G
  <2>1. UNCHANGED <<mem, db, acked>>
    BY <1>4 DEF Snapshot
  <2>2. Progress'
    BY <1>0, <1>4, <1>w, <2>1, SnapshotEffect DEF Progress
  <2>. QED
    BY <1>0, <1>4, <1>w, <1>i, <2>1, <2>2, SnapshotEffect DEF AckedInDb, Holds
<1>5. ASSUME FlushTake PROVE G
  BY <1>0, <1>5, <1>w, FlushTakeEffect DEF Progress, AckedInDb, Holds
<1>6. ASSUME NEW t \in Threads, Save(t) PROVE G
  <2>1. /\ pc[t] = "write" /\ db' = Saved(t) /\ UNCHANGED <<mem, acked>>
        /\ t = Flusher => pc'[t] = "idle" /\ job'[t].ids = {}
        /\ t # Flusher => pc'[t] = "clear" /\ job'[t] = job[t] /\ t \in Workers
        /\ \A u \in Threads : u # t => /\ pc'[u] = pc[u] /\ job'[u] = job[u]
                                       /\ ~HasWriteMu(u)
    BY <1>6, WriteEnds DEF Save
  <2>2. \A i \in Ids : db[i].done \subseteq db'[i].done /\ db'[i].done \subseteq mem'[i].done
    BY <1>0, <2>1 DEF Saved
  <2>3. AckedInDb'
    BY <1>0, <2>1, <2>2, HoldsMono DEF AckedInDb
  <2>4. \A i \in job[t].ids : db'[i] = job[t].docs[i]
    BY <1>i, <2>1 DEF Saved
  <2>5. Progress'
    BY <1>0, <1>w, <2>1, <2>4 DEF Progress, HasWriteMu
  <2>. QED
    BY <1>0, <1>w, <2>1, <2>2, <2>3, <2>5 DEF HasWriteMu
<1>7. ASSUME NEW t \in Threads, SaveFails(t) PROVE G
  BY <1>7, <1>u DEF SaveFails
<1>8. ASSUME NEW t \in Threads, ClearDirty(t) PROVE G
  <2>1. t \in Workers
    BY <1>8, <1>w DEF ClearDirty, TypeOK
  <2>2. PICK i \in use.direct : job[t].ids = {i}
    BY <1>8, <2>1 DEF ClearDirty, Roles, Saving
  <2>3. i \in Ids /\ job[t].change \in db[i].done
    BY <1>0, <1>8, <1>i, <2>1, <2>2 DEF ClearDirty, Progress
  <2>4. AckedInDb'
    BY <1>0, <1>8, <2>3 DEF ClearDirty, AckedInDb, Holds
  <2>. QED
    BY <1>0, <1>8, <1>w, <2>4, ReturnEffect DEF ClearDirty, Progress
<1>9. ASSUME NEW t \in Threads, Undo(t) PROVE G
  BY <1>0, <1>9, <1>w DEF Undo, TypeOK
<1>10. ASSUME Crash PROVE G
  <2>1. NoJob.ids = {}
    BY DEF NoJob
  <2>. QED  BY <1>0, <1>10, <1>w, <2>1 DEF Crash, Progress, AckedInDb, Holds
<1>11. CASE UNCHANGED vars
  BY <1>0, <1>11 DEF vars, Progress, AckedInDb, Holds
<1>. QED
  BY <1>1, <1>2, <1>3, <1>4, <1>5, <1>6, <1>7, <1>8, <1>9, <1>10, <1>11 DEF Next, Step

-----------------------------------------------------------------------------
(* Undoing its change leaves the record as the repository has it. *)
LEMMA UndoneRecord ==
    ASSUME TypeOK, OwnerKnows, NEW t \in Workers, NEW i \in Ids, pc[t] = "undo", job[t].ids = {i}
    PROVE  Undone(t, i) = db[i]
<1>1. /\ job[t].before[i] = db[i]
      /\ mem[i] = [db[i] EXCEPT !.done = db[i].done \cup {job[t].change}]
  BY DEF OwnerKnows, Saving
<1>2. db[i] \in Record
  BY DEF TypeOK
<1>3. [mem[i] EXCEPT !.done = db[i].done] = db[i]
  BY <1>1, <1>2 DEF Record
<1>. QED
  BY <1>1, <1>3 DEF Undone

(* One record is changed by one user, and by no traffic. *)
LEMMA OwnedStep == TypeOK /\ Roles /\ Owned /\ [Next]_vars => Owned'
<1> DEFINE O == /\ OneOwner /\ InSync /\ OwnerKnows /\ CountedOnly /\ OwnChange
                /\ AckedInDb /\ FailedNotInDb
<1> SUFFICES ASSUME TypeOK, Roles, Owned, [Next]_vars, Separate' PROVE O'
  BY DEF Owned
<1>w. Threads = Workers \cup {Flusher} /\ Flusher \notin Workers
  BY PersisterAssumption DEF Threads
<1>u. use' = use
  BY DEF Next, Step, vars, Change, Hit, MarkDirty, Snapshot, FlushTake, Save, SaveFails,
         ClearDirty, Undo, Crash
<1>s. use.alone /\ use.direct \cap use.counted = {} /\ use.direct \subseteq Ids /\ use.counted \subseteq Ids
  BY <1>u, PersisterAssumption DEF Separate, TypeOK, Use
<1>0. O
  BY <1>u DEF Owned, Separate
<1>i. \A t \in Threads : job[t].ids \subseteq Ids
  BY DEF TypeOK, Job
<1>c. \A t \in Workers : Saving(t) => job[t].change \in 1 .. changes
  BY <1>w DEF TypeOK, NoChange
<1>n. changes \in Nat
  BY PersisterAssumption DEF TypeOK
<1>1. ASSUME NEW t \in Workers, Change(t) PROVE O'
  <2>1. PICK i \in use.direct :
          /\ i \in Ids /\ pc[t] = "idle" /\ ~Busy(i)
          /\ mem' = [mem EXCEPT ![i] = [mem[i] EXCEPT !.done = mem[i].done \cup {changes + 1}]]
          /\ pc'[t] = "save" /\ job'[t].ids = {i} /\ job'[t].change = changes + 1
          /\ job'[t].before = mem
          /\ \A u \in Threads : u # t => pc'[u] = pc[u] /\ job'[u] = job[u]
          /\ UNCHANGED <<use, db, dirty, acked, failed>> /\ changes' = changes + 1
    BY <1>1, <1>s, ChangeEffect
  <2>2. /\ \A u \in Workers : u # t => Saving(u)' = Saving(u) /\ (Saving(u) => job[u].ids # {i})
        /\ Saving(t)' /\ ~Saving(t)
    BY <1>w, <2>1 DEF Saving, Busy
  <2>3. mem[i] = db[i]
    BY <1>0, <2>1, <2>2 DEF InSync
  <2>4. /\ mem'[i] = [db[i] EXCEPT !.done = db[i].done \cup {changes + 1}]
        /\ \A k \in Ids : k # i => mem'[k] = mem[k]
    BY <2>1, <2>3 DEF TypeOK
  <2>5. \A k \in Ids : changes + 1 \notin db[k].done
    BY <1>0, <1>n DEF OwnChange
  <2>6. changes + 1 \notin failed /\ \A u \in Workers : Saving(u) => job[u].change # changes + 1
    BY <1>c, <1>n DEF TypeOK
  <2>a. OneOwner'
    BY <1>0, <1>w, <2>1, <2>2 DEF OneOwner
  <2>b. InSync'
    <3> SUFFICES ASSUME NEW k \in use'.direct
                 PROVE  mem'[k] = db'[k] \/ \E u \in Workers : Saving(u)' /\ job'[u].ids = {k}
      BY DEF InSync
    <3>1. CASE k = i
      BY <2>1, <2>2, <3>1
    <3>2. CASE k # i
      <4>1. mem[k] = db[k] \/ \E u \in Workers : u # t /\ Saving(u) /\ job[u].ids = {k}
        BY <1>0, <1>u, <2>2 DEF InSync
      <4>2. mem'[k] = mem[k] /\ db' = db
        BY <1>s, <1>u, <2>1, <2>4, <3>2
      <4>. QED  BY <1>w, <2>1, <2>2, <4>1, <4>2
    <3>. QED  BY <3>1, <3>2
  <2>c. OwnerKnows'
    <3> SUFFICES ASSUME NEW u \in Workers, NEW k \in Ids, Saving(u)', job'[u].ids = {k}
                 PROVE  /\ pc'[u] # "clear" =>
                              /\ job'[u].before[k] = db'[k]
                              /\ job'[u].change \notin db'[k].done
                              /\ mem'[k] = [db'[k] EXCEPT !.done = db'[k].done \cup {job'[u].change}]
                        /\ pc'[u] = "write" => job'[u].docs[k] = mem'[k]
                        /\ pc'[u] = "clear" => mem'[k] = db'[k] /\ job'[u].change \in db'[k].done
      BY DEF OwnerKnows
    <3>1. CASE u = t
      BY <2>1, <2>3, <2>4, <2>5, <3>1
    <3>2. CASE u # t
      <4>1. Saving(u) /\ job[u].ids = {k} /\ k # i /\ job'[u] = job[u] /\ pc'[u] = pc[u]
        BY <1>w, <2>1, <2>2, <3>2
      <4>2. mem'[k] = mem[k] /\ db' = db
        BY <2>1, <2>4, <4>1
      <4>. QED  BY <1>0, <4>1, <4>2 DEF OwnerKnows
    <3>. QED  BY <3>1, <3>2
  <2>d. CountedOnly'
    BY <1>0, <1>w, <2>1, <2>4 DEF CountedOnly
  <2>e. OwnChange'
    <3>1. \A k \in Ids : db'[k].done \subseteq 1 .. changes'
      BY <1>0, <1>n, <2>1 DEF OwnChange
    <3>. QED  BY <1>0, <1>w, <2>1, <2>2, <2>5, <2>6, <3>1 DEF OwnChange
  <2>f. AckedInDb' /\ FailedNotInDb'
    BY <1>0, <2>1 DEF AckedInDb, FailedNotInDb, Holds
  <2>. QED  BY <2>a, <2>b, <2>c, <2>d, <2>e, <2>f
<1>2. ASSUME NEW t \in Workers, Hit(t) PROVE O'
  <2>1. PICK i \in use.counted :
          /\ i \in Ids /\ pc[t] = "idle"
          /\ mem' = [mem EXCEPT ![i] = [mem[i] EXCEPT !.hits = mem[i].hits + 1]]
          /\ pc'[t] = "mark" /\ job'[t].ids = {i}
          /\ \A u \in Threads : u # t => pc'[u] = pc[u] /\ job'[u] = job[u]
          /\ UNCHANGED <<use, db, dirty, changes, acked, failed>>
    BY <1>2, HitEffect
  <2>2. /\ \A u \in Workers : u # t => Saving(u)' = Saving(u)
        /\ ~Saving(t)' /\ ~Saving(t)
    BY <1>w, <2>1 DEF Saving
  <2>3. /\ i \notin use.direct /\ mem'[i].done = mem[i].done
        /\ \A k \in Ids : k # i => mem'[k] = mem[k]
    BY <1>s, <2>1 DEF TypeOK, Record
  <2>4. \A u \in Workers : Saving(u) => job[u].ids # {i}
    BY <2>3 DEF Roles
  <2>a. OneOwner'
    BY <1>0, <1>w, <2>1, <2>2 DEF OneOwner
  <2>b. InSync'
    BY <1>0, <1>s, <1>w, <2>1, <2>2, <2>3 DEF InSync
  <2>c. OwnerKnows'
    BY <1>0, <1>w, <2>1, <2>2, <2>3, <2>4 DEF OwnerKnows
  <2>d. CountedOnly'
    BY <1>0, <1>w, <2>1, <2>3 DEF CountedOnly
  <2>e. OwnChange' /\ AckedInDb' /\ FailedNotInDb'
    BY <1>0, <1>w, <2>1, <2>2 DEF OwnChange, AckedInDb, FailedNotInDb, Holds
  <2>. QED  BY <2>a, <2>b, <2>c, <2>d, <2>e
<1>3. ASSUME NEW t \in Threads, MarkDirty(t) PROVE O'
  <2>1. /\ ~Saving(t) /\ ~Saving(t)' /\ pc'[t] = "idle"
        /\ \A u \in Threads : u # t => pc'[u] = pc[u] /\ job'[u] = job[u] /\ Saving(u)' = Saving(u)
        /\ UNCHANGED <<use, mem, db, changes, acked, failed>>
    BY <1>3, ReturnEffect DEF MarkDirty, Saving
  <2>a. OneOwner' /\ InSync' /\ CountedOnly'
    BY <1>0, <1>w, <2>1 DEF OneOwner, InSync, CountedOnly
  <2>b. OwnerKnows'
    BY <1>0, <1>w, <2>1 DEF OwnerKnows
  <2>c. OwnChange' /\ AckedInDb' /\ FailedNotInDb'
    BY <1>0, <1>w, <2>1 DEF OwnChange, AckedInDb, FailedNotInDb, Holds
  <2>. QED  BY <2>a, <2>b, <2>c
<1>4. ASSUME NEW t \in Threads, Snapshot(t) PROVE O'
  <2>1. /\ pc'[t] = "write" /\ job'[t].docs = mem /\ job'[t].ids = job[t].ids
        /\ job'[t].change = job[t].change /\ job'[t].before = job[t].before
        /\ \A u \in Threads : u # t => pc'[u] = pc[u] /\ job'[u] = job[u] /\ Saving(u)' = Saving(u)
        /\ UNCHANGED <<use, mem, db, changes, acked, failed>>
        /\ t \in Workers => pc[t] = "save"
    BY <1>4, SnapshotEffect DEF Snapshot, Saving
  <2>2. \A u \in Workers : /\ Saving(u)' = Saving(u) /\ job'[u].ids = job[u].ids
                           /\ job'[u].change = job[u].change /\ job'[u].before = job[u].before
                           /\ pc'[u] = "clear" <=> pc[u] = "clear"
    BY <1>w, <2>1 DEF Saving
  <2>a. OneOwner' /\ InSync' /\ CountedOnly'
    BY <1>0, <1>w, <2>1, <2>2 DEF OneOwner, InSync, CountedOnly
  <2>b. OwnerKnows'
    BY <1>0, <1>w, <2>1, <2>2 DEF OwnerKnows
  <2>c. OwnChange' /\ AckedInDb' /\ FailedNotInDb'
    BY <1>0, <2>1, <2>2 DEF OwnChange, AckedInDb, FailedNotInDb, Holds
  <2>. QED  BY <2>a, <2>b, <2>c
<1>5. ASSUME FlushTake PROVE O'
  <2>1. /\ pc'[Flusher] = "take" /\ job'[Flusher].ids = dirty
        /\ \A u \in Workers : pc'[u] = pc[u] /\ job'[u] = job[u] /\ Saving(u)' = Saving(u)
        /\ UNCHANGED <<use, mem, db, changes, acked, failed>>
    BY <1>5, <1>w, FlushTakeEffect DEF Saving
  <2>a. OneOwner' /\ InSync' /\ CountedOnly'
    BY <1>0, <1>w, <2>1 DEF OneOwner, InSync, CountedOnly
  <2>b. OwnerKnows'
    BY <1>0, <2>1 DEF OwnerKnows
  <2>c. OwnChange' /\ AckedInDb' /\ FailedNotInDb'
    BY <1>0, <2>1 DEF OwnChange, AckedInDb, FailedNotInDb, Holds
  <2>. QED  BY <2>a, <2>b, <2>c
<1>6. ASSUME NEW t \in Threads, Save(t) PROVE O'
  <2>1. /\ pc[t] = "write" /\ db' = Saved(t) /\ UNCHANGED <<use, mem, changes, acked, failed>>
        /\ t = Flusher => pc'[t] = "idle" /\ job'[t].ids = {}
        /\ t # Flusher => pc'[t] = "clear" /\ job'[t] = job[t] /\ t \in Workers
        /\ \A u \in Threads : u # t => /\ pc'[u] = pc[u] /\ job'[u] = job[u]
                                       /\ ~HasWriteMu(u)
    BY <1>6, WriteEnds DEF Save
  <2>2. \A k \in Ids : db'[k] = IF k \in job[t].ids THEN job[t].docs[k] ELSE db[k]
    BY <2>1 DEF Saved
  <2>3. \A u \in Workers : Saving(u)' = Saving(u) /\ job'[u] = job[u]
    BY <1>w, <2>1 DEF Saving
  <2>4. CASE t = Flusher
    <3>1. \A k \in use.direct : db'[k] = db[k]
      BY <1>s, <2>2, <2>4 DEF Roles
    <3>2. \A k \in Ids \ use.direct : db'[k].done = {}
      BY <1>0, <2>1, <2>2 DEF CountedOnly
    <3>3. \A k \in Ids : db'[k].done = db[k].done
      BY <1>0, <1>s, <3>1, <3>2 DEF CountedOnly
    <3>4. \A u \in Workers : Saving(u) => \A k \in Ids : job[u].ids = {k} => k \in use.direct
      BY DEF Roles
    <3>5. \A u \in Workers : pc'[u] = pc[u]
      BY <1>w, <2>1, <2>4
    <3>a. OneOwner' /\ InSync'
      BY <1>0, <1>s, <2>1, <2>3, <3>1 DEF OneOwner, InSync
    <3>b. OwnerKnows'
      BY <1>0, <2>1, <2>3, <3>1, <3>4, <3>5 DEF OwnerKnows
    <3>c. CountedOnly'
      BY <1>0, <1>w, <2>1, <2>4, <3>2 DEF CountedOnly
    <3>d. OwnChange' /\ AckedInDb' /\ FailedNotInDb'
      BY <1>0, <2>1, <2>3, <3>3 DEF OwnChange, AckedInDb, FailedNotInDb, Holds
    <3>. QED  BY <3>a, <3>b, <3>c, <3>d
  <2>5. CASE t # Flusher
    <3>1. t \in Workers /\ Saving(t)
      BY <2>1, <2>5 DEF Saving
    <3>2. PICK i \in use.direct : job[t].ids = {i}
      BY <3>1 DEF Roles
    <3> DEFINE n == job[t].change
    <3>3. i \in Ids /\ n \in 1 .. changes /\ n \notin failed
      BY <1>0, <1>s, <1>c, <3>1 DEF OwnChange
    <3>4. /\ db'[i] = mem[i] /\ db'[i] = [db[i] EXCEPT !.done = db[i].done \cup {n}]
          /\ \A k \in Ids : k # i => db'[k] = db[k]
      <4>1. /\ job[t].docs[i] = mem[i]
            /\ mem[i] = [db[i] EXCEPT !.done = db[i].done \cup {n}]
        BY <1>0, <2>1, <3>1, <3>2, <3>3 DEF OwnerKnows
      <4>. QED  BY <2>2, <3>2, <3>3, <4>1
    <3>5. db'[i].done = db[i].done \cup {n}
      BY <3>3, <3>4 DEF TypeOK, Record
    <3>6. \A u \in Workers : u # t => pc'[u] = pc[u] /\ (Saving(u) => job[u].ids # {i})
      BY <1>0, <1>w, <2>1, <3>1, <3>2 DEF OneOwner
    <3>7. pc'[t] = "clear"
      BY <2>1, <2>5
    <3>a. OneOwner'
      BY <1>0, <2>3 DEF OneOwner
    <3>b. InSync'
      <4> SUFFICES ASSUME NEW k \in use'.direct
                   PROVE  mem'[k] = db'[k] \/ \E u \in Workers : Saving(u)' /\ job'[u].ids = {k}
        BY DEF InSync
      <4>1. CASE k = i
        BY <2>1, <3>4, <4>1
      <4>2. CASE k # i
        <5>1. mem[k] = db[k] \/ \E u \in Workers : Saving(u) /\ job[u].ids = {k}
          BY <1>0, <1>u DEF InSync
        <5>. QED  BY <1>s, <1>u, <2>1, <2>3, <3>4, <4>2, <5>1
      <4>. QED  BY <4>1, <4>2
    <3>c. OwnerKnows'
      <4> SUFFICES ASSUME NEW u \in Workers, NEW k \in Ids, Saving(u)', job'[u].ids = {k}
                   PROVE  /\ pc'[u] # "clear" =>
                                /\ job'[u].before[k] = db'[k]
                                /\ job'[u].change \notin db'[k].done
                                /\ mem'[k] = [db'[k] EXCEPT !.done = db'[k].done \cup {job'[u].change}]
                          /\ pc'[u] = "write" => job'[u].docs[k] = mem'[k]
                          /\ pc'[u] = "clear" => mem'[k] = db'[k] /\ job'[u].change \in db'[k].done
        BY DEF OwnerKnows
      <4>1. CASE u = t
        BY <2>1, <2>3, <3>2, <3>4, <3>5, <3>7, <4>1
      <4>2. CASE u # t
        <5>1. Saving(u) /\ job[u].ids = {k} /\ k # i /\ job'[u] = job[u] /\ pc'[u] = pc[u]
          BY <2>3, <3>6, <4>2
        <5>2. db'[k] = db[k] /\ mem' = mem
          BY <2>1, <3>4, <5>1
        <5>. QED  BY <1>0, <5>1, <5>2 DEF OwnerKnows
      <4>. QED  BY <4>1, <4>2
    <3>d. CountedOnly'
      BY <1>0, <1>w, <2>1, <3>2, <3>4 DEF CountedOnly
    <3>e. OwnChange'
      <4>1. \A k \in Ids : db'[k].done \subseteq 1 .. changes'
        BY <1>0, <2>1, <3>3, <3>4, <3>5 DEF OwnChange
      <4>2. ASSUME NEW u \in Workers, Saving(u)', NEW k \in Ids, job'[u].ids # {k}
            PROVE  job'[u].change \notin db'[k].done
        <5>1. Saving(u) /\ job[u].ids # {k} /\ job'[u] = job[u]
          BY <2>3, <4>2
        <5>2. job[u].change \notin db[k].done
          BY <1>0, <5>1 DEF OwnChange
        <5>3. CASE k = i
          <6>1. u # t /\ job[u].change # n
            BY <1>0, <3>1, <3>2, <5>1, <5>3 DEF OwnChange
          <6>. QED  BY <3>5, <5>1, <5>2, <5>3, <6>1
        <5>4. CASE k # i
          BY <3>4, <5>1, <5>2, <5>4
        <5>. QED  BY <5>3, <5>4
      <4>. QED  BY <1>0, <2>1, <2>3, <4>1, <4>2 DEF OwnChange
    <3>f. AckedInDb'
      BY <1>0, <2>1, <3>3, <3>4, <3>5 DEF AckedInDb, Holds
    <3>g. FailedNotInDb'
      BY <1>0, <2>1, <3>3, <3>4, <3>5 DEF FailedNotInDb, Holds
    <3>. QED  BY <3>a, <3>b, <3>c, <3>d, <3>e, <3>f, <3>g
  <2>. QED  BY <2>4, <2>5
<1>7. ASSUME NEW t \in Threads, SaveFails(t) PROVE O'
  <2>1. /\ pc[t] = "write" /\ UNCHANGED <<use, mem, db, changes, acked, failed>>
        /\ t = Flusher => pc'[t] = "idle" /\ job'[t].ids = {}
        /\ t # Flusher => pc'[t] = "undo" /\ job'[t] = job[t] /\ t \in Workers
        /\ \A u \in Threads : u # t => pc'[u] = pc[u] /\ job'[u] = job[u]
    BY <1>7, WriteEnds DEF SaveFails
  <2>2. \A u \in Workers : /\ Saving(u)' = Saving(u) /\ job'[u] = job[u]
                           /\ pc'[u] = "clear" <=> pc[u] = "clear"
                           /\ pc'[u] = "write" => pc[u] = "write"
    BY <1>w, <2>1 DEF Saving
  <2>a. OneOwner' /\ InSync' /\ CountedOnly'
    BY <1>0, <1>w, <2>1, <2>2 DEF OneOwner, InSync, CountedOnly
  <2>b. OwnerKnows'
    BY <1>0, <2>1, <2>2 DEF OwnerKnows
  <2>c. OwnChange' /\ AckedInDb' /\ FailedNotInDb'
    BY <1>0, <2>1, <2>2 DEF OwnChange, AckedInDb, FailedNotInDb, Holds
  <2>. QED  BY <2>a, <2>b, <2>c
<1>8. ASSUME NEW t \in Threads, ClearDirty(t) PROVE O'
  <2>1. /\ pc[t] = "clear" /\ acked' = acked \cup {job[t].change} /\ t \in Workers
        /\ pc'[t] = "idle" /\ job'[t].ids = {}
        /\ \A u \in Threads : u # t => pc'[u] = pc[u] /\ job'[u] = job[u]
        /\ UNCHANGED <<use, mem, db, changes, failed>>
    BY <1>8, <1>w, ReturnEffect DEF ClearDirty, TypeOK
  <2>2. Saving(t) /\ ~Saving(t)' /\ \A u \in Workers : u # t => Saving(u)' = Saving(u)
    BY <1>w, <2>1 DEF Saving
  <2>3. PICK i \in use.direct : job[t].ids = {i}
    BY <2>1, <2>2 DEF Roles
  <2>4. i \in Ids /\ mem[i] = db[i] /\ job[t].change \in db[i].done
    BY <1>0, <1>s, <2>1, <2>2, <2>3 DEF OwnerKnows
  <2>a. OneOwner' /\ CountedOnly'
    BY <1>0, <1>w, <2>1, <2>2 DEF OneOwner, CountedOnly
  <2>b. InSync'
    <3> SUFFICES ASSUME NEW k \in use'.direct
                 PROVE  mem'[k] = db'[k] \/ \E u \in Workers : Saving(u)' /\ job'[u].ids = {k}
      BY DEF InSync
    <3>1. CASE k = i
      BY <2>1, <2>4, <3>1
    <3>2. CASE k # i
      <4>1. mem[k] = db[k] \/ \E u \in Workers : u # t /\ Saving(u) /\ job[u].ids = {k}
        BY <1>0, <2>1, <2>3, <3>2 DEF InSync
      <4>. QED  BY <1>w, <2>1, <2>2, <4>1
    <3>. QED  BY <3>1, <3>2
  <2>c. OwnerKnows'
    BY <1>0, <1>w, <2>1, <2>2 DEF OwnerKnows
  <2>d. OwnChange' /\ FailedNotInDb'
    BY <1>0, <1>w, <2>1, <2>2 DEF OwnChange, FailedNotInDb, Holds
  <2>e. AckedInDb'
    BY <1>0, <2>1, <2>4 DEF AckedInDb, Holds
  <2>. QED  BY <2>a, <2>b, <2>c, <2>d, <2>e
<1>9. ASSUME NEW t \in Threads, Undo(t) PROVE O'
  <2>1. /\ pc[t] = "undo" /\ failed' = failed \cup {job[t].change} /\ t \in Workers
        /\ mem' = [k \in Ids |-> Undone(t, k)]
        /\ pc'[t] = "idle" /\ job'[t].ids = {}
        /\ \A u \in Threads : u # t => pc'[u] = pc[u] /\ job'[u] = job[u]
        /\ UNCHANGED <<use, db, changes, acked>>
    BY <1>9, <1>w, ReturnEffect DEF Undo, TypeOK
  <2>2. Saving(t) /\ ~Saving(t)' /\ \A u \in Workers : u # t => Saving(u)' = Saving(u)
    BY <1>w, <2>1 DEF Saving
  <2>3. PICK i \in use.direct : job[t].ids = {i}
    BY <2>1, <2>2 DEF Roles
  <2>4. i \in Ids /\ job[t].change \notin db[i].done
    BY <1>0, <1>s, <2>1, <2>2, <2>3 DEF OwnerKnows
  <2>5. mem'[i] = db[i]
    BY <1>0, <2>1, <2>3, <2>4, UndoneRecord
  <2>6. \A k \in Ids : k # i => mem'[k] = mem[k]
    BY <2>1, <2>3 DEF Undone
  <2>7. \A u \in Workers : u # t => (Saving(u) => job[u].ids # {i})
    BY <1>0, <2>1, <2>2, <2>3 DEF OneOwner
  <2>a. OneOwner'
    BY <1>0, <1>w, <2>1, <2>2 DEF OneOwner
  <2>b. InSync'
    <3> SUFFICES ASSUME NEW k \in use'.direct
                 PROVE  mem'[k] = db'[k] \/ \E u \in Workers : Saving(u)' /\ job'[u].ids = {k}
      BY DEF InSync
    <3>1. CASE k = i
      BY <2>1, <2>5, <3>1
    <3>2. CASE k # i
      <4>1. mem[k] = db[k] \/ \E u \in Workers : u # t /\ Saving(u) /\ job[u].ids = {k}
        BY <1>0, <2>1, <2>3, <3>2 DEF InSync
      <4>. QED  BY <1>s, <1>w, <2>1, <2>2, <2>6, <3>2, <4>1
    <3>. QED  BY <3>1, <3>2
  <2>c. OwnerKnows'
    <3> SUFFICES ASSUME NEW u \in Workers, NEW k \in Ids, Saving(u)', job'[u].ids = {k}
                 PROVE  /\ pc'[u] # "clear" =>
                              /\ job'[u].before[k] = db'[k]
                              /\ job'[u].change \notin db'[k].done
                              /\ mem'[k] = [db'[k] EXCEPT !.done = db'[k].done \cup {job'[u].change}]
                        /\ pc'[u] = "write" => job'[u].docs[k] = mem'[k]
                        /\ pc'[u] = "clear" => mem'[k] = db'[k] /\ job'[u].change \in db'[k].done
      BY DEF OwnerKnows
    <3>1. u # t /\ Saving(u) /\ job[u].ids = {k} /\ k # i /\ job'[u] = job[u] /\ pc'[u] = pc[u]
      BY <1>w, <2>1, <2>2, <2>7
    <3>2. db'[k] = db[k] /\ mem'[k] = mem[k]
      BY <2>1, <2>6, <3>1
    <3>. QED  BY <1>0, <3>1, <3>2 DEF OwnerKnows
  <2>d. CountedOnly'
    BY <1>0, <1>w, <2>1, <2>3, <2>6 DEF CountedOnly
  <2>e. OwnChange'
    <3>1. \A u \in Workers : u # t /\ Saving(u) => job[u].change # job[t].change
      BY <1>0, <2>1, <2>2 DEF OwnChange
    <3>. QED  BY <1>0, <1>w, <2>1, <2>2, <3>1 DEF OwnChange
  <2>f. AckedInDb'
    BY <1>0, <2>1 DEF AckedInDb, Holds
  <2>g. FailedNotInDb'
    <3>1. \A k \in Ids : job[t].change \notin db[k].done
      BY <1>0, <2>1, <2>2, <2>3, <2>4 DEF OwnChange
    <3>. QED  BY <1>0, <2>1, <3>1 DEF FailedNotInDb, Holds
  <2>. QED  BY <2>a, <2>b, <2>c, <2>d, <2>e, <2>f, <2>g
<1>10. ASSUME Crash PROVE O'
  <2>1. \A u \in Threads : pc'[u] = "idle"
    BY <1>10 DEF Crash
  <2>2. \A u \in Workers : ~Saving(u)'
    BY <1>w, <2>1 DEF Saving
  <2>3. mem' = db /\ UNCHANGED <<use, db, changes, acked, failed>>
    BY <1>10 DEF Crash
  <2>a. OneOwner' /\ InSync' /\ OwnerKnows'
    BY <2>2, <2>3 DEF OneOwner, InSync, OwnerKnows
  <2>b. CountedOnly' /\ OwnChange'
    BY <1>0, <2>1, <2>2, <2>3 DEF CountedOnly, OwnChange
  <2>c. AckedInDb' /\ FailedNotInDb'
    BY <1>0, <2>3 DEF AckedInDb, FailedNotInDb, Holds
  <2>. QED  BY <2>a, <2>b, <2>c
<1>11. CASE UNCHANGED vars
  <2>1. UNCHANGED <<use, mem, db, pc, job, changes, acked, failed>>
    BY <1>11 DEF vars
  <2>2. \A u \in Workers : Saving(u)' = Saving(u)
    BY <2>1 DEF Saving
  <2>a. OneOwner' /\ InSync' /\ CountedOnly'
    BY <1>0, <2>1, <2>2 DEF OneOwner, InSync, CountedOnly
  <2>b. OwnerKnows'
    BY <1>0, <2>1, <2>2 DEF OwnerKnows
  <2>c. OwnChange' /\ AckedInDb' /\ FailedNotInDb'
    BY <1>0, <2>1, <2>2 DEF OwnChange, AckedInDb, FailedNotInDb, Holds
  <2>. QED  BY <2>a, <2>b, <2>c
<1>. QED
  BY <1>1, <1>2, <1>3, <1>4, <1>5, <1>6, <1>7, <1>8, <1>9, <1>10, <1>11 DEF Next, Step

LEMMA InitIInv == Init => IInv
<1> SUFFICES ASSUME Init PROVE IInv
  OBVIOUS
<1>1. /\ NoJob.ids = {} /\ \A i \in Ids : Blank[i].done = {}
      /\ \A t \in Threads : pc[t] = "idle" /\ job[t] = NoJob
  BY DEF NoJob, Blank, NoRecord, Init
<1>2. \A t \in Threads : ~Saving(t)
  BY <1>1 DEF Saving
<1>w. Threads = Workers \cup {Flusher}
  BY DEF Threads
<1>3. Roles
  BY <1>1, <1>2, <1>w DEF Init, Roles
<1>4. DoneGrow
  BY <1>1, <1>2, <1>w DEF Init, DoneGrow, Progress, AckedInDb
<1>5. Owned
  <2>1. OneOwner /\ InSync /\ OwnerKnows
    BY <1>2, <1>w DEF Init, OneOwner, InSync, OwnerKnows
  <2>2. CountedOnly /\ OwnChange
    BY <1>1, <1>2, <1>w DEF Init, CountedOnly, OwnChange
  <2>3. AckedInDb /\ FailedNotInDb
    BY DEF Init, AckedInDb, FailedNotInDb
  <2>. QED  BY <2>1, <2>2, <2>3 DEF Owned
<1>. QED  BY <1>3, <1>4, <1>5, InitType DEF IInv

LEMMA InvCorrect == Spec => []IInv
<1>1. IInv /\ [Next]_vars => IInv'
  BY TypeStep, RolesStep, DoneGrowStep, OwnedStep DEF IInv
<1>. QED  BY <1>1, InitIInv, PTL DEF Spec

(* No rollback, older snapshot or crash removes a saved change. *)
THEOREM AckedCorrect == Spec => []AckedIsKept
<1>1. IInv => AckedIsKept
  BY DEF IInv, Owned, DoneGrow, AckedIsKept, AckedInDb
<1>. QED  BY <1>1, InvCorrect, PTL

(* A change reported as failed is neither saved nor in memory. *)
THEOREM FailedCorrect == Spec => []FailedIsGone
<1>1. IInv => FailedIsGone
  <2> SUFFICES ASSUME IInv, Separate, NEW n \in failed
               PROVE  ~Holds(n, db) /\ ~Holds(n, mem)
    BY DEF FailedIsGone
  <2>1. /\ TypeOK /\ InSync /\ OwnerKnows /\ CountedOnly /\ OwnChange
        /\ ~Holds(n, db) /\ Roles
    BY DEF IInv, Owned, FailedNotInDb
  <2>2. ASSUME NEW i \in Ids, n \in mem[i].done PROVE FALSE
    <3>1. n \notin db[i].done
      BY <2>1 DEF Holds
    <3>2. i \in use.direct
      BY <2>1, <2>2 DEF CountedOnly
    <3>3. PICK t \in Workers : Saving(t) /\ job[t].ids = {i}
      BY <2>1, <2>2, <3>1, <3>2 DEF InSync
    <3>4. pc[t] # "clear" /\ mem[i] = [db[i] EXCEPT !.done = db[i].done \cup {job[t].change}]
      BY <2>1, <2>2, <3>1, <3>3 DEF OwnerKnows
    <3>5. n = job[t].change
      BY <2>1, <2>2, <3>1, <3>4 DEF TypeOK, Record
    <3>. QED  BY <2>1, <3>3, <3>5 DEF OwnChange
  <2>. QED  BY <2>1, <2>2 DEF Holds
<1>. QED  BY <1>1, InvCorrect, PTL

-----------------------------------------------------------------------------
(* A traffic update that will still be in the next flush.                  *)
Marked(i) == i \in dirty \/ \E t \in Workers : pc[t] = "mark" /\ i \in job[t].ids

Flushing(i) == pc[Flusher] # "idle" /\ i \in job[Flusher].ids

(* A record that users do not change is behind in the repository only if   *)
(* it is marked or being flushed, and what is being flushed is behind      *)
(* memory only if it is marked again.                                      *)
CountedMarked ==
    \A i \in Ids \ use.direct :
        /\ mem[i] = db[i] \/ Marked(i) \/ Flushing(i)
        /\ pc[Flusher] = "write" /\ Flushing(i) =>
               job[Flusher].docs[i] = mem[i] \/ Marked(i)

LEMMA CountedMarkedStep == TypeOK /\ Roles /\ CountedMarked /\ [Next]_vars => CountedMarked'
<1>w. Threads = Workers \cup {Flusher} /\ Flusher \notin Workers
  BY PersisterAssumption DEF Threads
<1>u. [Next]_vars => use' = use
  BY DEF Next, Step, vars, Change, Hit, MarkDirty, Snapshot, FlushTake, Save, SaveFails,
         ClearDirty, Undo, Crash
<1>. DEFINE C(i) == /\ mem[i] = db[i] \/ Marked(i) \/ Flushing(i)
                    /\ pc[Flusher] = "write" /\ Flushing(i) =>
                           job[Flusher].docs[i] = mem[i] \/ Marked(i)
<1>. SUFFICES ASSUME TypeOK, Roles, [Next]_vars, NEW i \in Ids \ use.direct, C(i)
              PROVE  C(i)'
  BY <1>u DEF CountedMarked
<1>d. \A t \in Workers : Saving(t) => i \notin job[t].ids
  BY DEF Roles
<1>1. ASSUME NEW t \in Workers, Change(t) PROVE C(i)'
  <2>1. /\ mem'[i] = mem[i] /\ pc[t] = "idle" /\ UNCHANGED <<db, dirty>>
        /\ \A u \in Threads : u # t => pc'[u] = pc[u] /\ job'[u] = job[u]
    BY <1>1, ChangeEffect DEF TypeOK
  <2>. QED
    BY <1>w, <2>1 DEF Marked, Flushing
<1>2. ASSUME NEW t \in Workers, Hit(t) PROVE C(i)'
  <2>1. PICK k \in use.counted :
          /\ mem' = [mem EXCEPT ![k] = [mem[k] EXCEPT !.hits = mem[k].hits + 1]]
          /\ pc[t] = "idle" /\ pc'[t] = "mark" /\ job'[t].ids = {k} /\ UNCHANGED <<db, dirty>>
          /\ \A u \in Threads : u # t => pc'[u] = pc[u] /\ job'[u] = job[u]
    BY <1>2, HitEffect
  <2>2. k = i \/ mem'[i] = mem[i]
    BY <2>1 DEF TypeOK
  <2>. QED
    BY <1>w, <2>1, <2>2 DEF Marked, Flushing
<1>3. ASSUME NEW t \in Threads, MarkDirty(t) PROVE C(i)'
  <2>1. /\ dirty' = dirty \cup job[t].ids /\ UNCHANGED <<mem, db>> /\ t \in Workers
        /\ pc[t] = "mark"
        /\ \A u \in Threads : u # t => pc'[u] = pc[u] /\ job'[u] = job[u]
    BY <1>3, <1>w, ReturnEffect DEF MarkDirty, TypeOK
  <2>. QED
    BY <1>w, <2>1 DEF Marked, Flushing
<1>4. ASSUME NEW t \in Threads, Snapshot(t) PROVE C(i)'
  <2>1. /\ pc'[t] = "write" /\ job'[t].docs = mem /\ job'[t].ids = job[t].ids
        /\ \A u \in Threads : u # t => pc'[u] = pc[u] /\ job'[u] = job[u]
        /\ t \in Workers => pc[t] = "save"
        /\ t = Flusher => pc[t] = "take"
        /\ UNCHANGED <<mem, db, dirty>>
    BY <1>4, SnapshotEffect DEF Snapshot
  <2>. QED
    BY <1>w, <2>1 DEF Marked, Flushing
<1>5. ASSUME FlushTake PROVE C(i)'
  <2>1. /\ pc[Flusher] = "idle" /\ pc'[Flusher] = "take" /\ job'[Flusher].ids = dirty
        /\ \A u \in Threads : u # Flusher => pc'[u] = pc[u] /\ job'[u] = job[u]
        /\ UNCHANGED <<mem, db>>
    BY <1>5, FlushTakeEffect DEF FlushTake
  <2>. QED
    BY <1>w, <2>1 DEF Marked, Flushing
<1>6. ASSUME NEW t \in Threads, Save(t) PROVE C(i)'
  <2>1. /\ pc[t] = "write" /\ db' = Saved(t) /\ UNCHANGED <<mem, dirty>>
        /\ t = Flusher => pc'[t] = "idle"
        /\ t # Flusher => pc'[t] = "clear" /\ t \in Workers
        /\ \A u \in Threads : u # t => pc'[u] = pc[u] /\ job'[u] = job[u]
    BY <1>6, WriteEnds DEF Save
  <2>2. CASE t = Flusher
    BY <1>w, <2>1, <2>2 DEF Marked, Flushing, Saved
  <2>3. CASE t # Flusher
    <3>1. db'[i] = db[i]
      BY <1>d, <2>1, <2>3 DEF Saved, Saving
    <3>. QED
      BY <1>w, <2>1, <2>3, <3>1 DEF Marked, Flushing
  <2>. QED
    BY <2>2, <2>3
<1>7. ASSUME NEW t \in Threads, SaveFails(t) PROVE C(i)'
  <2>1. /\ pc[t] = "write" /\ UNCHANGED <<mem, db>> /\ dirty' = Remarked(t)
        /\ t = Flusher => pc'[t] = "idle"
        /\ t # Flusher => pc'[t] = "undo" /\ t \in Workers
        /\ \A u \in Threads : u # t => pc'[u] = pc[u] /\ job'[u] = job[u]
    BY <1>7, WriteEnds DEF SaveFails
  <2>. QED
    BY <1>w, <2>1 DEF Marked, Flushing, Remarked
<1>8. ASSUME NEW t \in Threads, ClearDirty(t) PROVE C(i)'
  <2>1. /\ pc[t] = "clear" /\ t \in Workers /\ UNCHANGED <<mem, db>>
        /\ dirty' = dirty \ job[t].ids
        /\ \A u \in Threads : u # t => pc'[u] = pc[u] /\ job'[u] = job[u]
    BY <1>8, <1>w, ReturnEffect DEF ClearDirty, TypeOK
  <2>2. i \notin job[t].ids
    BY <1>d, <2>1 DEF Saving
  <2>. QED
    BY <1>w, <2>1, <2>2 DEF Marked, Flushing
<1>9. ASSUME NEW t \in Threads, Undo(t) PROVE C(i)'
  <2>1. /\ pc[t] = "undo" /\ t \in Workers /\ UNCHANGED <<db, dirty>>
        /\ mem'[i] = Undone(t, i)
        /\ \A u \in Threads : u # t => pc'[u] = pc[u] /\ job'[u] = job[u]
    BY <1>9, <1>w, ReturnEffect DEF Undo, TypeOK
  <2>2. mem'[i] = mem[i]
    BY <1>d, <2>1 DEF Saving, Undone
  <2>. QED
    BY <1>w, <2>1, <2>2 DEF Marked, Flushing
<1>10. ASSUME Crash PROVE C(i)'
  BY <1>10, <1>w DEF Crash, Flushing
<1>11. CASE UNCHANGED vars
  BY <1>11 DEF vars, Marked, Flushing
<1>. QED
  BY <1>1, <1>2, <1>3, <1>4, <1>5, <1>6, <1>7, <1>8, <1>9, <1>10, <1>11 DEF Next, Step

(* Where each record is used one way, nothing that memory has and the      *)
(* repository lacks is forgotten: a user's change is being saved or undone, *)
(* a traffic update is marked or in a flush that marks it again if it      *)
(* fails (markDirty, flush, writeThrough).                                 *)
THEOREM UnsavedCorrect == Spec => []UnsavedIsMarked
<1>1. Init => CountedMarked
  BY DEF Init, CountedMarked, Flushing, Threads
<1>2. IInv /\ CountedMarked => UnsavedIsMarked
  <2>. SUFFICES ASSUME IInv, CountedMarked, Separate, NEW i \in Ids, mem[i] # db[i], i \notin dirty
                PROVE  Pending(i)
    BY DEF UnsavedIsMarked
  <2>1. Threads = Workers \cup {Flusher}
    BY DEF Threads
  <2>2. CASE i \in use.direct
    BY <2>1, <2>2 DEF IInv, Owned, InSync, Pending, Saving
  <2>3. CASE i \notin use.direct
    BY <2>1, <2>3 DEF CountedMarked, Marked, Flushing, Pending
  <2>. QED
    BY <2>2, <2>3
<1>3. IInv /\ CountedMarked /\ [Next]_vars => CountedMarked'
  BY CountedMarkedStep DEF IInv
<1>4. Spec => []CountedMarked
  BY <1>1, <1>3, InvCorrect, PTL DEF Spec
<1>. QED
  BY <1>2, <1>4, InvCorrect, PTL

-----------------------------------------------------------------------------
(* Traffic: slices in order.                                               *)

StrictOrder(R, S) ==
    /\ \A i \in S : <<i, i>> \notin R
    /\ \A i, j \in S : i # j => <<i, j>> \in R \/ <<j, i>> \in R
    /\ \A i, j, k \in S : <<i, j>> \in R /\ <<j, k>> \in R => <<i, k>> \in R

(* Arranged lists every member of a finite set once, in the order. *)
LEMMA ArrangedInOrder ==
    ASSUME NEW S, IsFiniteSet(S), NEW R, StrictOrder(R, S)
    PROVE  /\ Cardinality(S) \in Nat
           /\ Arranged(S, R) \in Bijection(1..Cardinality(S), S)
           /\ \A p, q \in 1..Cardinality(S) :
                 p < q => <<Arranged(S, R)[p], Arranged(S, R)[q]>> \in R
<1> DEFINE n == Cardinality(S)
           order == Arranged(S, R)
           Below(i) == {j \in S : <<j, i>> \in R}
           place == [i \in S |-> Cardinality(Below(i)) + 1]
<1>0. n \in Nat
  BY FS_CardinalityType
<1>1. ASSUME NEW i \in S
      PROVE  /\ IsFiniteSet(Below(i)) /\ Cardinality(Below(i)) \in Nat
             /\ place[i] = Cardinality(Below(i)) + 1 /\ place[i] \in 1..n
  <2>1. Below(i) \in SUBSET S /\ Below(i) \in SUBSET (S \ {i})
    BY DEF StrictOrder
  <2>2. IsFiniteSet(S \ {i}) /\ Cardinality(S \ {i}) = n - 1
    BY FS_RemoveElement
  <2>3. IsFiniteSet(Below(i)) /\ Cardinality(Below(i)) <= n - 1
    BY ONLY <2>1, <2>2, FS_Subset
  <2>4. Cardinality(Below(i)) \in Nat
    BY <2>3, FS_CardinalityType
  <2> QED
    BY <1>0, <2>3, <2>4
<1>2. ASSUME NEW i \in S, NEW j \in S, <<i, j>> \in R
      PROVE  place[i] < place[j]
  <2>1. Below(i) \cup {i} \in SUBSET Below(j) /\ i \notin Below(i)
    BY <1>2 DEF StrictOrder
  <2>2. IsFiniteSet(Below(i) \cup {i}) /\ Cardinality(Below(i) \cup {i}) = Cardinality(Below(i)) + 1
    BY <1>1, <2>1, FS_AddElement
  <2>3. Cardinality(Below(i) \cup {i}) <= Cardinality(Below(j))
    BY ONLY <1>1, <2>1, FS_Subset
  <2> QED
    BY <1>1, <2>2, <2>3
<1> HIDE DEF place
<1>3. place \in Injection(S, 1..n)
  <2>1. place \in [S -> 1..n]
    BY <1>1 DEF place
  <2>2. \A i, j \in S : place[i] = place[j] => i = j
    <3> SUFFICES ASSUME NEW i \in S, NEW j \in S, i # j PROVE place[i] # place[j]
      OBVIOUS
    <3>1. place[i] \in 1..n /\ place[j] \in 1..n
      BY <2>1
    <3>2. CASE <<i, j>> \in R
      BY <1>2, <3>1, <3>2
    <3>3. CASE <<j, i>> \in R
      BY <1>2, <3>1, <3>3
    <3> QED
      BY <3>2, <3>3 DEF StrictOrder
  <2> QED
    BY <2>1, <2>2 DEF Injection, IsInjective
<1>4. place \in Surjection(S, 1..n)
  <2>1. IsFiniteSet(1..n) /\ Cardinality(1..n) = n
    BY <1>0, FS_Interval
  <2> QED
    BY <1>3, <2>1, FS_Injection
<1>5. ASSUME NEW p \in 1..n
      PROVE  order[p] \in S /\ place[order[p]] = p
  <2>1. PICK i \in S : place[i] = p
    BY <1>4 DEF Surjection
  <2>2. Cardinality({j \in S : <<j, i>> \in R}) = p - 1
    BY <1>1, <2>1
  <2>3. order[p] = CHOOSE k \in S : Cardinality({j \in S : <<j, k>> \in R}) = p - 1
    BY DEF Arranged
  <2>4. order[p] \in S /\ Cardinality({j \in S : <<j, order[p]>> \in R}) = p - 1
    BY ONLY <2>2, <2>3, i \in S
  <2>5. place[order[p]] = Cardinality(Below(order[p])) + 1
    BY <1>1, <2>4
  <2>6. Cardinality(Below(order[p])) = p - 1
    BY <2>4
  <2> QED
    BY <2>4, <2>5, <2>6
<1>6. order \in [1..n -> S]
  BY <1>5 DEF Arranged
<1>7. ASSUME NEW i \in S PROVE \E p \in 1..n : order[p] = i
  BY <1>1, <1>3, <1>5 DEF Injection, IsInjective
<1>8. ASSUME NEW p \in 1..n, NEW q \in 1..n, p < q
      PROVE  <<order[p], order[q]>> \in R
  <2>1. order[p] # order[q] /\ ~(place[order[q]] < place[order[p]])
    BY <1>5, <1>8
  <2> QED
    BY <1>2, <1>5, <2>1 DEF StrictOrder
<1>9. order \in Injection(1..n, S)
  <2>1. ASSUME NEW p \in 1..n, NEW q \in 1..n, order[p] = order[q] PROVE p = q
    BY <1>5, <2>1
  <2> QED
    BY <1>6, <2>1 DEF Injection, IsInjective
<1>10. order \in Surjection(1..n, S)
  BY <1>6, <1>7 DEF Surjection
<1> QED
  BY <1>0, <1>8, <1>9, <1>10 DEF Bijection

(* Places in the order of their keys, equal ones as they come. *)
ByKey(n, key) ==
    {x \in (1..n) \X (1..n) :
        key[x[1]] < key[x[2]] \/ (x[1] < x[2] /\ ~(key[x[2]] < key[x[1]]))}

LEMMA ByKeyInOrder ==
    ASSUME NEW n \in Nat, NEW key \in [1..n -> Int]
    PROVE  LET order == Arranged(1..n, ByKey(n, key))
           IN  /\ order \in Bijection(1..n, 1..n)
               /\ \A p, q \in 1..n : p < q => /\ <<order[p], order[q]>> \in ByKey(n, key)
                                              /\ key[order[p]] <= key[order[q]]
<1> DEFINE order == Arranged(1..n, ByKey(n, key))
<1>1. StrictOrder(ByKey(n, key), 1..n)
  <2>1. \A i, j \in 1..n : <<i, j>> \in ByKey(n, key) <=>
            key[i] < key[j] \/ (i < j /\ ~(key[j] < key[i]))
    BY DEF ByKey
  <2> QED
    BY <2>1 DEF StrictOrder
<1>2. IsFiniteSet(1..n) /\ Cardinality(1..n) = n
  BY FS_Interval
<1>3. /\ order \in Bijection(1..n, 1..n)
      /\ \A p, q \in 1..n : p < q => <<order[p], order[q]>> \in ByKey(n, key)
  BY <1>1, <1>2, ArrangedInOrder
<1>4. ASSUME NEW p \in 1..n, NEW q \in 1..n, p < q PROVE key[order[p]] <= key[order[q]]
  <2>1. <<order[p], order[q]>> \in ByKey(n, key)
    BY <1>3, <1>4
  <2>2. order[p] \in 1..n /\ order[q] \in 1..n
    BY <1>3 DEF Bijection, Injection
  <2> HIDE DEF order
  <2> QED
    BY <2>1, <2>2 DEF ByKey
<1> QED
  BY <1>3, <1>4

-----------------------------------------------------------------------------
(* Traffic: the top callers.                                               *)

(* The list of top callers names tracked addresses, each once, with their  *)
(* calls, and no other tracked address has more.                           *)
Listed(callers, top) ==
    /\ callers \in [DOMAIN callers -> Nat]
    /\ top \in Seq([ip : DOMAIN callers, calls : Nat])
    /\ Len(top) <= TopCallerCount
    /\ \A i \in 1..Len(top) : top[i].calls = callers[top[i].ip]
    /\ \A i, j \in 1..Len(top) : top[i].ip = top[j].ip => i = j
    /\ \A ip \in DOMAIN callers :
         \/ \E i \in 1..Len(top) : top[i].ip = ip
         \/ Len(top) = TopCallerCount /\ \A i \in 1..Len(top) : callers[ip] <= top[i].calls

Descending(top) == \A i, j \in 1..Len(top) : i < j => top[i].calls >= top[j].calls

LEMMA InOrderIsListed ==
    ASSUME NEW callers, NEW top, Listed(callers, top)
    PROVE  Listed(callers, InOrder(top)) /\ Descending(InOrder(top))
<1> DEFINE n == Len(top)
           key == [i \in 1..n |-> -top[i].calls]
           order == Arranged(1..n, ByKey(n, key))
           new == InOrder(top)
<1>1. /\ n \in Nat /\ DOMAIN top = 1..n
      /\ \A i \in 1..n : top[i] \in [ip : DOMAIN callers, calls : Nat] /\ top[i].calls \in Nat
  <2>1. top \in Seq([ip : DOMAIN callers, calls : Nat])
    BY DEF Listed
  <2>2. \A S : top \in Seq(S) => n \in Nat /\ DOMAIN top = 1..n /\ \A i \in 1..n : top[i] \in S
    OBVIOUS
  <2>3. \A x \in [ip : DOMAIN callers, calls : Nat] : x.calls \in Nat
    OBVIOUS
  <2> QED
    BY ONLY <2>1, <2>2, <2>3
<1>2. key \in [1..n -> Int]
  BY <1>1
<1>3. /\ order \in Bijection(1..n, 1..n)
      /\ \A p, q \in 1..n : p < q => key[order[p]] <= key[order[q]]
  BY <1>1, <1>2, ByKeyInOrder
<1>4. Stable(top, LAMBDA a, b : a.calls > b.calls) = ByKey(n, key)
  BY <1>1 DEF Stable, ByKey
<1>5. new = [p \in 1..n |-> top[order[p]]]
  BY <1>1, <1>4 DEF InOrder, Sorted
<1> HIDE DEF order, new
<1>6. /\ \A p \in 1..n : order[p] \in 1..n /\ \E i \in 1..n : order[i] = p
      /\ \A p, q \in 1..n : order[p] = order[q] => p = q
  BY <1>3 DEF Bijection, Injection, Surjection, IsInjective
<1>7. new \in Seq([ip : DOMAIN callers, calls : Nat]) /\ Len(new) = n
  <2>1. \A p \in 1..n : top[order[p]] \in [ip : DOMAIN callers, calls : Nat]
    BY <1>1, <1>6
  <2> QED
    BY <1>1, <1>5, <2>1
<1>8. \A p \in 1..n : new[p] = top[order[p]]
  BY <1>5
<1>9. Listed(callers, new)
  <2>0. /\ \A i \in 1..n : top[i].calls = callers[top[i].ip]
        /\ \A i, j \in 1..n : top[i].ip = top[j].ip => i = j
    BY DEF Listed
  <2>1. \A i \in 1..n : new[i].calls = callers[new[i].ip]
    <3> TAKE i \in 1..n
    <3>1. order[i] \in 1..n /\ new[i] = top[order[i]]
      BY <1>6, <1>8
    <3> QED
      BY <2>0, <3>1
  <2>2. \A i, j \in 1..n : new[i].ip = new[j].ip => i = j
    <3> TAKE i, j \in 1..n
    <3>1. order[i] \in 1..n /\ new[i] = top[order[i]] /\ order[j] \in 1..n /\ new[j] = top[order[j]]
      BY <1>6, <1>8
    <3>2. order[i] = order[j] => i = j
      BY <1>6
    <3> QED
      BY <2>0, <3>1, <3>2
  <2>3. ASSUME NEW ip \in DOMAIN callers, \A i \in 1..n : new[i].ip # ip
        PROVE  n = TopCallerCount /\ \A i \in 1..n : callers[ip] <= new[i].calls
    <3>1. \A i \in 1..n : top[i].ip # ip
      BY <1>6, <1>8, <2>3
    <3>2. n = TopCallerCount /\ \A i \in 1..n : callers[ip] <= top[i].calls
      BY <3>1 DEF Listed
    <3> QED
      BY <1>6, <1>8, <3>2
  <2> QED
    BY <1>7, <2>1, <2>2, <2>3 DEF Listed
<1>10. ASSUME NEW i \in 1..n, NEW j \in 1..n, i < j PROVE new[i].calls >= new[j].calls
  <2>1. order[i] \in 1..n /\ order[j] \in 1..n
    BY <1>6
  <2>2. -top[order[i]].calls <= -top[order[j]].calls
    BY <1>3, <1>10, <2>1
  <2>3. top[order[i]].calls \in Nat /\ top[order[j]].calls \in Nat
    BY <1>1, <2>1
  <2>4. top[order[i]].calls >= top[order[j]].calls
    BY <2>2, <2>3
  <2> QED
    BY <1>8, <2>4
<1> QED
  BY <1>7, <1>9, <1>10 DEF new, Descending

(* The least of a list is there. *)
LEMMA MinIndexIsLeast ==
    ASSUME NEW S, NEW top \in Seq([ip : S, calls : Nat]), Len(top) # 0
    PROVE  /\ MinIndex(top) \in 1..Len(top)
           /\ \A j \in 1..Len(top) : top[MinIndex(top)].calls <= top[j].calls
<1> DEFINE n == Len(top)
           key == [i \in 1..n |-> top[i].calls]
           order == Arranged(1..n, ByKey(n, key))
           least == order[1]
<1>1. n \in Nat \ {0} /\ DOMAIN top = 1..n /\ \A i \in 1..n : top[i].calls \in Nat
  <2>1. \A T : top \in Seq(T) => n \in Nat /\ DOMAIN top = 1..n /\ \A i \in 1..n : top[i] \in T
    OBVIOUS
  <2>2. \A x \in [ip : S, calls : Nat] : x.calls \in Nat
    OBVIOUS
  <2>3. n \in Nat /\ DOMAIN top = 1..n /\ \A i \in 1..n : top[i] \in [ip : S, calls : Nat]
    BY ONLY <2>1, top \in Seq([ip : S, calls : Nat])
  <2> QED
    BY <2>2, <2>3
<1>2. key \in [1..n -> Int]
  BY <1>1
<1>3. /\ order \in Bijection(1..n, 1..n)
      /\ \A p, q \in 1..n : p < q => <<order[p], order[q]>> \in ByKey(n, key)
  BY <1>1, <1>2, ByKeyInOrder
<1>4. least \in 1..n
  <2>1. order \in [1..n -> 1..n] /\ 1 \in 1..n
    BY <1>1, <1>3 DEF Bijection, Injection
  <2> HIDE DEF order, n
  <2> QED
    BY <2>1
<1>5. ASSUME NEW j \in 1..n
      PROVE  top[least].calls < top[j].calls \/ (top[least].calls = top[j].calls /\ least <= j)
  <2>1. PICK q \in 1..n : order[q] = j
    BY <1>3 DEF Bijection, Surjection
  <2>2. CASE q = 1
    BY <1>1, <1>4, <2>1, <2>2
  <2>3. CASE q # 1
    <3>0. 1 \in 1..n /\ 1 < q
      BY <1>1, <2>3
    <3>1. <<least, j>> \in ByKey(n, key)
      BY <1>3, <2>1, <3>0
    <3> HIDE DEF least
    <3>2. top[least].calls < top[j].calls \/ (least < j /\ ~(top[j].calls < top[least].calls))
      BY <1>4, <3>1 DEF ByKey
    <3> QED
      BY <1>1, <1>4, <3>2
  <2> QED
    BY <2>2, <2>3
<1> HIDE DEF least
<1> DEFINE Least(i) == \A j \in DOMAIN top :
               top[i].calls < top[j].calls \/ (top[i].calls = top[j].calls /\ i <= j)
<1>6. \E i \in DOMAIN top : Least(i)
  BY <1>1, <1>4, <1>5
<1>7. MinIndex(top) = CHOOSE i \in DOMAIN top : Least(i)
  BY DEF MinIndex
<1> HIDE DEF Least
<1>8. MinIndex(top) \in DOMAIN top /\ Least(MinIndex(top))
  BY <1>6, <1>7
<1> QED
  BY <1>1, <1>8 DEF Least

(* What ObserveEvent does to the callers of an asset keeps the list right. *)
LEMMA EnteredIsListed ==
    ASSUME NEW callers, NEW top, Listed(callers, top), NEW ip,
           \A i \in 1..Len(top) : top[i].ip # ip,
           NEW calls, calls = Get(callers, ip, 0) + 1
    PROVE  Listed(Put(callers, ip, calls), Entered(top, [ip |-> ip, calls |-> calls]))
<1> DEFINE info == [ip |-> ip, calls |-> calls]
           after == Put(callers, ip, calls)
           new == Entered(top, info)
           n == Len(top)
           Info == [ip : DOMAIN callers, calls : Nat]
           InfoAfter == [ip : DOMAIN callers \cup {ip}, calls : Nat]
<1> USE AssetsAssumption
<1>0. TopCallerCount \in Nat \ {0}
  OBVIOUS
<1>1. calls \in Nat /\ \A x \in DOMAIN callers : callers[x] \in Nat
  BY DEF Listed, Get
<1>2. /\ DOMAIN after = DOMAIN callers \cup {ip} /\ after[ip] = calls
      /\ \A x \in DOMAIN callers : x # ip => after[x] = callers[x]
      /\ after \in [DOMAIN after -> Nat]
  BY <1>1 DEF Put
<1>3. /\ top \in Seq(Info) /\ n \in Nat /\ DOMAIN top = 1..n /\ n <= TopCallerCount
      /\ \A i \in 1..n : top[i] \in Info /\ top[i].ip \in DOMAIN callers /\ top[i].calls \in Nat
  <2>1. top \in Seq(Info) /\ n <= TopCallerCount
    BY DEF Listed
  <2>2. \A T : top \in Seq(T) => n \in Nat /\ DOMAIN top = 1..n /\ \A i \in 1..n : top[i] \in T
    OBVIOUS
  <2>3. \A x \in Info : x.calls \in Nat /\ x.ip \in DOMAIN callers
    OBVIOUS
  <2> HIDE DEF Info
  <2> QED
    BY <2>1, <2>2, <2>3
<1>4. /\ \A i \in 1..n : top[i].calls = callers[top[i].ip] /\ top[i].calls = after[top[i].ip]
      /\ \A i, j \in 1..n : top[i].ip = top[j].ip => i = j
  <2>1. /\ \A i \in 1..n : top[i].calls = callers[top[i].ip]
        /\ \A i, j \in 1..n : top[i].ip = top[j].ip => i = j
    BY DEF Listed
  <2> HIDE DEF after
  <2> QED
    BY <1>2, <1>3, <2>1
<1>5. ASSUME NEW x \in DOMAIN callers, \A i \in 1..n : top[i].ip # x
      PROVE  n = TopCallerCount /\ \A i \in 1..n : callers[x] <= top[i].calls
  BY <1>5 DEF Listed
<1>6. info \in InfoAfter /\ \A x \in Info : x \in InfoAfter
  BY <1>1
<1>7. top \in Seq(InfoAfter)
  <2> HIDE DEF Info, InfoAfter
  <2> QED
    BY <1>3, <1>6
<1>8. CASE n < TopCallerCount
  <2>1. new = Append(top, info)
    BY <1>8 DEF Entered
  <2>2. new \in Seq(InfoAfter) /\ Len(new) = n + 1
    <3> HIDE DEF info, InfoAfter
    <3> QED
      BY <1>6, <1>7, <2>1
  <2>3. new[n + 1] = info /\ \A i \in 1..n : new[i] = top[i]
    <3> HIDE DEF info
    <3> QED
      BY <1>3, <2>1
  <2>4. \A i \in 1..(n + 1) : new[i].calls = after[new[i].ip]
    <3> HIDE DEF after, new
    <3> TAKE i \in 1..(n + 1)
    <3>0. i \in 1..n \/ i = n + 1
      BY <1>3
    <3>1. CASE i = n + 1
      BY <1>2, <2>3, <3>1
    <3>2. CASE i \in 1..n
      BY <1>4, <2>3, <3>2
    <3> QED
      BY <3>0, <3>1, <3>2
  <2>5. \A i, j \in 1..(n + 1) : new[i].ip = new[j].ip => i = j
    <3> HIDE DEF new
    <3> TAKE i, j \in 1..(n + 1)
    <3>1. \A k \in 1..n : new[k].ip # ip
      BY <2>3
    <3>2. new[n + 1].ip = ip
      BY <2>3
    <3>3. i \in 1..n \/ i = n + 1
      BY <1>3
    <3>4. j \in 1..n \/ j = n + 1
      BY <1>3
    <3> QED
      BY <1>4, <2>3, <3>1, <3>2, <3>3, <3>4
  <2>6. \A x \in DOMAIN after : \E i \in 1..(n + 1) : new[i].ip = x
    <3> HIDE DEF new
    <3> TAKE x \in DOMAIN after
    <3>1. CASE x = ip
      <4>1. n + 1 \in 1..(n + 1) /\ new[n + 1].ip = ip
        BY <1>3, <2>3
      <4> QED
        BY <3>1, <4>1
    <3>2. CASE x # ip
      <4>1. PICK i \in 1..n : top[i].ip = x
        BY <1>0, <1>2, <1>3, <1>5, <1>8, <3>2
      <4>2. i \in 1..(n + 1) /\ new[i].ip = x
        BY <1>3, <2>3, <4>1
      <4> QED
        BY <4>2
    <3> QED
      BY <3>1, <3>2
  <2>7. Len(new) <= TopCallerCount
    BY <1>0, <1>3, <1>8, <2>2
  <2>8. new \in Seq([ip : DOMAIN after, calls : Nat])
    BY <1>2, <2>2
  <2>9. Listed(after, new)
    <3> HIDE DEF new, after, InfoAfter
    <3> QED
      BY <1>2, <2>2, <2>4, <2>5, <2>6, <2>7, <2>8 DEF Listed
  <2> QED
    BY <2>9
<1>9. CASE n = TopCallerCount
  <2> DEFINE m == MinIndex(top)
  <2>1. m \in 1..n /\ \A j \in 1..n : top[m].calls <= top[j].calls
    BY <1>0, <1>3, <1>9, MinIndexIsLeast
  <2> HIDE DEF m
  <2>2. CASE calls > top[m].calls
    <3>1. new = [top EXCEPT ![m] = info]
      BY <1>0, <1>9, <2>2 DEF Entered, m
    <3>2. new[m] = info /\ \A i \in 1..n : i # m => new[i] = top[i]
      BY <1>3, <2>1, <3>1
    <3>3. new \in Seq(InfoAfter) /\ Len(new) = n
      <4> HIDE DEF info, InfoAfter
      <4> QED
        BY <1>3, <1>6, <1>7, <2>1, <3>1
    <3> HIDE DEF new
    <3>4. \A i \in 1..n : new[i].calls = after[new[i].ip]
      <4> HIDE DEF after
      <4> QED
        BY <1>2, <1>4, <3>2
    <3>5. \A i, j \in 1..n : new[i].ip = new[j].ip => i = j
      <4> TAKE i, j \in 1..n
      <4>1. new[m].ip = ip
        BY <3>2
      <4> QED
        BY <1>4, <3>2, <4>1
    <3>6. \A i \in 1..n : new[i].calls >= top[m].calls
      BY <1>1, <1>3, <2>1, <2>2, <3>2
    <3>7. ASSUME NEW x \in DOMAIN after, \A i \in 1..n : new[i].ip # x
          PROVE  \A i \in 1..n : after[x] <= new[i].calls
      <4>1. x # ip /\ x \in DOMAIN callers /\ after[x] = callers[x]
        BY <1>2, <2>1, <3>2, <3>7
      <4>2. CASE x = top[m].ip
        BY <1>4, <2>1, <3>6, <4>1, <4>2
      <4>3. CASE x # top[m].ip
        <5>1. \A i \in 1..n : top[i].ip # x
          BY <3>2, <3>7, <4>3
        <5>2. callers[x] <= top[m].calls
          BY <1>5, <2>1, <4>1, <5>1
        <5>3. \A i \in 1..n : new[i].calls \in Nat
          BY <1>1, <1>3, <3>2
        <5> QED
          BY <1>1, <1>3, <2>1, <3>6, <4>1, <5>2, <5>3
      <4> QED
        BY <4>2, <4>3
    <3>8. new \in Seq([ip : DOMAIN after, calls : Nat])
      BY <1>2, <3>3
    <3>9. Listed(after, new)
      <4> HIDE DEF after, InfoAfter
      <4> QED
        BY <1>0, <1>2, <1>9, <3>3, <3>4, <3>5, <3>7, <3>8 DEF Listed
    <3> QED
      BY <3>9 DEF new
  <2>3. CASE ~(calls > top[m].calls)
    <3>1. new = top
      BY <1>0, <1>9, <2>3 DEF Entered, m
    <3>2. ASSUME NEW x \in DOMAIN after, \A i \in 1..n : top[i].ip # x
          PROVE  \A i \in 1..n : after[x] <= top[i].calls
      <4>1. CASE x = ip
        BY <1>1, <1>2, <1>3, <2>1, <2>3, <4>1
      <4>2. CASE x # ip
        BY <1>2, <1>5, <3>2, <4>2
      <4> QED
        BY <4>1, <4>2
    <3>3. top \in Seq([ip : DOMAIN after, calls : Nat])
      BY <1>2, <1>7
    <3>4. Listed(after, top)
      <4> HIDE DEF after, Info, InfoAfter
      <4> QED
        BY <1>0, <1>2, <1>4, <1>9, <3>2, <3>3 DEF Listed
    <3> QED
      BY <3>1, <3>4
  <2> QED
    BY <2>2, <2>3
<1> HIDE DEF n
<1>10. n < TopCallerCount \/ n = TopCallerCount
  BY <1>0, <1>3
<1> QED
  BY <1>8, <1>9, <1>10

(* The statistics of an asset are a record with these fields. *)
Shaped(st) ==
    st = [callers |-> st.callers, top |-> st.top, window |-> st.window, next |-> st.next, recent |-> st.recent]

LEMMA CalledIsListed ==
    ASSUME NEW st, Shaped(st), Listed(st.callers, st.top), Descending(st.top), NEW ip
    PROVE  LET new == Called(st, ip)
           IN  /\ Shaped(new) /\ Listed(new.callers, new.top) /\ Descending(new.top)
               /\ new.window = st.window /\ new.next = st.next /\ new.recent = st.recent
<1> DEFINE calls == Get(st.callers, ip, 0) + 1
           info == [ip |-> ip, calls |-> calls]
           here == {i \in DOMAIN st.top : st.top[i].ip = ip}
           after == Put(st.callers, ip, calls)
           i0 == CHOOSE i \in here : TRUE
           before == IF here # {} THEN [st.top EXCEPT ![i0] = info] ELSE Entered(st.top, info)
           new == [st EXCEPT !.callers = after, !.top = InOrder(before)]
           n == Len(st.top)
           Info == [ip : DOMAIN st.callers, calls : Nat]
<1>1. /\ n \in Nat /\ DOMAIN st.top = 1..n /\ st.top \in Seq(Info)
      /\ \A i \in 1..n : st.top[i] \in Info /\ st.top[i].ip \in DOMAIN st.callers /\ st.top[i].calls \in Nat
  <2>1. st.top \in Seq(Info)
    BY DEF Listed
  <2>2. \A T : st.top \in Seq(T) => n \in Nat /\ DOMAIN st.top = 1..n /\ \A i \in 1..n : st.top[i] \in T
    OBVIOUS
  <2>3. \A x \in Info : x.calls \in Nat /\ x.ip \in DOMAIN st.callers
    OBVIOUS
  <2> HIDE DEF Info
  <2> QED
    BY <2>1, <2>2, <2>3
<1>2. Listed(after, before)
  <2>1. CASE here = {}
    <3>1. \A i \in 1..n : st.top[i].ip # ip
      BY <1>1, <2>1
    <3>2. Listed(after, Entered(st.top, info))
      BY <3>1, EnteredIsListed
    <3> QED
      BY <2>1, <3>2
  <2>2. CASE here # {}
    <3>1. i0 \in 1..n /\ st.top[i0].ip = ip
      BY <1>1, <2>2
    <3> HIDE DEF i0
    <3>2. before = [st.top EXCEPT ![i0] = info]
      BY <2>2
    <3>3. /\ ip \in DOMAIN st.callers /\ calls = st.callers[ip] + 1 /\ st.callers[ip] = st.top[i0].calls
          /\ \A x \in DOMAIN st.callers : st.callers[x] \in Nat
      BY <1>1, <3>1 DEF Get, Listed
    <3>4. /\ DOMAIN after = DOMAIN st.callers /\ after[ip] = calls
          /\ \A x \in DOMAIN st.callers : x # ip => after[x] = st.callers[x]
          /\ after \in [DOMAIN after -> Nat]
      BY <3>3 DEF Put
    <3>5. info \in Info
      BY <3>3
    <3>6. before \in Seq(Info) /\ Len(before) = n
      <4> HIDE DEF info, Info, before
      <4> QED
        BY <1>1, <3>1, <3>2, <3>5
    <3>7. before[i0] = info /\ \A i \in 1..n : i # i0 => before[i] = st.top[i]
      <4> HIDE DEF info, before
      <4> QED
        BY <1>1, <3>1, <3>2
    <3> HIDE DEF before, after
    <3>8. /\ \A i \in 1..n : st.top[i].calls = st.callers[st.top[i].ip]
          /\ \A i, j \in 1..n : st.top[i].ip = st.top[j].ip => i = j
      BY DEF Listed
    <3>9. \A i \in 1..n : before[i].ip = st.top[i].ip
      BY <3>1, <3>7
    <3>10. \A i \in 1..n : before[i].calls = after[before[i].ip]
      <4> TAKE i \in 1..n
      <4>1. CASE i = i0
        BY <3>4, <3>7, <4>1
      <4>2. CASE i # i0
        <5>1. before[i] = st.top[i] /\ st.top[i].calls = st.callers[st.top[i].ip]
          BY <3>7, <3>8, <4>2
        <5>2. st.top[i].ip # ip /\ st.top[i].ip \in DOMAIN st.callers
          BY <1>1, <3>1, <3>8, <4>2
        <5> QED
          BY <3>4, <5>1, <5>2
      <4> QED
        BY <4>1, <4>2
    <3>11. \A i \in 1..n : before[i].calls >= st.top[i].calls
      <4> TAKE i \in 1..n
      <4>1. CASE i = i0
        BY <1>1, <3>1, <3>3, <3>7, <4>1
      <4>2. CASE i # i0
        BY <1>1, <3>7, <4>2
      <4> QED
        BY <4>1, <4>2
    <3>12. ASSUME NEW x \in DOMAIN after, \A i \in 1..n : before[i].ip # x
           PROVE  n = TopCallerCount /\ \A i \in 1..n : after[x] <= before[i].calls
      <4>1. x # ip /\ x \in DOMAIN st.callers /\ after[x] = st.callers[x]
        BY <3>1, <3>4, <3>9, <3>12
      <4>2. n = TopCallerCount /\ \A i \in 1..n : st.callers[x] <= st.top[i].calls
        <5>1. \A i \in 1..n : st.top[i].ip # x
          BY <3>9, <3>12
        <5> QED
          BY <4>1, <5>1 DEF Listed
      <4>3. \A i \in 1..n : before[i].calls \in Nat
        BY <1>1, <3>3, <3>7
      <4>4. \A i \in 1..n : st.callers[x] <= before[i].calls
        <5> TAKE i \in 1..n
        <5>1. before[i].calls \in Nat /\ st.top[i].calls \in Nat /\ st.callers[x] \in Nat
          BY <1>1, <3>3, <4>1, <4>3
        <5>2. st.callers[x] <= st.top[i].calls /\ before[i].calls >= st.top[i].calls
          BY <3>11, <4>2
        <5> QED
          BY ONLY <5>1, <5>2
      <4> QED
        BY <4>1, <4>2, <4>4
    <3>13. n <= TopCallerCount
      BY DEF Listed
    <3>14. \A i, j \in 1..n : before[i].ip = before[j].ip => i = j
      BY <3>8, <3>9
    <3>15. before \in Seq([ip : DOMAIN after, calls : Nat])
      BY <3>4, <3>6
    <3> HIDE DEF Info
    <3> QED
      BY <3>4, <3>6, <3>10, <3>12, <3>13, <3>14, <3>15 DEF Listed
  <2> QED
    BY <2>1, <2>2
<1>3. Called(st, ip) = st \/ Called(st, ip) = new
  BY DEF Called
<1>4. /\ new.callers = after /\ new.top = InOrder(before) /\ Shaped(new)
      /\ new.window = st.window /\ new.next = st.next /\ new.recent = st.recent
  <2> DEFINE a == after
             b == InOrder(before)
  <2> HIDE DEF a, b
  <2>1. new = [st EXCEPT !.callers = a, !.top = b]
    BY DEF a, b
  <2>2. /\ new.callers = a /\ new.top = b
        /\ new = [callers |-> a, top |-> b, window |-> st.window, next |-> st.next, recent |-> st.recent]
    <3>1. \A c, t, w, x, r : st = [callers |-> c, top |-> t, window |-> w, next |-> x, recent |-> r] =>
              new = [callers |-> a, top |-> b, window |-> w, next |-> x, recent |-> r]
      <4> HIDE DEF new
      <4> TAKE c, t, w, x, r
      <4> HAVE st = [callers |-> c, top |-> t, window |-> w, next |-> x, recent |-> r]
      <4> QED
        BY <2>1
    <3> HIDE DEF new
    <3>2. new = [callers |-> a, top |-> b, window |-> st.window, next |-> st.next, recent |-> st.recent]
      BY <3>1 DEF Shaped
    <3> QED
      BY <3>2
  <2> QED
    BY <2>2 DEF Shaped, a, b
<1>5. Listed(new.callers, new.top) /\ Descending(new.top)
  <2> HIDE DEF after, before, new
  <2> QED
    BY <1>2, <1>4, InOrderIsListed
<1> HIDE DEF new
<1> QED
  BY <1>3, <1>4, <1>5

-----------------------------------------------------------------------------
(* Traffic: the latencies.                                                 *)

(* The place in "recent" of what the window holds at p. *)
Came(st, p) ==
    LET n == Len(st.recent)
    IN  IF n < LatencyWindowSize THEN p
        ELSE IF p <= st.next THEN n - st.next + p ELSE n - st.next - LatencyWindowSize + p

(* The window is a ring of the latest latencies, the oldest of them at next. *)
Ring(st) ==
    /\ st.recent \in Seq(Nat) /\ st.window \in Seq(Nat)
    /\ Len(st.window) = IF Len(st.recent) < LatencyWindowSize THEN Len(st.recent) ELSE LatencyWindowSize
    /\ st.next \in 0..(LatencyWindowSize - 1)
    /\ Len(st.recent) <= LatencyWindowSize => st.next = 0
    /\ \A p \in 1..Len(st.window) : st.window[p] = st.recent[Came(st, p)]

LEMMA NextInRing ==
    ASSUME NEW w \in Nat \ {0}, NEW k \in 0..(w - 1)
    PROVE  (k + 1) % w = IF k + 1 = w THEN 0 ELSE k + 1
<1>1. CASE k + 1 = w
  <2>1. w % w = 0
    OBVIOUS
  <2> QED
    BY <1>1, <2>1
<1>2. CASE k + 1 # w
  BY <1>2
<1> QED
  BY <1>1, <1>2

LEMMA TimedIsRing ==
    ASSUME NEW st, Shaped(st), Ring(st), NEW ms \in Nat
    PROVE  LET new == Timed(st, ms)
           IN  /\ Shaped(new) /\ Ring(new)
               /\ new.callers = st.callers /\ new.top = st.top
<1> DEFINE new == Timed(st, ms)
           n == Len(st.recent)
           size == LatencyWindowSize
<1>0. size \in Nat \ {0}
  BY AssetsAssumption
<1>1. /\ st.recent \in Seq(Nat) /\ st.window \in Seq(Nat) /\ n \in Nat /\ Len(st.window) \in Nat
      /\ Len(st.window) = IF n < size THEN n ELSE size
      /\ st.next \in 0..(size - 1)
      /\ n <= size => st.next = 0
      /\ \A p \in 1..Len(st.window) : st.window[p] = st.recent[Came(st, p)]
  BY DEF Ring
<1>2. CASE ms = 0
  BY <1>2 DEF Timed
<1>3. CASE ms # 0 /\ Len(st.window) < size
  <2> DEFINE w == Append(st.window, ms)
             r == Append(st.recent, ms)
  <2>1. new = [st EXCEPT !.window = w, !.recent = r]
    BY <1>3 DEF Timed
  <2> HIDE DEF w, r, new
  <2>2. \A c, t, v, x, q : st = [callers |-> c, top |-> t, window |-> v, next |-> x, recent |-> q] =>
            new = [callers |-> c, top |-> t, window |-> w, next |-> x, recent |-> r]
    <3> TAKE c, t, v, x, q
    <3> HAVE st = [callers |-> c, top |-> t, window |-> v, next |-> x, recent |-> q]
    <3> QED
      BY <2>1
  <2>3. new = [callers |-> st.callers, top |-> st.top, window |-> w, next |-> st.next, recent |-> r]
    BY <2>2 DEF Shaped
  <2>4. /\ w \in Seq(Nat) /\ r \in Seq(Nat) /\ Len(w) = n + 1 /\ Len(r) = n + 1 /\ n < size
        /\ w[n + 1] = ms /\ r[n + 1] = ms
        /\ \A p \in 1..n : w[p] = st.window[p] /\ r[p] = st.recent[p]
    BY <1>0, <1>1, <1>3 DEF w, r
  <2>5. st.next = 0 /\ \A p \in 1..n : st.window[p] = st.recent[p]
    <3>1. n < size /\ Len(st.window) = n /\ st.next = 0
      BY <1>0, <1>1, <2>4
    <3>2. \A p : Came(st, p) = p
      BY <3>1 DEF Came
    <3> QED
      BY <1>1, <3>1, <3>2
  <2>6. \A p \in 1..(n + 1) : w[p] = r[p]
    <3> TAKE p \in 1..(n + 1)
    <3>1. p = n + 1 \/ p \in 1..n
      BY <1>1
    <3> QED
      BY <2>4, <2>5, <3>1
  <2>7. \A p \in 1..(n + 1) : Came(new, p) = p
    <3>1. Len(new.recent) = n + 1 /\ new.next = 0
      BY <2>3, <2>4, <2>5
    <3>2. size \in Nat /\ n \in Nat /\ n < size
      BY <1>0, <1>1, <2>4
    <3> HIDE DEF n
    <3> QED
      BY ONLY <3>1, <3>2 DEF Came
  <2>8. Ring(new)
    BY <1>0, <1>1, <2>3, <2>4, <2>5, <2>6, <2>7 DEF Ring
  <2> QED
    BY <2>3, <2>8 DEF Shaped, new
<1>4. CASE ms # 0 /\ ~(Len(st.window) < size)
  <2> DEFINE w == [st.window EXCEPT ![st.next + 1] = ms]
             r == Append(st.recent, ms)
             k == (st.next + 1) % size
  <2>1. new = [st EXCEPT !.window = w, !.next = k, !.recent = r]
    BY <1>4 DEF Timed
  <2> HIDE DEF w, r, k, new
  <2>2. \A c, t, v, x, q : st = [callers |-> c, top |-> t, window |-> v, next |-> x, recent |-> q] =>
            new = [callers |-> c, top |-> t, window |-> w, next |-> k, recent |-> r]
    <3> TAKE c, t, v, x, q
    <3> HAVE st = [callers |-> c, top |-> t, window |-> v, next |-> x, recent |-> q]
    <3> QED
      BY <2>1
  <2>3. new = [callers |-> st.callers, top |-> st.top, window |-> w, next |-> k, recent |-> r]
    BY <2>2 DEF Shaped
  <2>4. k = IF st.next + 1 = size THEN 0 ELSE st.next + 1
    BY <1>0, <1>1, NextInRing DEF k
  <2>5. n >= size /\ Len(st.window) = size
    BY <1>0, <1>1, <1>4
  <2>6. /\ w \in Seq(Nat) /\ r \in Seq(Nat) /\ Len(w) = size /\ Len(r) = n + 1
        /\ w[st.next + 1] = ms /\ r[n + 1] = ms
        /\ \A p \in 1..size : p # st.next + 1 => w[p] = st.window[p]
        /\ \A p \in 1..n : r[p] = st.recent[p]
    BY <1>0, <1>1, <2>5 DEF w, r
  <2>10. new.recent = r /\ new.next = k /\ new.window = w
    BY <2>3
  <2>7. ASSUME NEW p \in 1..size PROVE w[p] = r[Came(new, p)]
    <3>0. Came(new, p) = IF p <= k THEN n + 1 - k + p ELSE n + 1 - k - size + p
      <4>1. Len(new.recent) = n + 1 /\ new.next = k
        BY <2>6, <2>10
      <4>2. size \in Nat /\ n \in Nat /\ n >= size /\ k \in Int
        BY <1>0, <1>1, <2>4, <2>5
      <4> HIDE DEF n
      <4> QED
        BY ONLY <4>1, <4>2 DEF Came
    <3>00. Came(st, p) = IF p <= st.next THEN n - st.next + p ELSE n - st.next - size + p
      BY <1>0, <1>1, <2>5 DEF Came
    <3>01. size \in Nat \ {0} /\ n \in Nat /\ n >= size /\ st.next \in 0..(size - 1) /\ (n = size => st.next = 0)
      BY <1>0, <1>1, <2>5
    <3> HIDE DEF n, size
    <3>1. CASE p = st.next + 1
      <4>1. Came(new, p) = n + 1
        BY ONLY <2>4, <3>0, <3>01, <3>1
      <4> QED
        BY <2>6, <3>1, <4>1
    <3>2. CASE p # st.next + 1
      <4>1. Came(new, p) = Came(st, p) /\ Came(st, p) \in 1..n
        BY ONLY <2>4, <3>0, <3>00, <3>01, <3>2, p \in 1..size
      <4> QED
        BY <1>1, <2>5, <2>6, <3>2, <4>1
    <3> QED
      BY <3>1, <3>2
  <2>8. k \in 0..(size - 1)
    BY <1>0, <1>1, <2>4
  <2>9. Ring(new)
    BY <1>0, <1>1, <2>4, <2>5, <2>6, <2>7, <2>8, <2>10 DEF Ring
  <2> QED
    BY <2>3, <2>9 DEF Shaped, new
<1> QED
  BY <1>2, <1>3, <1>4

(* What corresponds one to one is equally many. *)
LEMMA SameNumber ==
    ASSUME NEW S, NEW T, NEW h \in Bijection(S, T), NEW A \in SUBSET S, NEW B \in SUBSET T,
           IsFiniteSet(A), \A x \in S : x \in A <=> h[x] \in B
    PROVE  IsFiniteSet(B) /\ Cardinality(B) = Cardinality(A)
<1> DEFINE g == [x \in A |-> h[x]]
<1>1. /\ h \in [S -> T] /\ \A x, y \in S : h[x] = h[y] => x = y
      /\ \A y \in T : \E x \in S : h[x] = y
  BY DEF Bijection, Injection, Surjection, IsInjective
<1>2. g \in [A -> B] /\ \A x, y \in A : g[x] = g[y] => x = y
  BY <1>1
<1>3. \A y \in B : \E x \in A : g[x] = y
  BY <1>1
<1>4. g \in Bijection(A, B)
  <2> HIDE DEF g
  <2> QED
    BY <1>2, <1>3 DEF Bijection, Injection, Surjection, IsInjective
<1>5. ExistsBijection(A, B)
  BY <1>4 DEF ExistsBijection
<1> QED
  BY <1>5, FS_Bijection

LEMMA PercentileOfRing ==
    ASSUME NEW st, Ring(st), st.recent # <<>>
    PROVE  LET first == Later(1, Len(st.recent) - LatencyWindowSize + 1)
               latest == {i \in DOMAIN st.recent : i >= first}
               upTo(x) == Cardinality({i \in latest : st.recent[i] <= x})
           IN  /\ 20 * upTo(P95(st.window)) >= 19 * Cardinality(latest)
               /\ \E i \in latest : st.recent[i] = P95(st.window)
               /\ 20 * upTo(P95(st.window) - 1) < 19 * Cardinality(latest)
<1> DEFINE n == Len(st.recent)
           size == LatencyWindowSize
           many == Len(st.window)
           first == Later(1, n - size + 1)
           latest == {i \in DOMAIN st.recent : i >= first}
           h == [p \in 1..many |-> Came(st, p)]
           key == [p \in 1..many |-> st.window[p]]
           order == Arranged(1..many, ByKey(many, key))
           sorted == Sorted(st.window, <)
           rank == (95 * many + 99) \div 100
           UpTo(x) == {i \in latest : st.recent[i] <= x}
           Low(x) == {q \in 1..many : sorted[q] <= x}
<1>0. size \in Nat \ {0}
  BY AssetsAssumption
<1>1. /\ st.recent \in Seq(Nat) /\ st.window \in Seq(Nat) /\ n \in Nat \ {0}
      /\ many = (IF n < size THEN n ELSE size) /\ many \in Nat \ {0}
      /\ st.next \in 0..(size - 1) /\ (n <= size => st.next = 0)
      /\ \A p \in 1..many : st.window[p] = st.recent[Came(st, p)] /\ st.window[p] \in Nat
  <2>1. st.recent \in Seq(Nat) /\ st.window \in Seq(Nat)
    BY DEF Ring
  <2>2. n \in Nat \ {0}
    BY <2>1
  <2>3. many = IF n < size THEN n ELSE size
    BY DEF Ring
  <2>4. \A p \in 1..many : st.window[p] \in Nat
    BY <2>1
  <2> QED
    BY <1>0, <2>1, <2>2, <2>3, <2>4 DEF Ring
<1>a. /\ n \in Nat \ {0} /\ size \in Nat \ {0} /\ many \in Nat \ {0}
      /\ many = (IF n < size THEN n ELSE size)
      /\ st.next \in 0..(size - 1) /\ (n <= size => st.next = 0)
  BY <1>0, <1>1
<1>2. latest = {i \in 1..n : i >= n - many + 1}
  BY <1>0, <1>1 DEF Later
<1>3. h \in Bijection(1..many, latest)
  <2>1. \A p \in 1..many : h[p] = IF n < size THEN p
                                  ELSE IF p <= st.next THEN n - st.next + p ELSE n - st.next - size + p
    BY DEF Came
  <2>2. \A p \in 1..many : h[p] \in latest
    <3> HIDE DEF n, size, many, h, latest
    <3> QED
      BY ONLY <1>a, <1>2, <2>1
  <2>3. \A p, q \in 1..many : h[p] = h[q] => p = q
    <3> HIDE DEF n, size, many, h, latest
    <3> QED
      BY ONLY <1>a, <2>1
  <2>4. ASSUME NEW i \in latest PROVE \E p \in 1..many : h[p] = i
    <3> DEFINE p == IF n < size THEN i
                    ELSE IF i > n - st.next THEN i - n + st.next ELSE i - n + st.next + size
    <3> HIDE DEF n, size, many, h, latest
    <3>1. p \in 1..many /\ h[p] = i
      BY ONLY <1>a, <1>2, <2>1, i \in latest
    <3> QED
      BY <3>1
  <2>5. h \in [1..many -> latest]
    BY <2>2
  <2> HIDE DEF h, latest
  <2> QED
    BY <2>3, <2>4, <2>5 DEF Bijection, Injection, Surjection, IsInjective
<1>4. /\ order \in Bijection(1..many, 1..many)
      /\ \A p, q \in 1..many : p < q => key[order[p]] <= key[order[q]]
  <2>1. key \in [1..many -> Int]
    BY <1>1
  <2> HIDE DEF key
  <2> QED
    BY <1>1, <2>1, ByKeyInOrder
<1>5. sorted = [p \in 1..many |-> st.window[order[p]]]
  <2>1. DOMAIN st.window = 1..many
    BY <1>1
  <2>2. Stable(st.window, <) = ByKey(many, key)
    <3>1. \A p \in 1..many : key[p] = st.window[p] /\ key[p] \in Nat
      BY <1>1
    <3> HIDE DEF key, many
    <3> QED
      BY ONLY <2>1, <3>1 DEF Stable, ByKey
  <2> QED
    BY <2>1, <2>2 DEF Sorted
<1>6. \A p \in 1..many : order[p] \in 1..many
  <2> HIDE DEF order
  <2> QED
    BY <1>4 DEF Bijection, Injection
<1>7. /\ \A p \in 1..many : sorted[p] \in Nat /\ sorted[p] = st.window[order[p]]
                            /\ st.window[order[p]] = st.recent[h[order[p]]]
      /\ \A p, q \in 1..many : p < q => sorted[p] <= sorted[q]
  <2>1. \A p \in 1..many : key[p] = st.window[p] /\ h[p] = Came(st, p)
    OBVIOUS
  <2> HIDE DEF key, order, h, sorted
  <2> QED
    BY <1>1, <1>4, <1>5, <1>6, <2>1
<1> DEFINE back == [q \in 1..many |-> h[order[q]]]
<1>8. back \in Bijection(1..many, latest)
  <2>1. /\ h \in [1..many -> latest] /\ \A x, y \in 1..many : h[x] = h[y] => x = y
        /\ \A y \in latest : \E x \in 1..many : h[x] = y
    <3> HIDE DEF h, latest
    <3> QED
      BY <1>3 DEF Bijection, Injection, Surjection, IsInjective
  <2>2. /\ order \in [1..many -> 1..many] /\ \A x, y \in 1..many : order[x] = order[y] => x = y
        /\ \A y \in 1..many : \E x \in 1..many : order[x] = y
    <3> HIDE DEF order
    <3> QED
      BY <1>4 DEF Bijection, Injection, Surjection, IsInjective
  <2> HIDE DEF h, order, latest
  <2>3. back \in [1..many -> latest] /\ \A x, y \in 1..many : back[x] = back[y] => x = y
    BY <2>1, <2>2
  <2>4. \A y \in latest : \E x \in 1..many : back[x] = y
    BY <2>1, <2>2
  <2> HIDE DEF back
  <2> QED
    BY <2>3, <2>4 DEF Bijection, Injection, Surjection, IsInjective
<1>9. IsFiniteSet(1..many) /\ Cardinality(1..many) = many
  BY <1>1, FS_Interval
<1>10. Cardinality(latest) = many
  <2>1. \A x \in 1..many : x \in 1..many <=> back[x] \in latest
    <3> HIDE DEF back, latest
    <3> QED
      BY <1>8 DEF Bijection, Injection
  <2> HIDE DEF back, latest
  <2> QED
    BY <1>8, <1>9, <2>1, SameNumber
<1>11. ASSUME NEW x
       PROVE  Cardinality(UpTo(x)) = Cardinality(Low(x)) /\ IsFiniteSet(Low(x))
  <2>1. IsFiniteSet(Low(x)) /\ Low(x) \in SUBSET (1..many)
    <3>1. Low(x) \in SUBSET (1..many)
      OBVIOUS
    <3> HIDE DEF Low
    <3> QED
      BY <1>9, <3>1, FS_Subset
  <2>2. UpTo(x) \in SUBSET latest
    OBVIOUS
  <2>3. \A q \in 1..many : back[q] \in latest
    <3> HIDE DEF back, latest
    <3> QED
      BY <1>8 DEF Bijection, Injection
  <2>4. \A q \in 1..many : q \in Low(x) <=> back[q] \in UpTo(x)
    <3>1. \A q \in 1..many : sorted[q] = st.recent[back[q]]
      BY <1>7
    <3> HIDE DEF back, latest, sorted
    <3> QED
      BY <2>3, <3>1
  <2> HIDE DEF back, latest, Low, UpTo
  <2> QED
    BY <1>8, <2>1, <2>2, <2>4, SameNumber
<1>12. rank \in 1..many /\ 20 * rank >= 19 * many /\ 20 * (rank - 1) < 19 * many
  <2> HIDE DEF many
  <2>1. many \in Nat \ {0}
    BY <1>a
  <2> QED
    BY ONLY <2>1
<1>13. P95(st.window) = sorted[rank]
  BY DEF P95
<1>b. rank \in Nat \ {0} /\ rank \in Int /\ rank - 1 \in Nat /\ rank <= many /\ many \in Nat
  <2> HIDE DEF rank, many
  <2> QED
    BY ONLY <1>a, <1>12
<1> HIDE DEF rank
<1>14. Cardinality(Low(sorted[rank])) >= rank
  <2>1. 1..rank \in SUBSET Low(sorted[rank])
    <3> SUFFICES ASSUME NEW q \in 1..rank PROVE q \in 1..many /\ sorted[q] <= sorted[rank]
      OBVIOUS
    <3>1. q \in 1..many /\ (q < rank \/ q = rank)
      BY <1>1, <1>12
    <3> HIDE DEF sorted
    <3>2. sorted[rank] \in Nat /\ (q < rank => sorted[q] <= sorted[rank])
      BY <1>7, <1>12, <3>1
    <3> QED
      BY ONLY <3>1, <3>2
  <2>2. IsFiniteSet(1..rank) /\ Cardinality(1..rank) = rank
    BY <1>b, FS_Interval
  <2>3. IsFiniteSet(Low(sorted[rank]))
    BY <1>11
  <2> HIDE DEF Low
  <2> QED
    BY <2>1, <2>2, <2>3, FS_Subset
<1>15. Cardinality(Low(sorted[rank] - 1)) <= rank - 1
  <2>1. Low(sorted[rank] - 1) \in SUBSET (1..(rank - 1))
    <3> SUFFICES ASSUME NEW q \in 1..many, sorted[q] <= sorted[rank] - 1 PROVE q \in 1..(rank - 1)
      OBVIOUS
    <3> HIDE DEF sorted
    <3>0. sorted[q] \in Nat /\ sorted[rank] \in Nat /\ (rank < q => sorted[rank] <= sorted[q])
      BY <1>7, <1>12
    <3>1. ~(rank < q) /\ q # rank
      BY ONLY <1>b, <3>0, q \in 1..many, sorted[q] <= sorted[rank] - 1
    <3> QED
      BY <1>1, <1>12, <3>1
  <2>2. IsFiniteSet(1..(rank - 1)) /\ Cardinality(1..(rank - 1)) = rank - 1
    <3> DEFINE r == rank - 1
    <3>1. r \in Nat
      BY <1>b
    <3> HIDE DEF r
    <3>2. IsFiniteSet(1..r) /\ Cardinality(1..r) = r
      BY ONLY <3>1, FS_Interval
    <3> QED
      BY <3>2 DEF r
  <2> HIDE DEF Low
  <2> QED
    BY <2>1, <2>2, FS_Subset
<1>16. /\ Cardinality(Low(sorted[rank])) \in Nat /\ Cardinality(Low(sorted[rank] - 1)) \in Nat
  <2> HIDE DEF Low
  <2> QED
    BY <1>11, FS_CardinalityType
<1>17. /\ 20 * Cardinality(UpTo(sorted[rank])) >= 19 * many
       /\ 20 * Cardinality(UpTo(sorted[rank] - 1)) < 19 * many
  <2>1. /\ Cardinality(UpTo(sorted[rank])) = Cardinality(Low(sorted[rank]))
        /\ Cardinality(UpTo(sorted[rank] - 1)) = Cardinality(Low(sorted[rank] - 1))
    BY <1>11
  <2> DEFINE a == Cardinality(Low(sorted[rank]))
             b == Cardinality(Low(sorted[rank] - 1))
  <2>2. a \in Nat /\ b \in Nat /\ a >= rank /\ b <= rank - 1 /\ rank \in Nat /\ many \in Nat
    BY <1>b, <1>12, <1>14, <1>15, <1>16
  <2> HIDE DEF a, b, many
  <2>3. 20 * a >= 19 * many /\ 20 * b < 19 * many
    BY ONLY <1>12, <2>2
  <2> QED
    BY <2>1, <2>3 DEF a, b
<1>18. \E i \in latest : st.recent[i] = sorted[rank]
  <2>1. back[rank] \in latest
    <3> HIDE DEF back, latest
    <3> QED
      BY <1>8, <1>12 DEF Bijection, Injection
  <2>2. st.recent[back[rank]] = sorted[rank]
    BY <1>7, <1>12
  <2> QED
    BY <2>1, <2>2
<1> QED
  BY <1>10, <1>13, <1>17, <1>18

-----------------------------------------------------------------------------
(* Traffic: the inventory.                                                 *)

Statistics(st) ==
    Shaped(st) /\ Listed(st.callers, st.top) /\ Descending(st.top) /\ Ring(st)

InventoryRight ==
    /\ mode \in Modes
    /\ \A p \in DOMAIN assets : Statistics(assets[p])
    /\ \A p \in DOMAIN saved : Statistics(saved[p])

LEMMA NewStatsRight == Statistics(NewStats)
<1>1. Shaped(NewStats) /\ Descending(NewStats.top)
  BY DEF Shaped, NewStats, Descending
<1>2. Listed(NewStats.callers, NewStats.top)
  <2>1. TopCallerCount \in Nat \ {0}
    BY AssetsAssumption
  <2>2. DOMAIN NewStats.callers = {} /\ NewStats.callers \in [DOMAIN NewStats.callers -> Nat] /\ NewStats.top = <<>>
    BY DEF NewStats, Nothing
  <2>3. \A T : <<>> \in Seq(T)
    OBVIOUS
  <2> QED
    BY <2>1, <2>2, <2>3 DEF Listed
<1>3. Ring(NewStats)
  <2>1. LatencyWindowSize \in Nat \ {0}
    BY AssetsAssumption
  <2>2. NewStats.recent = <<>> /\ NewStats.window = <<>> /\ NewStats.next = 0
    BY DEF NewStats
  <2> QED
    BY <2>1, <2>2 DEF Ring
<1> QED
  BY <1>1, <1>2, <1>3 DEF Statistics

LEMMA CountRight ==
    ASSUME InventoryRight, NEW o, o.ms \in Nat, Count(o), mode' = mode
    PROVE  InventoryRight'
<1> DEFINE old == Get(assets, o.path, NewStats)
           called == Called(old, o.src)
           new == Timed(called, o.ms)
<1>1. Statistics(old)
  BY NewStatsRight DEF InventoryRight, Get
<1>2. Statistics(called)
  <2> HIDE DEF old
  <2>1. /\ Shaped(called) /\ Listed(called.callers, called.top) /\ Descending(called.top)
        /\ called.window = old.window /\ called.next = old.next /\ called.recent = old.recent
    BY <1>1, CalledIsListed DEF Statistics
  <2>2. Ring(called)
    BY <1>1, <2>1 DEF Statistics, Ring, Came
  <2> QED
    BY <2>1, <2>2 DEF Statistics
<1>3. Statistics(new)
  <2> HIDE DEF called
  <2>1. Shaped(new) /\ Ring(new) /\ new.callers = called.callers /\ new.top = called.top
    BY <1>2, TimedIsRing DEF Statistics
  <2> HIDE DEF new
  <2> QED
    BY <1>2, <2>1 DEF Statistics
<1>4. assets' = Put(assets, o.path, new) /\ saved' = saved
  BY DEF Count
<1>5. \A p \in DOMAIN assets' : assets'[p] = new \/ (p \in DOMAIN assets /\ assets'[p] = assets[p])
  <2> HIDE DEF new
  <2>1. assets' = [x \in DOMAIN assets \cup {o.path} |-> IF x = o.path THEN new ELSE assets[x]]
    BY <1>4 DEF Put
  <2> QED
    BY ONLY <2>1
<1> HIDE DEF new
<1> QED
  BY <1>3, <1>4, <1>5 DEF InventoryRight

(* What is counted, saved and loaded keeps the statistics right. *)
LEMMA InventoryAlways == TrafficSpec => []InventoryRight
<1>1. TrafficInit => InventoryRight
  BY DEF TrafficInit, AssetsInit, Nothing, InventoryRight
<1>2. InventoryRight /\ [TrafficNext]_trafficVars => InventoryRight'
  <2> SUFFICES ASSUME InventoryRight, [TrafficNext]_trafficVars PROVE InventoryRight'
    OBVIOUS
  <2>0. mode' = mode
    BY DEF TrafficNext, Process, Raise, SetStatus, Clean, Flush, Restart, Tick, trafficVars
  <2>1. CASE Process
    <3>1. PICK o \in mode.observations : Count(o)
      BY <2>1 DEF Process
    <3>2. o.ms \in Nat
      BY TrafficAssumption DEF InventoryRight
    <3> QED
      BY <2>0, <3>1, <3>2, CountRight
  <2>2. CASE Flush
    <3>1. assets' = assets /\ DOMAIN saved' = DOMAIN assets /\ \A p \in DOMAIN assets : saved'[p] = assets[p]
      BY <2>2 DEF Flush, SaveAssets, Stored
    <3> QED
      BY <2>0, <3>1 DEF InventoryRight
  <2>3. CASE Restart
    BY <2>0, <2>3 DEF Restart, Load, InventoryRight
  <2>4. CASE assets' = assets /\ saved' = saved
    BY <2>0, <2>4 DEF InventoryRight
  <2>5. Process \/ Flush \/ Restart \/ (assets' = assets /\ saved' = saved)
    BY DEF TrafficNext, Raise, SetStatus, Clean, Tick, trafficVars, assetVars
  <2> QED
    BY <2>1, <2>2, <2>3, <2>4, <2>5
<1> QED
  BY <1>1, <1>2, PTL DEF TrafficSpec

(* The top callers are those with the most calls, in order, for any number *)
(* of addresses and any size of the list, across restarts (ObserveEvent).  *)
THEOREM TopCorrect == TrafficSpec => []TopAreTheMost
<1>1. InventoryRight => TopAreTheMost
  <2> SUFFICES ASSUME InventoryRight, NEW p \in DOMAIN assets
               PROVE  LET st == assets[p]
                          out == DOMAIN st.callers \ {st.top[i].ip : i \in DOMAIN st.top}
                      IN  /\ \A i \in DOMAIN st.top : st.top[i].calls = st.callers[st.top[i].ip]
                          /\ \A i, j \in DOMAIN st.top : i < j =>
                               st.top[i].calls >= st.top[j].calls /\ st.top[i].ip # st.top[j].ip
                          /\ \A ip \in out : Len(st.top) = TopCallerCount
                                             /\ st.callers[ip] <= st.top[TopCallerCount].calls
    BY DEF TopAreTheMost
  <2> DEFINE st == assets[p]
             n == Len(st.top)
  <2>1. Listed(st.callers, st.top) /\ Descending(st.top)
    BY DEF InventoryRight, Statistics
  <2> HIDE DEF st
  <2>2. DOMAIN st.top = 1..n /\ n \in Nat
    <3>1. \A T : st.top \in Seq(T) => DOMAIN st.top = 1..n /\ n \in Nat
      OBVIOUS
    <3>2. st.top \in Seq([ip : DOMAIN st.callers, calls : Nat])
      BY <2>1 DEF Listed
    <3> QED
      BY ONLY <3>1, <3>2
  <2>3. /\ \A i \in 1..n : st.top[i].calls = st.callers[st.top[i].ip]
        /\ \A i, j \in 1..n : st.top[i].ip = st.top[j].ip => i = j
        /\ \A i, j \in 1..n : i < j => st.top[i].calls >= st.top[j].calls
    BY <2>1 DEF Listed, Descending
  <2>4. ASSUME NEW ip \in DOMAIN st.callers, \A i \in 1..n : st.top[i].ip # ip
        PROVE  n = TopCallerCount /\ st.callers[ip] <= st.top[TopCallerCount].calls
    <3>1. n = TopCallerCount /\ \A i \in 1..n : st.callers[ip] <= st.top[i].calls
      BY <2>1, <2>4 DEF Listed
    <3>2. n \in 1..n
      BY <2>2, <3>1, AssetsAssumption
    <3> QED
      BY <3>1, <3>2
  <2>5. \A i, j \in 1..n : i < j => st.top[i].ip # st.top[j].ip
    BY <2>2, <2>3
  <2> QED
    BY <2>2, <2>3, <2>4, <2>5 DEF st
<1> QED
  BY <1>1, InventoryAlways, PTL

(* The 95th percentile is taken over the latest latencies, for any size of *)
(* the window, before and after it comes round and across restarts         *)
(* (recordLatency, toDoc).                                                 *)
THEOREM PercentileCorrect == TrafficSpec => []PercentileIsOfLatest
<1>1. InventoryRight => PercentileIsOfLatest
  <2> SUFFICES ASSUME InventoryRight PROVE PercentileIsOfLatest
    OBVIOUS
  <2>1. \A p \in DOMAIN assets : Ring(assets[p])
    BY DEF InventoryRight, Statistics
  <2> QED
    BY <2>1, PercentileOfRing DEF PercentileIsOfLatest
<1> QED
  BY <1>1, InventoryAlways, PTL

-----------------------------------------------------------------------------
(* Traffic: the activity of sources.                                       *)

(* What is kept comes from the places it is kept at, in their order. *)
LEMMA KeptAtPlaces ==
    ASSUME NEW s, NEW n \in Nat, DOMAIN s = 1..n, NEW places \in SUBSET (1..n)
    PROVE  LET m == Cardinality(places)
               order == Arranged(places, Ascending(places))
           IN  /\ m \in Nat /\ order \in Bijection(1..m, places)
               /\ KeptAt(s, places) = [p \in 1..m |-> s[order[p]]]
<1>1. IsFiniteSet(places)
  <2>1. IsFiniteSet(1..n)
    BY FS_Interval
  <2> QED
    BY <2>1, FS_Subset
<1>2. StrictOrder(Ascending(places), places)
  BY DEF StrictOrder, Ascending
<1>3. DOMAIN Arranged(places, Ascending(places)) = 1..Cardinality(places)
  BY DEF Arranged
<1> QED
  BY <1>1, <1>2, <1>3, ArrangedInOrder DEF KeptAt

(* Unindexing leaves an address its other actors, once each. *)
LEMMA RestOfList ==
    ASSUME NEW S, NEW s \in Seq(S), NEW gone, NEW places, places = {i \in DOMAIN s : s[i] \notin gone}
    PROVE  LET rest == KeptAt(s, places)
           IN  /\ rest \in Seq(S) /\ Range(rest) = Range(s) \ gone
               /\ IsInjective(s) => IsInjective(rest)
<1> DEFINE n == Len(s)
           m == Cardinality(places)
           order == Arranged(places, Ascending(places))
           rest == KeptAt(s, places)
<1>1. n \in Nat /\ DOMAIN s = 1..n /\ \A i \in 1..n : s[i] \in S
  OBVIOUS
<1>2. places = {i \in 1..n : s[i] \notin gone} /\ places \in SUBSET (1..n)
  BY <1>1
<1>3. rest = KeptAt(s, places)
  OBVIOUS
<1>4. m \in Nat /\ order \in Bijection(1..m, places) /\ rest = [p \in 1..m |-> s[order[p]]]
  <2> HIDE DEF rest, n
  <2>1. /\ m \in Nat /\ order \in Bijection(1..m, places)
        /\ KeptAt(s, places) = [p \in 1..m |-> s[order[p]]]
    <3>1. n \in Nat
      BY <1>1
    <3>2. DOMAIN s = 1..n
      BY <1>1
    <3>3. places \in SUBSET (1..n)
      BY <1>2
    <3> QED
      BY ONLY <3>1, <3>2, <3>3, KeptAtPlaces
  <2> QED
    BY <1>3, <2>1
<1> HIDE DEF rest, n, order, m
<1>5. /\ \A p \in 1..m : order[p] \in places
      /\ \A p, q \in 1..m : order[p] = order[q] => p = q
      /\ \A i \in places : \E p \in 1..m : order[p] = i
  BY <1>4 DEF Bijection, Injection, Surjection, IsInjective
<1>6. \A p \in 1..m : order[p] \in 1..n /\ rest[p] = s[order[p]] /\ s[order[p]] \in S /\ s[order[p]] \notin gone
  BY <1>1, <1>2, <1>4, <1>5
<1>7. rest \in Seq(S)
  <2>1. rest \in [1..m -> S]
    BY <1>4, <1>6
  <2> QED
    BY <1>4, <2>1
<1>8. DOMAIN rest = 1..m
  BY <1>4
<1>9. Range(rest) = Range(s) \ gone
  <2>1. ASSUME NEW x \in Range(rest) PROVE x \in Range(s) \ gone
    BY <1>1, <1>6, <1>8, <2>1 DEF Range
  <2>2. ASSUME NEW x \in Range(s) \ gone PROVE x \in Range(rest)
    <3>1. PICK i \in 1..n : s[i] = x
      BY <1>1 DEF Range
    <3>2. i \in places
      BY <1>2, <3>1
    <3>3. PICK p \in 1..m : order[p] = i
      BY <1>5, <3>2
    <3> QED
      BY <1>6, <1>8, <3>1, <3>3 DEF Range
  <2> QED
    BY <2>1, <2>2
<1>10. ASSUME IsInjective(s) PROVE IsInjective(rest)
  BY <1>1, <1>5, <1>6, <1>8, <1>10 DEF IsInjective
<1> QED
  BY <1>7, <1>9, <1>10 DEF rest

(* What is known of the endpoints an actor touched. *)
Touched(touches) ==
    /\ IsFiniteSet(DOMAIN touches)
    /\ \A e \in DOMAIN touches : touches[e].calls \in Nat

(* There is a choice of the topmost touches, so topTouches makes one. *)
LEMMA TopTouchesChosen ==
    ASSUME NEW touches, Touched(touches)
    PROVE  /\ TopTouches(touches) \in SUBSET DOMAIN touches
           /\ DOMAIN touches # {} => TopTouches(touches) # {}
           /\ \A e \in TopTouches(touches), f \in DOMAIN touches \ TopTouches(touches) :
                  ~Higher(touches[f], touches[e])
<1> DEFINE D == DOMAIN touches
           n == Cardinality(D)
           k == EndpointsPerActor
           Topmost(T) == \A e \in T, f \in D \ T : ~Higher(touches[f], touches[e])
<1>1. CASE n <= k
  BY <1>1 DEF TopTouches
<1>2. CASE ~(n <= k)
  <2>0. k \in Nat \ {0} /\ n \in Nat /\ k < n /\ ExistsBijection(1..n, D)
    <3>1. k \in Nat \ {0}
      BY GraphAssumption
    <3>2. n \in Nat /\ ExistsBijection(1..n, D)
      BY FS_CardinalityType DEF Touched
    <3> QED
      BY <1>2, <3>1, <3>2
  <2>1. PICK b \in Bijection(1..n, D) : TRUE
    BY <2>0 DEF ExistsBijection
  <2>2. /\ b \in [1..n -> D] /\ \A i, j \in 1..n : b[i] = b[j] => i = j
        /\ \A e \in D : \E i \in 1..n : b[i] = e
    BY DEF Bijection, Injection, Surjection, IsInjective
  <2> DEFINE score == [i \in 1..n |-> (IF touches[b[i]].fields # {} THEN 2 ELSE 0)
                                       + (IF touches[b[i]].failed THEN 1 ELSE 0)]
             calls == [i \in 1..n |-> touches[b[i]].calls]
             Above(i, j) == score[i] > score[j] \/ (score[i] = score[j] /\ calls[i] > calls[j])
             R == {x \in (1..n) \X (1..n) : Above(x[1], x[2]) \/ (x[1] < x[2] /\ ~Above(x[2], x[1]))}
             order == Arranged(1..n, R)
             T == {b[order[p]] : p \in 1..k}
  <2>3. \A i, j \in 1..n : Higher(touches[b[i]], touches[b[j]]) <=> Above(i, j)
    BY DEF Higher
  <2>4. \A i \in 1..n : score[i] \in Nat /\ calls[i] \in Nat
    BY <2>2 DEF Touched
  <2> HIDE DEF score, calls
  <2>5. StrictOrder(R, 1..n)
    <3>1. \A i, j \in 1..n : <<i, j>> \in R <=> Above(i, j) \/ (i < j /\ ~Above(j, i))
      OBVIOUS
    <3> HIDE DEF R, n
    <3>2. \A i \in 1..n : <<i, i>> \notin R
      BY <2>4, <3>1
    <3>3. \A i, j \in 1..n : i # j => <<i, j>> \in R \/ <<j, i>> \in R
      BY <2>0, <2>4, <3>1
    <3>4. \A i, j, l \in 1..n : <<i, j>> \in R /\ <<j, l>> \in R => <<i, l>> \in R
      BY <2>0, <2>4, <3>1
    <3> QED
      BY <3>2, <3>3, <3>4 DEF StrictOrder
  <2>6. /\ order \in Bijection(1..n, 1..n)
        /\ \A p, q \in 1..n : p < q => <<order[p], order[q]>> \in R
    <3>1. IsFiniteSet(1..n) /\ Cardinality(1..n) = n
      BY <2>0, FS_Interval
    <3> HIDE DEF R, n
    <3> QED
      BY <2>5, <3>1, ArrangedInOrder
  <2>7. /\ order \in [1..n -> 1..n] /\ \A p, q \in 1..n : order[p] = order[q] => p = q
        /\ \A i \in 1..n : \E p \in 1..n : order[p] = i
    <3> HIDE DEF order
    <3> QED
      BY <2>6 DEF Bijection, Injection, Surjection, IsInjective
  <2>8. \A p, q \in 1..n : p < q => ~Above(order[q], order[p])
    <3> SUFFICES ASSUME NEW p \in 1..n, NEW q \in 1..n, p < q PROVE ~Above(order[q], order[p])
      OBVIOUS
    <3>1. order[p] \in 1..n /\ order[q] \in 1..n /\ <<order[p], order[q]>> \in R
      BY <2>6, <2>7
    <3> HIDE DEF order, n
    <3> QED
      BY <2>4, <3>1
  <2> HIDE DEF order, n
  <2>9. T \in SUBSET D /\ Cardinality(T) = k
    <3> DEFINE g == [p \in 1..k |-> b[order[p]]]
    <3>1. \A p \in 1..k : p \in 1..n
      BY <2>0
    <3>2. T \in SUBSET D
      BY <2>2, <2>7, <3>1
    <3>3. g \in [1..k -> T] /\ \A p, q \in 1..k : g[p] = g[q] => p = q
      BY <2>2, <2>7, <3>1
    <3>4. \A e \in T : \E p \in 1..k : g[p] = e
      OBVIOUS
    <3>5. g \in Bijection(1..k, T)
      <4> HIDE DEF g, T
      <4> QED
        BY <3>3, <3>4 DEF Bijection, Injection, Surjection, IsInjective
    <3>6. ExistsBijection(1..k, T)
      BY <3>5 DEF ExistsBijection
    <3>7. IsFiniteSet(1..k) /\ Cardinality(1..k) = k
      BY <2>0, FS_Interval
    <3> HIDE DEF T
    <3> QED
      BY <3>2, <3>6, <3>7, FS_Bijection
  <2>10. Topmost(T)
    <3> SUFFICES ASSUME NEW e \in T, NEW f \in D \ T PROVE ~Higher(touches[f], touches[e])
      OBVIOUS
    <3>1. PICK p \in 1..k : e = b[order[p]]
      OBVIOUS
    <3>2. PICK i \in 1..n : b[i] = f
      BY <2>2
    <3>3. PICK q \in 1..n : order[q] = i
      BY <2>7
    <3>4. ~(q \in 1..k)
      BY <3>2, <3>3
    <3>5. p \in 1..n /\ p < q
      BY <2>0, <3>4
    <3>6. ~Above(order[q], order[p]) /\ order[p] \in 1..n
      BY <2>7, <2>8, <3>5
    <3> QED
      BY <2>3, <3>1, <3>2, <3>3, <3>6
  <2> DEFINE Possible == {S \in SUBSET D : Cardinality(S) = k}
  <2> HIDE DEF T
  <2>11. TopTouches(touches) = CHOOSE S \in Possible : Topmost(S)
    BY <1>2 DEF TopTouches, kSubset, n
  <2>12. T \in Possible
    BY <2>9
  <2> HIDE DEF Possible, Topmost
  <2>13. TopTouches(touches) \in Possible /\ Topmost(TopTouches(touches))
    BY <2>10, <2>11, <2>12
  <2> USE DEF Possible, Topmost
  <2>14. TopTouches(touches) # {}
    BY <2>0, <2>13, FS_EmptySet
  <2> QED
    BY <2>13, <2>14
<1> QED
  BY <1>1, <1>2

LEMMA TouchingTouched ==
    ASSUME NEW touches, Touched(touches), NEW o
    PROVE  Touched(Touching(touches, o))
<1> DEFINE e == Endpoint(o)
           old == Get(touches, e, [calls |-> 0, failed |-> FALSE, fields |-> {}])
           now0 == [calls |-> old.calls + 1, failed |-> old.failed \/ o.failed, fields |-> old.fields \cup Range(o.fields)]
           new == Put(touches, e, now0)
<1>1. Touching(touches, o) = touches \/ Touching(touches, o) = new
  BY DEF Touching
<1>2. old.calls \in Nat
  BY DEF Touched, Get
<1>3. now0.calls \in Nat
  BY <1>2
<1> HIDE DEF now0, e
<1>4. DOMAIN new = DOMAIN touches \cup {e} /\ \A x \in DOMAIN new : new[x] = now0 \/ (x \in DOMAIN touches /\ new[x] = touches[x])
  BY DEF Put
<1>5. IsFiniteSet(DOMAIN new)
  BY <1>4, FS_AddElement DEF Touched
<1> HIDE DEF new
<1>6. Touched(new)
  BY <1>3, <1>4, <1>5 DEF Touched
<1> QED
  BY <1>1, <1>6

(* The list of an address has exactly its actors, each once.               *)
ActivityRight ==
    /\ \A k \in DOMAIN actors :
         Touched(actors[k].touches) /\ k[1] \in DOMAIN byIP /\ k \in Range(byIP[k[1]])
    /\ \A ip \in DOMAIN byIP :
         /\ byIP[ip] \in Seq(DOMAIN actors) /\ byIP[ip] # <<>> /\ IsInjective(byIP[ip])
         /\ \A k \in Range(byIP[ip]) : k[1] = ip

LEMMA SequenceRange ==
    ASSUME NEW S, NEW s \in Seq(S)
    PROVE  Range(s) \subseteq S /\ Range(s) = {s[i] : i \in 1..Len(s)} /\ (s # <<>> <=> Range(s) # {})
<1>1. DOMAIN s = 1..Len(s) /\ Len(s) \in Nat /\ \A i \in 1..Len(s) : s[i] \in S
  OBVIOUS
<1>2. s # <<>> => 1 \in 1..Len(s)
  BY <1>1
<1>3. s = <<>> => DOMAIN s = {}
  BY <1>1
<1> QED
  BY <1>1, <1>2, <1>3 DEF Range

LEMMA AppendNew ==
    ASSUME NEW S, NEW s \in Seq(S), NEW k \in S, k \notin Range(s), IsInjective(s)
    PROVE  LET new == Append(s, k)
           IN  new \in Seq(S) /\ new # <<>> /\ IsInjective(new) /\ Range(new) = Range(s) \cup {k}
<1> DEFINE new == Append(s, k)
           n == Len(s)
<1>1. /\ n \in Nat /\ DOMAIN s = 1..n /\ new \in Seq(S) /\ Len(new) = n + 1 /\ DOMAIN new = 1..(n + 1)
      /\ new[n + 1] = k /\ \A i \in 1..n : new[i] = s[i]
  OBVIOUS
<1> HIDE DEF new, n
<1>2. \A i \in 1..(n + 1) : i = n + 1 \/ i \in 1..n
  BY <1>1
<1>3. n + 1 \in 1..(n + 1) /\ \A i \in 1..n : i \in 1..(n + 1)
  BY <1>1
<1>4. \A i \in 1..n : s[i] # k
  BY <1>1 DEF Range
<1>5. IsInjective(new)
  BY <1>1, <1>2, <1>4 DEF IsInjective
<1>6. Range(new) = Range(s) \cup {k}
  BY <1>1, <1>2, <1>3 DEF Range
<1>7. new # <<>>
  BY <1>1
<1> QED
  BY <1>1, <1>5, <1>6, <1>7 DEF new

LEMMA ObserveActivity ==
    ASSUME ActivityRight, NEW o, Observe(o)
    PROVE  ActivityRight'
<1> DEFINE key == <<o.src, o.account>>
           a == Get(actors, key, NewActor)
           touches == Touching(a.touches, o)
           entry == [calls |-> a.calls + 1, last |-> Later(a.last, o.at), touches |-> touches]
           old == Get(byIP, o.src, <<>>)
           list == Append(old, key)
<1>1. CASE UNCHANGED <<actors, byIP>>
  BY <1>1 DEF ActivityRight
<1>2. CASE ~UNCHANGED <<actors, byIP>>
  <2>1. /\ actors' = Put(actors, key, entry)
        /\ byIP' = IF key \in DOMAIN actors THEN byIP ELSE Put(byIP, o.src, list)
    BY <1>2 DEF Observe
  <2>2. Touched(touches)
    <3>1. Touched(a.touches)
      <4>1. CASE key \in DOMAIN actors
        BY <4>1 DEF ActivityRight, Get
      <4>2. CASE key \notin DOMAIN actors
        <5>1. DOMAIN a.touches = {}
          BY <4>2 DEF Get, NewActor, Nothing
        <5> QED
          BY <5>1, FS_EmptySet DEF Touched
      <4> QED
        BY <4>1, <4>2
    <3> HIDE DEF a
    <3> QED
      BY <3>1, TouchingTouched
  <2>3. entry.touches = touches
    OBVIOUS
  <2> HIDE DEF key, entry, touches, a
  <2>4. DOMAIN actors' = DOMAIN actors \cup {key}
    BY <2>1 DEF Put
  <2>5. \A k \in DOMAIN actors' : actors'[k] = entry \/ (k \in DOMAIN actors /\ actors'[k] = actors[k])
    BY <2>1 DEF Put
  <2>6. \A k \in DOMAIN actors' : Touched(actors'[k].touches)
    BY <2>2, <2>3, <2>5 DEF ActivityRight
  <2>7. \A ip \in DOMAIN byIP : byIP[ip] \in Seq(DOMAIN actors')
    BY <2>4 DEF ActivityRight
  <2>8. CASE key \in DOMAIN actors
    <3>1. byIP' = byIP /\ DOMAIN actors' = DOMAIN actors
      BY <2>1, <2>4, <2>8
    <3> QED
      BY <2>6, <3>1 DEF ActivityRight
  <2>9. CASE key \notin DOMAIN actors
    <3>1. key[1] = o.src
      BY DEF key
    <3>2. byIP' = Put(byIP, o.src, list)
      BY <2>1, <2>9
    <3>3. /\ old \in Seq(DOMAIN actors) /\ IsInjective(old) /\ \A k \in Range(old) : k[1] = o.src
      <4>1. CASE o.src \in DOMAIN byIP
        BY <4>1 DEF ActivityRight, Get
      <4>2. CASE o.src \notin DOMAIN byIP
        <5>1. old = <<>>
          BY <4>2 DEF Get
        <5>2. DOMAIN <<>> = {} /\ <<>> \in Seq(DOMAIN actors)
          OBVIOUS
        <5> HIDE DEF old
        <5>3. DOMAIN old = {} /\ old \in Seq(DOMAIN actors)
          BY <5>1, <5>2
        <5> QED
          BY <5>3 DEF IsInjective, Range
      <4> QED
        BY <4>1, <4>2
    <3>4. Range(old) \subseteq DOMAIN actors
      BY <3>3, SequenceRange
    <3>5. /\ list \in Seq(DOMAIN actors') /\ list # <<>> /\ IsInjective(list)
          /\ Range(list) = Range(old) \cup {key}
      <4>1. old \in Seq(DOMAIN actors') /\ key \in DOMAIN actors' /\ key \notin Range(old)
        BY <2>4, <2>9, <3>3, <3>4
      <4> HIDE DEF old
      <4> QED
        BY <3>3, <4>1, AppendNew
    <3>6. /\ DOMAIN byIP' = DOMAIN byIP \cup {o.src} /\ byIP'[o.src] = list
          /\ \A ip \in DOMAIN byIP : ip # o.src => byIP'[ip] = byIP[ip]
      <4> HIDE DEF list
      <4> QED
        BY <3>2 DEF Put
    <3> HIDE DEF list
    <3>7. \A k \in DOMAIN actors : k[1] = o.src => k \in Range(old)
      BY DEF ActivityRight, Get
    <3>8. \A k \in DOMAIN actors' : k[1] \in DOMAIN byIP' /\ k \in Range(byIP'[k[1]])
      <4> SUFFICES ASSUME NEW k \in DOMAIN actors' PROVE k[1] \in DOMAIN byIP' /\ k \in Range(byIP'[k[1]])
        OBVIOUS
      <4>1. CASE k[1] = o.src
        <5>1. k \in Range(list)
          BY <2>4, <3>5, <3>7, <4>1
        <5> QED
          BY <3>6, <4>1, <5>1
      <4>2. CASE k[1] # o.src
        <5>1. k \in DOMAIN actors
          BY <2>4, <3>1, <4>2
        <5>2. k[1] \in DOMAIN byIP /\ k \in Range(byIP[k[1]])
          BY <5>1 DEF ActivityRight
        <5> QED
          BY <3>6, <4>2, <5>2
      <4> QED
        BY <4>1, <4>2
    <3>9. ASSUME NEW ip \in DOMAIN byIP'
          PROVE  /\ byIP'[ip] \in Seq(DOMAIN actors') /\ byIP'[ip] # <<>> /\ IsInjective(byIP'[ip])
                 /\ \A k \in Range(byIP'[ip]) : k[1] = ip
      <4>1. CASE ip = o.src
        BY <3>1, <3>3, <3>5, <3>6, <4>1
      <4>2. CASE ip # o.src
        <5>1. ip \in DOMAIN byIP /\ byIP'[ip] = byIP[ip]
          BY <3>6, <4>2
        <5> QED
          BY <2>7, <5>1 DEF ActivityRight
      <4> QED
        BY <4>1, <4>2
    <3> QED
      BY <2>6, <3>8, <3>9 DEF ActivityRight
  <2> QED
    BY <2>8, <2>9
<1> QED
  BY <1>1, <1>2

LEMMA PruneActivity ==
    ASSUME ActivityRight, NEW cutoff, Prune(cutoff)
    PROVE  ActivityRight'
<1> DEFINE gone == {k \in DOMAIN actors : actors[k].last < cutoff}
           Rest(ip) == KeptAt(byIP[ip], {i \in DOMAIN byIP[ip] : byIP[ip][i] \notin gone})
<1>1. actors' = Without(actors, gone) /\ byIP' = Unindexed(byIP, gone)
  BY DEF Prune
<1> HIDE DEF gone
<1>2. DOMAIN actors' = DOMAIN actors \ gone /\ \A k \in DOMAIN actors' : actors'[k] = actors[k]
  BY <1>1 DEF Without
<1>3. byIP' = [ip \in {x \in DOMAIN byIP : Rest(x) # <<>>} |-> Rest(ip)]
  BY <1>1 DEF Unindexed, Selected
<1>4. ASSUME NEW ip \in DOMAIN byIP
      PROVE  /\ Rest(ip) \in Seq(DOMAIN actors) /\ Range(Rest(ip)) = Range(byIP[ip]) \ gone
             /\ IsInjective(Rest(ip)) /\ Rest(ip) \in Seq(DOMAIN actors')
             /\ Rest(ip) # <<>> <=> Range(Rest(ip)) # {}
  <2>1. byIP[ip] \in Seq(DOMAIN actors) /\ IsInjective(byIP[ip])
    BY DEF ActivityRight
  <2>2. /\ Rest(ip) \in Seq(DOMAIN actors) /\ Range(Rest(ip)) = Range(byIP[ip]) \ gone
        /\ IsInjective(Rest(ip))
    <3> DEFINE s == byIP[ip]
               places == {i \in DOMAIN s : s[i] \notin gone}
               rest == KeptAt(s, places)
    <3>1. s \in Seq(DOMAIN actors) /\ IsInjective(s) /\ places = {i \in DOMAIN s : s[i] \notin gone}
      BY <2>1
    <3> HIDE DEF s, places
    <3>2. /\ rest \in Seq(DOMAIN actors) /\ Range(rest) = Range(s) \ gone
          /\ IsInjective(s) => IsInjective(rest)
      BY ONLY <3>1, RestOfList
    <3> QED
      BY <3>1, <3>2 DEF s, places
  <2> HIDE DEF Rest
  <2>3. Range(Rest(ip)) \subseteq DOMAIN actors'
    BY <1>2, <2>1, <2>2, SequenceRange
  <2>4. Rest(ip) \in Seq(DOMAIN actors')
    <3>1. \A s, S, T : s \in Seq(S) /\ Range(s) \subseteq T => s \in Seq(T)
      <4> TAKE s, S, T
      <4> HAVE s \in Seq(S) /\ Range(s) \subseteq T
      <4>1. Range(s) = {s[i] : i \in 1..Len(s)}
        BY SequenceRange
      <4>2. \A i \in 1..Len(s) : s[i] \in T
        BY <4>1
      <4> QED
        BY <4>2
    <3> QED
      BY <2>2, <2>3, <3>1
  <2> QED
    BY <2>2, <2>4, SequenceRange
<1> HIDE DEF Rest
<1>5. DOMAIN byIP' = {x \in DOMAIN byIP : Rest(x) # <<>>} /\ \A ip \in DOMAIN byIP' : byIP'[ip] = Rest(ip)
  BY <1>3
<1>6. ASSUME NEW k \in DOMAIN actors'
      PROVE  Touched(actors'[k].touches) /\ k[1] \in DOMAIN byIP' /\ k \in Range(byIP'[k[1]])
  <2>1. Touched(actors[k].touches) /\ k[1] \in DOMAIN byIP /\ k \in Range(byIP[k[1]]) /\ k \notin gone
    BY <1>2 DEF ActivityRight
  <2>2. k \in Range(Rest(k[1]))
    BY <1>4, <2>1
  <2> QED
    BY <1>2, <1>4, <1>5, <2>1, <2>2
<1>7. ASSUME NEW ip \in DOMAIN byIP'
      PROVE  /\ byIP'[ip] \in Seq(DOMAIN actors') /\ byIP'[ip] # <<>> /\ IsInjective(byIP'[ip])
             /\ \A k \in Range(byIP'[ip]) : k[1] = ip
  <2>1. ip \in DOMAIN byIP /\ byIP'[ip] = Rest(ip) /\ Rest(ip) # <<>>
    BY <1>5
  <2>2. \A k \in Range(Rest(ip)) : k[1] = ip
    BY <1>4, <2>1 DEF ActivityRight
  <2> QED
    BY <1>4, <2>1, <2>2
<1> QED
  BY <1>6, <1>7 DEF ActivityRight

LEMMA ActivityAlways == TrafficSpec => []ActivityRight
<1>1. TrafficInit => ActivityRight
  BY DEF TrafficInit, GraphInit, Nothing, ActivityRight
<1>2. ActivityRight /\ [TrafficNext]_trafficVars => ActivityRight'
  <2> SUFFICES ASSUME ActivityRight, [TrafficNext]_trafficVars PROVE ActivityRight'
    OBVIOUS
  <2>1. CASE Process
    <3>1. PICK o : Observe(o)
      BY <2>1 DEF Process
    <3> QED
      BY <3>1, ObserveActivity
  <2>2. CASE Clean
    <3>1. Prune(now - Retention)
      BY <2>2 DEF Clean
    <3> QED
      BY <3>1, PruneActivity
  <2>3. CASE Restart
    BY <2>3 DEF Restart, Nothing, ActivityRight
  <2>4. CASE actors' = actors /\ byIP' = byIP
    BY <2>4 DEF ActivityRight
  <2>5. Process \/ Clean \/ Restart \/ (actors' = actors /\ byIP' = byIP)
    BY DEF TrafficNext, Raise, SetStatus, Flush, Tick, trafficVars, graphVars
  <2> QED
    BY <2>1, <2>2, <2>3, <2>4, <2>5
<1> QED
  BY <1>1, <1>2, PTL DEF TrafficSpec

(* What is drawn of a source is what is known of it, whatever the caps and *)
(* whenever actors are pruned (touchActor, unindex, topTouches).           *)
THEOREM ActivityCorrect == TrafficSpec => []ActivityIsDrawn
<1>1. ActivityRight => ActivityIsDrawn
  <2> SUFFICES ASSUME ActivityRight PROVE ActivityIsDrawn
    OBVIOUS
  <2>1. UNION {Range(byIP[ip]) : ip \in DOMAIN byIP} = DOMAIN actors
    <3>1. \A ip \in DOMAIN byIP : Range(byIP[ip]) \subseteq DOMAIN actors
      BY SequenceRange DEF ActivityRight
    <3>2. \A k \in DOMAIN actors : k[1] \in DOMAIN byIP /\ k \in Range(byIP[k[1]])
      BY DEF ActivityRight
    <3> QED
      BY <3>1, <3>2
  <2>2. \A ip \in DOMAIN byIP : byIP[ip] # <<>> /\ IsInjective(byIP[ip])
    BY DEF ActivityRight
  <2>3. ASSUME NEW k \in DOMAIN actors
        PROVE  LET leaky == {e \in DOMAIN actors[k].touches : actors[k].touches[e].fields # {}}
               IN  /\ k[2] # NoAccount => k[2] \in AccountsAt(k[1])
                   /\ leaky # {} => leaky \cap EndpointsOf(k) # {}
    <3> DEFINE t == actors[k].touches
               leaky == {e \in DOMAIN t : t[e].fields # {}}
    <3>1. k[2] # NoAccount => k[2] \in AccountsAt(k[1])
      BY DEF ActivityRight, AccountsAt, Get
    <3>2. Touched(t)
      BY DEF ActivityRight
    <3>3. /\ TopTouches(t) \in SUBSET DOMAIN t
          /\ DOMAIN t # {} => TopTouches(t) # {}
          /\ \A e \in TopTouches(t), f \in DOMAIN t \ TopTouches(t) : ~Higher(t[f], t[e])
      BY <3>2, TopTouchesChosen
    <3>4. ASSUME leaky # {}, leaky \cap TopTouches(t) = {} PROVE FALSE
      <4>1. PICK f \in DOMAIN t : t[f].fields # {}
        BY <3>4
      <4>2. PICK e \in TopTouches(t) : TRUE
        BY <3>3
      <4>3. f \notin TopTouches(t) /\ t[e].fields = {}
        BY <3>3, <3>4, <4>1
      <4>4. ~Higher(t[f], t[e])
        BY <3>3, <4>3
      <4>5. Higher(t[f], t[e])
        BY <4>1, <4>3 DEF Higher
      <4> QED
        BY <4>4, <4>5
    <3> QED
      BY <3>1, <3>4 DEF EndpointsOf
  <2> QED
    BY <2>1, <2>2, <2>3 DEF ActivityIsDrawn
<1> QED
  BY <1>1, ActivityAlways, PTL

-----------------------------------------------------------------------------
(* Traffic: the flow graph.                                                *)

Seen(x) == x.calls \in Nat \ {0} /\ x.last \in Int

(* The service of an endpoint, and the edge between them. *)
Owner(n) == <<"service", n[2]>>
OwnerEdge(n) == <<Owner(n), n>>

NodesRight(nodes) ==
    \A n \in DOMAIN nodes :
        /\ Seen(nodes[n])
        /\ n[1] = "endpoint" => Owner(n) \in DOMAIN nodes /\ nodes[Owner(n)].last >= nodes[n].last

(* An edge lies between nodes that were seen no earlier and called as often; *)
(* a field hangs on an endpoint, and the endpoint on its service.           *)
EdgeRight(nodes, edges, e) ==
    /\ Seen(edges[e]) /\ e = <<e[1], e[2]>>
    /\ \A end \in {e[1], e[2]} :
         /\ end \in DOMAIN nodes /\ nodes[end].last >= edges[e].last
         /\ e[2][1] # "field" => nodes[end].calls >= edges[e].calls
    /\ e[2][1] = "endpoint" => e[1] = Owner(e[2])
    /\ e[1][1] = "endpoint" <=> e[2][1] = "field"
    /\ e[2][1] = "field" =>
         OwnerEdge(e[1]) \in DOMAIN edges /\ edges[OwnerEdge(e[1])].last >= edges[e].last

FlowShaped(g) == g = [nodes |-> g.nodes, edges |-> g.edges, dropped |-> g.dropped]

GraphRight(g) ==
    /\ FlowShaped(g) /\ NodesRight(g.nodes)
    /\ IsFiniteSet(DOMAIN g.edges) /\ Cardinality(DOMAIN g.edges) <= MaxEdges
    /\ \A e \in DOMAIN g.edges : EdgeRight(g.nodes, g.edges, e)

LEMMA FlowExcept ==
    ASSUME NEW g, FlowShaped(g), NEW x
    PROVE  /\ [g EXCEPT !.nodes = x] = [nodes |-> x, edges |-> g.edges, dropped |-> g.dropped]
           /\ [g EXCEPT !.edges = x] = [nodes |-> g.nodes, edges |-> x, dropped |-> g.dropped]
           /\ [g EXCEPT !.dropped = x] = [nodes |-> g.nodes, edges |-> g.edges, dropped |-> x]
<1>1. \A n, e, d : g = [nodes |-> n, edges |-> e, dropped |-> d] =>
          /\ [g EXCEPT !.nodes = x] = [nodes |-> x, edges |-> e, dropped |-> d]
          /\ [g EXCEPT !.edges = x] = [nodes |-> n, edges |-> x, dropped |-> d]
          /\ [g EXCEPT !.dropped = x] = [nodes |-> n, edges |-> e, dropped |-> x]
  <2> TAKE n, e, d
  <2> HAVE g = [nodes |-> n, edges |-> e, dropped |-> d]
  <2> QED
    OBVIOUS
<1> QED
  BY <1>1 DEF FlowShaped

(* Touching a node: it is there afterwards, seen no earlier, or the table  *)
(* is full.                                                                *)
LEMMA TouchNodeRight ==
    ASSUME NEW g, GraphRight(g), NEW id, NEW at \in Nat,
           id[1] = "endpoint" =>
               \/ Owner(id) \in DOMAIN g.nodes /\ g.nodes[Owner(id)].last >= at
               \/ id \notin DOMAIN g.nodes /\ Cardinality(DOMAIN g.nodes) >= MaxNodes
    PROVE  LET h == TouchNode(g, id, at)
           IN  /\ GraphRight(h) /\ h.edges = g.edges
               /\ \A n \in DOMAIN g.nodes :
                    /\ n \in DOMAIN h.nodes /\ h.nodes[n].last >= g.nodes[n].last
                    /\ h.nodes[n].calls >= g.nodes[n].calls
               /\ DOMAIN h.nodes \subseteq DOMAIN g.nodes \cup {id}
               /\ id \in DOMAIN h.nodes => h.nodes[id].last >= at
               /\ id \in DOMAIN g.nodes => h.nodes[id].calls = g.nodes[id].calls + 1
               /\ id \notin DOMAIN h.nodes =>
                    DOMAIN h.nodes = DOMAIN g.nodes /\ Cardinality(DOMAIN g.nodes) >= MaxNodes
<1> DEFINE h == TouchNode(g, id, at)
           full == id \notin DOMAIN g.nodes /\ Cardinality(DOMAIN g.nodes) >= MaxNodes
           old == Get(g.nodes, id, Fresh)
           new == Again(old, at)
<1>0. /\ \A n \in DOMAIN g.nodes : Seen(g.nodes[n])
      /\ \A e \in DOMAIN g.edges : EdgeRight(g.nodes, g.edges, e) /\ Seen(g.edges[e])
  BY DEF GraphRight, NodesRight, EdgeRight
<1>1. CASE full
  <2>1. h = [nodes |-> g.nodes, edges |-> g.edges, dropped |-> g.dropped + 1]
    BY <1>1, FlowExcept DEF TouchNode, GraphRight
  <2> HIDE DEF h
  <2>2. h.nodes = g.nodes /\ h.edges = g.edges /\ FlowShaped(h)
    BY <2>1 DEF FlowShaped
  <2>3. GraphRight(h)
    BY <2>2 DEF GraphRight
  <2> QED
    BY <1>0, <1>1, <2>2, <2>3 DEF h, Seen
<1>2. CASE ~full
  <2>1. h = [nodes |-> Put(g.nodes, id, new), edges |-> g.edges, dropped |-> g.dropped]
    BY <1>2, FlowExcept DEF TouchNode, GraphRight
  <2>2. Seen(new) /\ new.last >= at /\ new.calls = old.calls + 1 /\ old.calls \in Nat
        /\ (id \in DOMAIN g.nodes => old = g.nodes[id] /\ new.last >= g.nodes[id].last)
    <3>1. old.calls \in Nat /\ old.last \in Int
      BY <1>0 DEF Get, Fresh, Seen
    <3>2. id \in DOMAIN g.nodes => old = g.nodes[id]
      BY DEF Get
    <3> HIDE DEF old
    <3> QED
      BY <3>1, <3>2 DEF Again, Later, Seen
  <2>3. new.last = at \/ (id \in DOMAIN g.nodes /\ new.last = g.nodes[id].last)
    <3>1. id \notin DOMAIN g.nodes => old = Fresh
      BY DEF Get
    <3>2. id \in DOMAIN g.nodes => old = g.nodes[id]
      BY DEF Get
    <3> HIDE DEF old
    <3> QED
      BY <3>1, <3>2 DEF Again, Later, Fresh
  <2> HIDE DEF h, new, old
  <2>4. h.edges = g.edges /\ FlowShaped(h) /\ h.nodes = Put(g.nodes, id, new)
    BY <2>1 DEF FlowShaped
  <2>5. /\ DOMAIN h.nodes = DOMAIN g.nodes \cup {id} /\ h.nodes[id] = new
        /\ \A n \in DOMAIN g.nodes : n # id => h.nodes[n] = g.nodes[n]
    BY <2>4 DEF Put
  <2>6. \A n \in DOMAIN g.nodes : /\ n \in DOMAIN h.nodes /\ h.nodes[n].last >= g.nodes[n].last
                                  /\ h.nodes[n].calls >= g.nodes[n].calls
    <3> TAKE n \in DOMAIN g.nodes
    <3>1. Seen(g.nodes[n])
      BY <1>0
    <3>2. CASE n = id
      BY <2>2, <2>5, <3>1, <3>2 DEF Seen
    <3>3. CASE n # id
      BY <2>5, <3>1, <3>3 DEF Seen
    <3> QED
      BY <3>2, <3>3
  <2>7. \A n \in DOMAIN h.nodes : Seen(h.nodes[n])
    BY <1>0, <2>2, <2>5
  <2>8. ASSUME NEW n \in DOMAIN h.nodes, n[1] = "endpoint"
        PROVE  Owner(n) \in DOMAIN h.nodes /\ h.nodes[Owner(n)].last >= h.nodes[n].last
    <3>1. CASE n = id
      <4>1. Owner(n) \in DOMAIN g.nodes /\ g.nodes[Owner(n)].last >= new.last
        <5>1. CASE id \in DOMAIN g.nodes
          <6>1. /\ Owner(id) \in DOMAIN g.nodes /\ g.nodes[Owner(id)].last >= g.nodes[id].last
                /\ g.nodes[Owner(id)].last >= at
            BY <2>8, <3>1, <5>1 DEF GraphRight, NodesRight
          <6> QED
            BY <2>3, <3>1, <6>1
        <5>2. CASE id \notin DOMAIN g.nodes
          BY <1>2, <2>3, <2>8, <3>1, <5>2
        <5> QED
          BY <5>1, <5>2
      <4>2. Owner(n) # n
        BY <2>8 DEF Owner
      <4> QED
        BY <2>5, <3>1, <4>1, <4>2
    <3>2. CASE n # id
      <4>1. n \in DOMAIN g.nodes /\ h.nodes[n] = g.nodes[n]
        BY <2>5, <3>2
      <4>2. Owner(n) \in DOMAIN g.nodes /\ g.nodes[Owner(n)].last >= g.nodes[n].last
        BY <2>8, <4>1 DEF GraphRight, NodesRight
      <4>3. /\ Owner(n) \in DOMAIN h.nodes /\ h.nodes[Owner(n)].last >= g.nodes[Owner(n)].last
            /\ Seen(h.nodes[Owner(n)]) /\ Seen(g.nodes[Owner(n)]) /\ Seen(g.nodes[n])
        BY <1>0, <2>6, <2>7, <4>1, <4>2
      <4> QED
        BY <4>1, <4>2, <4>3 DEF Seen
    <3> QED
      BY <3>1, <3>2
  <2>9. ASSUME NEW e \in DOMAIN g.edges PROVE EdgeRight(h.nodes, g.edges, e)
    <3>1. EdgeRight(g.nodes, g.edges, e)
      BY <1>0
    <3>2. ASSUME NEW end \in {e[1], e[2]}
          PROVE  /\ end \in DOMAIN h.nodes /\ h.nodes[end].last >= g.edges[e].last
                 /\ e[2][1] # "field" => h.nodes[end].calls >= g.edges[e].calls
      <4>1. /\ end \in DOMAIN g.nodes /\ g.nodes[end].last >= g.edges[e].last /\ Seen(g.edges[e])
            /\ e[2][1] # "field" => g.nodes[end].calls >= g.edges[e].calls
        BY <3>1 DEF EdgeRight
      <4>2. /\ Seen(g.nodes[end]) /\ Seen(h.nodes[end]) /\ end \in DOMAIN h.nodes
            /\ h.nodes[end].last >= g.nodes[end].last /\ h.nodes[end].calls >= g.nodes[end].calls
        BY <1>0, <2>6, <2>7, <4>1
      <4> QED
        BY <4>1, <4>2 DEF Seen
    <3> QED
      BY <3>1, <3>2 DEF EdgeRight
  <2>10. GraphRight(h)
    <3>1. NodesRight(h.nodes)
      BY <2>7, <2>8 DEF NodesRight
    <3> QED
      BY <2>4, <2>9, <3>1 DEF GraphRight
  <2> QED
    BY <2>2, <2>4, <2>5, <2>6, <2>10 DEF h
<1> QED
  BY <1>1, <1>2

(* The edge was drawn no earlier, or the table has no room for it. *)
Drawn(g, e, at) ==
    IF e \in DOMAIN g.edges THEN g.edges[e].last >= at ELSE Cardinality(DOMAIN g.edges) >= MaxEdges

(* Both ends, if they found room, were touched for this edge. *)
Ready(g, from, to, at) ==
    /\ \A end \in {from, to} :
         /\ g.nodes[end].last >= at
         /\ to[1] # "field" => g.nodes[end].calls >= Get(g.edges, <<from, to>>, Fresh).calls + 1
    /\ to[1] = "endpoint" => from = Owner(to)
    /\ from[1] = "endpoint" <=> to[1] = "field"
    /\ to[1] = "field" => Drawn(g, OwnerEdge(from), at)

LEMMA LinkRight ==
    ASSUME NEW g, GraphRight(g), NEW from, NEW to, NEW at \in Nat,
           {from, to} \subseteq DOMAIN g.nodes => Ready(g, from, to, at)
    PROVE  LET h == Link(g, from, to, at)
           IN  /\ GraphRight(h) /\ h.nodes = g.nodes
               /\ DOMAIN g.edges \subseteq DOMAIN h.edges /\ DOMAIN h.edges \subseteq DOMAIN g.edges \cup {<<from, to>>}
               /\ \A e \in DOMAIN g.edges : h.edges[e].last >= g.edges[e].last
                                            /\ (e # <<from, to>> => h.edges[e] = g.edges[e])
               /\ {from, to} \subseteq DOMAIN g.nodes => Drawn(h, <<from, to>>, at)
<1> DEFINE h == Link(g, from, to, at)
           x == <<from, to>>
           old == Get(g.edges, x, Fresh)
           new == Again(old, at)
<1>0. /\ \A n \in DOMAIN g.nodes : Seen(g.nodes[n])
      /\ \A e \in DOMAIN g.edges : EdgeRight(g.nodes, g.edges, e) /\ Seen(g.edges[e])
      /\ MaxEdges \in Nat /\ Cardinality(DOMAIN g.edges) \in Nat /\ IsFiniteSet(DOMAIN g.edges)
  <2>1. MaxEdges \in Nat
    BY GraphAssumption
  <2>2. Cardinality(DOMAIN g.edges) \in Nat
    BY FS_CardinalityType DEF GraphRight
  <2> QED
    BY <2>1, <2>2 DEF GraphRight, NodesRight, EdgeRight
<1>1. CASE ~({from, to} \subseteq DOMAIN g.nodes)
  <2>1. h = g
    BY <1>1 DEF Link
  <2> HIDE DEF h
  <2> QED
    BY <1>0, <1>1, <2>1 DEF h, Seen
<1>2. CASE {from, to} \subseteq DOMAIN g.nodes /\ x \notin DOMAIN g.edges /\ Cardinality(DOMAIN g.edges) >= MaxEdges
  <2>1. h = [nodes |-> g.nodes, edges |-> g.edges, dropped |-> g.dropped + 1]
    BY <1>2, FlowExcept DEF Link, TouchEdge, GraphRight
  <2> HIDE DEF h, x
  <2>2. h.nodes = g.nodes /\ h.edges = g.edges /\ FlowShaped(h)
    BY <2>1 DEF FlowShaped
  <2>3. GraphRight(h)
    BY <2>2 DEF GraphRight
  <2>4. Drawn(h, x, at)
    BY <1>2, <2>2 DEF Drawn
  <2> QED
    BY <1>0, <2>2, <2>3, <2>4 DEF h, Seen, x
<1>3. CASE {from, to} \subseteq DOMAIN g.nodes /\ (x \in DOMAIN g.edges \/ ~(Cardinality(DOMAIN g.edges) >= MaxEdges))
  <2>1. h = [nodes |-> g.nodes, edges |-> Put(g.edges, x, new), dropped |-> g.dropped]
    BY <1>3, FlowExcept DEF Link, TouchEdge, GraphRight
  <2>2. /\ Seen(new) /\ new.last >= at /\ new.calls = old.calls + 1
        /\ (x \in DOMAIN g.edges => old = g.edges[x] /\ new.last >= g.edges[x].last)
        /\ new.last = at \/ (x \in DOMAIN g.edges /\ new.last = g.edges[x].last)
    <3>1. old.calls \in Nat /\ old.last \in Int
      BY <1>0 DEF Get, Fresh, Seen
    <3>2. x \in DOMAIN g.edges => old = g.edges[x]
      BY DEF Get
    <3>3. x \notin DOMAIN g.edges => old = Fresh
      BY DEF Get
    <3> HIDE DEF old, x
    <3> QED
      BY <3>1, <3>2, <3>3 DEF Again, Later, Seen, Fresh
  <2>3. Ready(g, from, to, at)
    BY <1>3
  <2>4. x[1] = from /\ x[2] = to /\ x = <<x[1], x[2]>>
    OBVIOUS
  <2>5. \A end \in {from, to} : to[1] # "field" => g.nodes[end].calls >= new.calls
    BY <2>2, <2>3 DEF Ready
  <2> HIDE DEF h, new, old
  <2>6. h.nodes = g.nodes /\ FlowShaped(h) /\ h.edges = Put(g.edges, x, new)
    BY <2>1 DEF FlowShaped
  <2> HIDE DEF x
  <2>7. /\ DOMAIN h.edges = DOMAIN g.edges \cup {x} /\ h.edges[x] = new
        /\ \A e \in DOMAIN g.edges : e # x => h.edges[e] = g.edges[e]
    BY <2>6 DEF Put
  <2>8. \A e \in DOMAIN g.edges : e \in DOMAIN h.edges /\ Seen(h.edges[e]) /\ h.edges[e].last >= g.edges[e].last
    <3> TAKE e \in DOMAIN g.edges
    <3>1. Seen(g.edges[e])
      BY <1>0
    <3>2. CASE e = x
      BY <2>2, <2>7, <3>1, <3>2
    <3>3. CASE e # x
      BY <2>7, <3>1, <3>3 DEF Seen
    <3> QED
      BY <3>2, <3>3
  <2>9. EdgeRight(h.nodes, h.edges, x)
    <3>1. Seen(h.edges[x]) /\ x = <<x[1], x[2]>>
      BY <2>2, <2>4, <2>7
    <3>2. ASSUME NEW end \in {from, to}
          PROVE  end \in DOMAIN h.nodes /\ h.nodes[end].last >= new.last
      <4>1. end \in DOMAIN g.nodes /\ g.nodes[end].last >= at
        BY <1>3, <2>3 DEF Ready
      <4>2. x \in DOMAIN g.edges => g.nodes[end].last >= g.edges[x].last
        BY <1>0, <2>4 DEF EdgeRight
      <4> QED
        BY <2>2, <2>6, <4>1, <4>2
    <3>3. ASSUME to[1] = "field"
          PROVE  OwnerEdge(from) \in DOMAIN h.edges /\ h.edges[OwnerEdge(from)].last >= new.last
      <4>1. Drawn(g, OwnerEdge(from), at)
        BY <2>3, <3>3 DEF Ready
      <4>2. x \in DOMAIN g.edges => OwnerEdge(from) \in DOMAIN g.edges /\ g.edges[OwnerEdge(from)].last >= g.edges[x].last
        BY <1>0, <2>4, <3>3 DEF EdgeRight
      <4>3. OwnerEdge(from) \in DOMAIN g.edges
        BY <1>3, <4>1, <4>2 DEF Drawn
      <4>4. OwnerEdge(from) # x
        <5>1. from[1] = "endpoint"
          BY <2>3, <3>3 DEF Ready
        <5> QED
          BY <2>4, <5>1 DEF OwnerEdge, Owner
      <4>5. h.edges[OwnerEdge(from)] = g.edges[OwnerEdge(from)]
        BY <2>7, <4>3, <4>4
      <4>6. g.edges[OwnerEdge(from)].last >= at
        BY <4>1, <4>3 DEF Drawn
      <4> QED
        BY <2>2, <2>7, <4>2, <4>3, <4>5, <4>6
    <3>4. (to[1] = "endpoint" => from = Owner(to)) /\ (from[1] = "endpoint" <=> to[1] = "field")
      BY <2>3 DEF Ready
    <3>5. \A end \in {from, to} : to[1] # "field" => h.nodes[end].calls >= new.calls
      BY <2>5, <2>6
    <3> QED
      BY <2>4, <2>7, <3>1, <3>2, <3>3, <3>4, <3>5 DEF EdgeRight
  <2>10. ASSUME NEW e \in DOMAIN g.edges, e # x PROVE EdgeRight(h.nodes, h.edges, e)
    <3>1. EdgeRight(g.nodes, g.edges, e) /\ h.edges[e] = g.edges[e] /\ h.nodes = g.nodes
      BY <1>0, <2>6, <2>7, <2>10
    <3>2. ASSUME e[2][1] = "field"
          PROVE  OwnerEdge(e[1]) \in DOMAIN h.edges /\ h.edges[OwnerEdge(e[1])].last >= h.edges[e].last
      <4>1. OwnerEdge(e[1]) \in DOMAIN g.edges /\ g.edges[OwnerEdge(e[1])].last >= g.edges[e].last
        BY <3>1, <3>2 DEF EdgeRight
      <4>2. /\ OwnerEdge(e[1]) \in DOMAIN h.edges /\ Seen(h.edges[OwnerEdge(e[1])]) /\ Seen(g.edges[OwnerEdge(e[1])])
            /\ h.edges[OwnerEdge(e[1])].last >= g.edges[OwnerEdge(e[1])].last /\ Seen(g.edges[e])
        BY <1>0, <2>8, <4>1
      <4> QED
        BY <3>1, <4>1, <4>2 DEF Seen
    <3> QED
      BY <3>1, <3>2 DEF EdgeRight
  <2>11. IsFiniteSet(DOMAIN h.edges) /\ Cardinality(DOMAIN h.edges) <= MaxEdges
    <3>1. /\ IsFiniteSet(DOMAIN h.edges)
          /\ Cardinality(DOMAIN h.edges) = IF x \in DOMAIN g.edges THEN Cardinality(DOMAIN g.edges)
                                           ELSE Cardinality(DOMAIN g.edges) + 1
      BY <1>0, <2>7, FS_AddElement
    <3>2. Cardinality(DOMAIN g.edges) <= MaxEdges
      BY DEF GraphRight
    <3> QED
      BY <1>0, <1>3, <3>1, <3>2
  <2>12. GraphRight(h)
    <3>1. NodesRight(h.nodes)
      BY <2>6 DEF GraphRight
    <3>2. \A e \in DOMAIN h.edges : EdgeRight(h.nodes, h.edges, e)
      BY <2>7, <2>9, <2>10
    <3> QED
      BY <2>6, <2>11, <3>1, <3>2 DEF GraphRight
  <2>13. Drawn(h, x, at)
    BY <2>2, <2>7 DEF Drawn
  <2> QED
    BY <2>6, <2>7, <2>8, <2>12, <2>13 DEF h, x
<1> QED
  BY <1>1, <1>2, <1>3

(* A sensitive field hangs on an endpoint that is there, and leaves it so. *)
HangsOn(g, n, at) == n \in DOMAIN g.nodes /\ g.nodes[n].last >= at /\ Drawn(g, OwnerEdge(n), at)

LEMMA ExposeRight ==
    ASSUME NEW g, GraphRight(g), NEW o, o.at \in Nat, HangsOn(g, Endpoint(o), o.at), NEW x
    PROVE  LET h == Expose(g, o, <<"field", x>>)
           IN  GraphRight(h) /\ HangsOn(h, Endpoint(o), o.at)
<1> DEFINE f == <<"field", x>>
           n == Endpoint(o)
           t == TouchNode(g, f, o.at)
           h == Link(t, n, f, o.at)
<1>0. f[1] = "field" /\ n[1] = "endpoint" /\ f[1] # "endpoint" /\ OwnerEdge(n) # <<n, f>>
  BY DEF Endpoint, OwnerEdge, Owner
<1> HIDE DEF f, n
<1>1. /\ GraphRight(t) /\ t.edges = g.edges
      /\ \A m \in DOMAIN g.nodes : m \in DOMAIN t.nodes /\ t.nodes[m].last >= g.nodes[m].last
      /\ f \in DOMAIN t.nodes => t.nodes[f].last >= o.at
  BY <1>0, TouchNodeRight
<1> HIDE DEF t
<1>2. HangsOn(t, n, o.at)
  <2>1. n \in DOMAIN g.nodes /\ g.nodes[n].last >= o.at /\ Drawn(g, OwnerEdge(n), o.at)
    BY DEF HangsOn, n
  <2>2. Seen(t.nodes[n]) /\ Seen(g.nodes[n]) /\ n \in DOMAIN t.nodes
    BY <1>1, <2>1 DEF GraphRight, NodesRight
  <2>3. t.nodes[n].last >= o.at
    BY <1>1, <2>1, <2>2 DEF Seen
  <2> QED
    BY <1>1, <2>1, <2>2, <2>3 DEF HangsOn, Drawn
<1>3. {n, f} \subseteq DOMAIN t.nodes => Ready(t, n, f, o.at)
  BY <1>0, <1>1, <1>2 DEF Ready, HangsOn
<1>4. /\ GraphRight(h) /\ h.nodes = t.nodes
      /\ DOMAIN t.edges \subseteq DOMAIN h.edges /\ DOMAIN h.edges \subseteq DOMAIN t.edges \cup {<<n, f>>}
      /\ \A e \in DOMAIN t.edges : e # <<n, f>> => h.edges[e] = t.edges[e]
  <2>1. GraphRight(t) /\ o.at \in Nat
    BY <1>1
  <2> QED
    <3> HIDE DEF h
    <3>1. \A at \in Nat : ({n, f} \subseteq DOMAIN t.nodes => Ready(t, n, f, at)) =>
            LET k == Link(t, n, f, at)
            IN  /\ GraphRight(k) /\ k.nodes = t.nodes
                /\ DOMAIN t.edges \subseteq DOMAIN k.edges /\ DOMAIN k.edges \subseteq DOMAIN t.edges \cup {<<n, f>>}
                /\ \A e \in DOMAIN t.edges : k.edges[e].last >= t.edges[e].last
                                             /\ (e # <<n, f>> => k.edges[e] = t.edges[e])
                /\ {n, f} \subseteq DOMAIN t.nodes => Drawn(k, <<n, f>>, at)
      BY ONLY <2>1, LinkRight
    <3> QED
      BY ONLY <2>1, <1>3, <3>1 DEF h
<1> HIDE DEF h
<1>5. HangsOn(h, n, o.at)
  <2>1. Drawn(t, OwnerEdge(n), o.at)
    BY <1>2 DEF HangsOn
  <2>2. Drawn(h, OwnerEdge(n), o.at)
    <3>1. CASE OwnerEdge(n) \in DOMAIN t.edges
      BY <1>0, <1>4, <2>1, <3>1 DEF Drawn
    <3>2. CASE OwnerEdge(n) \notin DOMAIN t.edges
      <4>1. OwnerEdge(n) \notin DOMAIN h.edges
        BY <1>0, <1>4, <3>2
      <4>2. IsFiniteSet(DOMAIN h.edges) /\ IsFiniteSet(DOMAIN t.edges)
        BY <1>1, <1>4 DEF GraphRight
      <4>3. /\ Cardinality(DOMAIN t.edges) <= Cardinality(DOMAIN h.edges)
            /\ Cardinality(DOMAIN t.edges) \in Nat /\ Cardinality(DOMAIN h.edges) \in Nat
        BY <1>4, <4>2, FS_Subset, FS_CardinalityType
      <4>4. Cardinality(DOMAIN t.edges) >= MaxEdges /\ MaxEdges \in Nat
        BY <2>1, <3>2, GraphAssumption DEF Drawn
      <4> QED
        BY <4>1, <4>3, <4>4 DEF Drawn
    <3> QED
      BY <3>1, <3>2
  <2> QED
    BY <1>2, <1>4, <2>2 DEF HangsOn
<1>6. GraphRight(h) /\ HangsOn(h, n, o.at)
  BY <1>4, <1>5
<1> QED
  BY <1>6 DEF Expose, h, n, f, t

(* The stages of a graph while the first n fields are drawn. *)
Stages(s, g, o, n) ==
    s = [i \in 0..n |-> IF i = 0 THEN g ELSE Expose(s[i - 1], o, <<"field", o.fields[i]>>)]

LEMMA StagesExist ==
    ASSUME NEW g, NEW o, NEW n \in Nat
    PROVE  \E s : Stages(s, g, o, n)
<1> SUFFICES ASSUME ~\E s : Stages(s, g, o, n) PROVE FALSE
  OBVIOUS
<1> DEFINE bad == {m \in Nat : ~\E s : Stages(s, g, o, m)}
<1>1. bad \subseteq Nat /\ bad # {}
  OBVIOUS
<1>2. PICK m \in bad : \A y \in bad : ~(<<y, m>> \in OpToRel(<, Nat))
  BY ONLY <1>1, WFMin, NatLessThanWellFounded
<1>3. m \in Nat /\ \A y \in bad : ~(y < m)
  BY <1>1, <1>2 DEF OpToRel
<1>4. CASE m = 0
  <2>1. Stages([i \in 0..0 |-> g], g, o, 0)
    BY DEF Stages
  <2> QED
    BY <1>2, <1>4, <2>1
<1>5. CASE m # 0
  <2>1. m - 1 \in Nat /\ m - 1 \notin bad
    BY <1>3, <1>5
  <2>2. PICK s : Stages(s, g, o, m - 1)
    BY <2>1
  <2> DEFINE r == [i \in 0..m |-> IF i = m THEN Expose(s[m - 1], o, <<"field", o.fields[m]>>) ELSE s[i]]
  <2>3. \A i \in 0..m : r[i] = IF i = 0 THEN g ELSE Expose(r[i - 1], o, <<"field", o.fields[i]>>)
    <3> TAKE i \in 0..m
    <3>1. CASE i = m
      <4>1. r[i - 1] = s[m - 1] /\ r[m] = Expose(s[m - 1], o, <<"field", o.fields[m]>>)
        BY <1>3, <1>5, <3>1
      <4> QED
        BY <1>5, <3>1, <4>1
    <3>2. CASE i # m
      <4>1. r[i] = s[i] /\ i \in 0..(m - 1)
        BY <1>3, <3>2
      <4>2. s[i] = IF i = 0 THEN g ELSE Expose(s[i - 1], o, <<"field", o.fields[i]>>)
        BY <2>2, <4>1 DEF Stages
      <4>3. i # 0 => r[i - 1] = s[i - 1]
        BY <1>3, <3>2
      <4> QED
        BY <4>1, <4>2, <4>3
    <3> QED
      BY <3>1, <3>2
  <2>4. Stages(r, g, o, m)
    BY <2>3 DEF Stages
  <2> QED
    BY <1>2, <2>4
<1> QED
  BY <1>4, <1>5

LEMMA StagesRight ==
    ASSUME NEW g, GraphRight(g), NEW o, o.at \in Nat, HangsOn(g, Endpoint(o), o.at),
           NEW n \in Nat, NEW s, Stages(s, g, o, n)
    PROVE  GraphRight(s[n])
<1> DEFINE good(i) == GraphRight(s[i]) /\ HangsOn(s[i], Endpoint(o), o.at)
           bad == {i \in 0..n : ~good(i)}
<1> SUFFICES ASSUME bad # {} PROVE FALSE
  OBVIOUS
<1>1. bad \subseteq Nat /\ bad # {}
  OBVIOUS
<1>2. PICK m \in bad : \A y \in bad : ~(<<y, m>> \in OpToRel(<, Nat))
  BY ONLY <1>1, WFMin, NatLessThanWellFounded
<1>3. m \in 0..n /\ \A y \in bad : ~(y < m)
  BY <1>1, <1>2 DEF OpToRel
<1>4. CASE m = 0
  <2>1. s[0] = g
    BY DEF Stages
  <2> QED
    BY <1>2, <1>4, <2>1
<1>5. CASE m # 0
  <2>1. m - 1 \in 0..n /\ good(m - 1)
    BY <1>3, <1>5
  <2>2. s[m] = Expose(s[m - 1], o, <<"field", o.fields[m]>>)
    BY <1>3, <1>5 DEF Stages
  <2>3. good(m)
    BY <2>1, <2>2, ExposeRight
  <2> QED
    BY <1>2, <2>3
<1> QED
  BY <1>4, <1>5

(* A node that is there afterwards was touched in between. *)
Counted(g, h, n, at) ==
    n \in DOMAIN h.nodes =>
        h.nodes[n].last >= at /\ (n \in DOMAIN g.nodes => h.nodes[n].calls >= g.nodes[n].calls + 1)

(* The three nodes of an observation. *)
LEMMA EndsTouched ==
    ASSUME NEW g, GraphRight(g), NEW o, o.at \in Nat
    PROVE  LET h == TouchNode(TouchNode(TouchNode(g, Client(o), o.at), Service(o), o.at), Endpoint(o), o.at)
           IN  /\ GraphRight(h) /\ h.edges = g.edges
               /\ \A n \in {Client(o), Service(o), Endpoint(o)} : Counted(g, h, n, o.at)
<1> DEFINE c == Client(o)
           s == Service(o)
           n == Endpoint(o)
           g1 == TouchNode(g, c, o.at)
           g2 == TouchNode(g1, s, o.at)
           h == TouchNode(g2, n, o.at)
<1>0. /\ c[1] # "endpoint" /\ s[1] # "endpoint" /\ n[1] = "endpoint" /\ Owner(n) = s
      /\ c # s /\ c # n /\ s # n
  BY DEF Client, Service, Endpoint, Owner
<1> HIDE DEF c, s, n
<1>1. /\ GraphRight(g1) /\ g1.edges = g.edges
      /\ \A m \in DOMAIN g.nodes : /\ m \in DOMAIN g1.nodes /\ g1.nodes[m].last >= g.nodes[m].last
                                   /\ g1.nodes[m].calls >= g.nodes[m].calls
      /\ DOMAIN g1.nodes \subseteq DOMAIN g.nodes \cup {c}
      /\ c \in DOMAIN g1.nodes => g1.nodes[c].last >= o.at
      /\ c \in DOMAIN g.nodes => g1.nodes[c].calls = g.nodes[c].calls + 1
  BY <1>0, TouchNodeRight
<1> HIDE DEF g1
<1>2. /\ GraphRight(g2) /\ g2.edges = g1.edges
      /\ \A m \in DOMAIN g1.nodes : /\ m \in DOMAIN g2.nodes /\ g2.nodes[m].last >= g1.nodes[m].last
                                    /\ g2.nodes[m].calls >= g1.nodes[m].calls
      /\ DOMAIN g2.nodes \subseteq DOMAIN g1.nodes \cup {s}
      /\ s \in DOMAIN g2.nodes => g2.nodes[s].last >= o.at
      /\ s \in DOMAIN g1.nodes => g2.nodes[s].calls = g1.nodes[s].calls + 1
      /\ s \notin DOMAIN g2.nodes => DOMAIN g2.nodes = DOMAIN g1.nodes /\ Cardinality(DOMAIN g1.nodes) >= MaxNodes
  BY <1>0, <1>1, TouchNodeRight
<1> HIDE DEF g2
<1>3. \/ Owner(n) \in DOMAIN g2.nodes /\ g2.nodes[Owner(n)].last >= o.at
      \/ n \notin DOMAIN g2.nodes /\ Cardinality(DOMAIN g2.nodes) >= MaxNodes
  BY <1>0, <1>2 DEF GraphRight, NodesRight
<1>4. /\ GraphRight(h) /\ h.edges = g2.edges
      /\ \A m \in DOMAIN g2.nodes : /\ m \in DOMAIN h.nodes /\ h.nodes[m].last >= g2.nodes[m].last
                                    /\ h.nodes[m].calls >= g2.nodes[m].calls
      /\ DOMAIN h.nodes \subseteq DOMAIN g2.nodes \cup {n}
      /\ n \in DOMAIN h.nodes => h.nodes[n].last >= o.at
      /\ n \in DOMAIN g2.nodes => h.nodes[n].calls = g2.nodes[n].calls + 1
  BY <1>2, <1>3, TouchNodeRight
<1> HIDE DEF h
<1>5. /\ \A m \in DOMAIN g.nodes : Seen(g.nodes[m])
      /\ \A m \in DOMAIN g1.nodes : Seen(g1.nodes[m])
      /\ \A m \in DOMAIN g2.nodes : Seen(g2.nodes[m])
      /\ \A m \in DOMAIN h.nodes : Seen(h.nodes[m])
  BY <1>1, <1>2, <1>4 DEF GraphRight, NodesRight
<1>6. Counted(g, h, c, o.at)
  <2> SUFFICES ASSUME c \in DOMAIN h.nodes
               PROVE  h.nodes[c].last >= o.at /\ (c \in DOMAIN g.nodes => h.nodes[c].calls >= g.nodes[c].calls + 1)
    BY DEF Counted
  <2>1. c \in DOMAIN g2.nodes /\ c \in DOMAIN g1.nodes
    BY <1>0, <1>2, <1>4
  <2>2. Seen(g1.nodes[c]) /\ Seen(g2.nodes[c]) /\ Seen(h.nodes[c]) /\ (c \in DOMAIN g.nodes => Seen(g.nodes[c]))
    BY <1>5, <2>1
  <2>3. g2.nodes[c].last >= g1.nodes[c].last /\ h.nodes[c].last >= g2.nodes[c].last /\ g1.nodes[c].last >= o.at
        /\ g2.nodes[c].calls >= g1.nodes[c].calls /\ h.nodes[c].calls >= g2.nodes[c].calls
    BY <1>1, <1>2, <1>4, <2>1
  <2> QED
    BY <1>1, <2>2, <2>3 DEF Seen
<1>7. Counted(g, h, s, o.at)
  <2> SUFFICES ASSUME s \in DOMAIN h.nodes
               PROVE  h.nodes[s].last >= o.at /\ (s \in DOMAIN g.nodes => h.nodes[s].calls >= g.nodes[s].calls + 1)
    BY DEF Counted
  <2>1. s \in DOMAIN g2.nodes
    BY <1>0, <1>4
  <2>2. Seen(g2.nodes[s]) /\ Seen(h.nodes[s])
    BY <1>5, <2>1
  <2>3. g2.nodes[s].last >= o.at /\ h.nodes[s].last >= g2.nodes[s].last /\ h.nodes[s].calls >= g2.nodes[s].calls
    BY <1>2, <1>4, <2>1
  <2>4. ASSUME s \in DOMAIN g.nodes PROVE h.nodes[s].calls >= g.nodes[s].calls + 1
    <3>1. Seen(g.nodes[s]) /\ Seen(g1.nodes[s]) /\ s \in DOMAIN g1.nodes /\ g1.nodes[s].calls >= g.nodes[s].calls
      BY <1>1, <1>5, <2>4
    <3>2. g2.nodes[s].calls = g1.nodes[s].calls + 1
      BY <1>2, <3>1
    <3> QED
      BY <2>2, <2>3, <3>1, <3>2 DEF Seen
  <2> QED
    BY <2>2, <2>3, <2>4 DEF Seen
<1>8. Counted(g, h, n, o.at)
  <2> SUFFICES ASSUME n \in DOMAIN h.nodes
               PROVE  h.nodes[n].last >= o.at /\ (n \in DOMAIN g.nodes => h.nodes[n].calls >= g.nodes[n].calls + 1)
    BY DEF Counted
  <2>1. ASSUME n \in DOMAIN g.nodes PROVE h.nodes[n].calls >= g.nodes[n].calls + 1
    <3>1. /\ Seen(g.nodes[n]) /\ Seen(g1.nodes[n]) /\ n \in DOMAIN g1.nodes /\ g1.nodes[n].calls >= g.nodes[n].calls
          /\ Seen(g2.nodes[n]) /\ n \in DOMAIN g2.nodes /\ g2.nodes[n].calls >= g1.nodes[n].calls
      BY <1>1, <1>2, <1>5, <2>1
    <3>2. h.nodes[n].calls = g2.nodes[n].calls + 1
      BY <1>4, <3>1
    <3> QED
      BY <3>1, <3>2 DEF Seen
  <2> QED
    BY <1>4, <2>1
<1>9. /\ GraphRight(h) /\ h.edges = g.edges
      /\ \A m \in {c, s, n} : Counted(g, h, m, o.at)
  BY <1>1, <1>2, <1>4, <1>6, <1>7, <1>8
<1> QED
  BY <1>9 DEF h, g2, g1, c, s, n

(* Nodes that were touched are ready for an edge as it was before. *)
LEMMA TouchedIsReady ==
    ASSUME NEW g, GraphRight(g), NEW h, GraphRight(h), NEW at, NEW from, NEW to,
           \A end \in {from, to} : end \in DOMAIN h.nodes /\ Counted(g, h, end, at),
           <<from, to>> \in DOMAIN h.edges =>
               <<from, to>> \in DOMAIN g.edges /\ h.edges[<<from, to>>] = g.edges[<<from, to>>],
           to[1] = "endpoint" => from = Owner(to),
           from[1] # "endpoint", to[1] # "field"
    PROVE  Ready(h, from, to, at)
<1> DEFINE x == <<from, to>>
<1>1. ASSUME NEW end \in {from, to}
      PROVE  h.nodes[end].last >= at /\ h.nodes[end].calls >= Get(h.edges, x, Fresh).calls + 1
  <2>0. end \in DOMAIN h.nodes /\ Seen(h.nodes[end]) /\ Counted(g, h, end, at)
    BY DEF GraphRight, NodesRight
  <2>1. CASE x \in DOMAIN h.edges
    <3>1. /\ x \in DOMAIN g.edges /\ EdgeRight(g.nodes, g.edges, x) /\ x[1] = from /\ x[2] = to
          /\ h.edges[x] = g.edges[x] /\ Get(h.edges, x, Fresh) = h.edges[x]
      BY <2>1 DEF GraphRight, Get
    <3>2. /\ end \in DOMAIN g.nodes /\ g.nodes[end].calls >= g.edges[x].calls /\ Seen(g.edges[x])
      BY <3>1 DEF EdgeRight
    <3>3. Seen(g.nodes[end]) /\ h.nodes[end].calls >= g.nodes[end].calls + 1
      BY <2>0, <3>2 DEF GraphRight, NodesRight, Counted
    <3> QED
      BY <2>0, <3>1, <3>2, <3>3 DEF Seen, Counted
  <2>2. CASE x \notin DOMAIN h.edges
    <3>1. Get(h.edges, x, Fresh).calls = 0
      BY <2>2 DEF Get, Fresh
    <3> QED
      BY <2>0, <3>1 DEF Seen, Counted
  <2> QED
    BY <2>1, <2>2
<1> QED
  BY <1>1 DEF Ready

LEMMA ObservedRight ==
    ASSUME NEW g, GraphRight(g), NEW o, o.at \in Nat, Len(o.fields) \in Nat
    PROVE  GraphRight(Observed(g, o))
<1> DEFINE c == Client(o)
           s == Service(o)
           n == Endpoint(o)
           touched == TouchNode(TouchNode(TouchNode(g, c, o.at), s, o.at), n, o.at)
           called == Link(touched, c, s, o.at)
           linked == Link(called, s, n, o.at)
           stage == CHOOSE f : f = [i \in 0..Len(o.fields) |->
                        IF i = 0 THEN linked ELSE Expose(f[i - 1], o, <<"field", o.fields[i]>>)]
<1>0. /\ c[1] = "client" /\ s[1] = "service" /\ n[1] = "endpoint" /\ Owner(n) = s
      /\ <<c, s>> # <<s, n>> /\ OwnerEdge(n) = <<s, n>>
  BY DEF Client, Service, Endpoint, Owner, OwnerEdge
<1>1. /\ GraphRight(touched) /\ touched.edges = g.edges
      /\ \A m \in {c, s, n} : Counted(g, touched, m, o.at)
  BY EndsTouched
<1>2. Observed(g, o) = IF n \in DOMAIN linked.nodes THEN stage[Len(o.fields)] ELSE linked
  BY DEF Observed
<1> DEFINE at == o.at
<1> HIDE DEF c, s, n, touched, at
<1>3. /\ GraphRight(called) /\ called.nodes = touched.nodes
      /\ DOMAIN called.edges \subseteq DOMAIN touched.edges \cup {<<c, s>>}
      /\ \A e \in DOMAIN touched.edges : e # <<c, s>> => called.edges[e] = touched.edges[e]
  <2>1. {c, s} \subseteq DOMAIN touched.nodes => Ready(touched, c, s, at)
    BY <1>0, <1>1, TouchedIsReady DEF at
  <2>2. at \in Nat /\ called = Link(touched, c, s, at)
    BY DEF at
  <2> HIDE DEF called
  <2>3. GraphRight(touched)
    BY <1>1
  <2>4. \A time \in Nat : ({c, s} \subseteq DOMAIN touched.nodes => Ready(touched, c, s, time)) =>
          LET k == Link(touched, c, s, time)
          IN  /\ GraphRight(k) /\ k.nodes = touched.nodes
              /\ DOMAIN touched.edges \subseteq DOMAIN k.edges
                 /\ DOMAIN k.edges \subseteq DOMAIN touched.edges \cup {<<c, s>>}
              /\ \A e \in DOMAIN touched.edges : k.edges[e].last >= touched.edges[e].last
                                                /\ (e # <<c, s>> => k.edges[e] = touched.edges[e])
              /\ {c, s} \subseteq DOMAIN touched.nodes => Drawn(k, <<c, s>>, time)
    BY ONLY <2>3, LinkRight
  <2> QED
    BY ONLY <2>1, <2>2, <2>4
<1> HIDE DEF called
<1>4. /\ GraphRight(linked) /\ linked.nodes = called.nodes
      /\ {s, n} \subseteq DOMAIN called.nodes => Drawn(linked, <<s, n>>, at)
  <2>1. {s, n} \subseteq DOMAIN called.nodes => Ready(called, s, n, at)
    <3> SUFFICES ASSUME {s, n} \subseteq DOMAIN called.nodes PROVE Ready(called, s, n, at)
      OBVIOUS
    <3>1. \A end \in {s, n} : end \in DOMAIN called.nodes /\ Counted(g, called, end, at)
      BY <1>1, <1>3 DEF Counted, at
    <3>2. <<s, n>> \in DOMAIN called.edges =>
            <<s, n>> \in DOMAIN g.edges /\ called.edges[<<s, n>>] = g.edges[<<s, n>>]
      BY <1>0, <1>1, <1>3
    <3>3. s = Owner(n) /\ s[1] # "endpoint" /\ n[1] # "field"
      BY <1>0
    <3>4. GraphRight(g) /\ GraphRight(called)
      BY <1>3
    <3> QED
      BY ONLY <3>1, <3>2, <3>3, <3>4, TouchedIsReady
  <2>2. at \in Nat /\ linked = Link(called, s, n, at)
    BY DEF at
  <2> HIDE DEF linked
  <2> QED
    BY ONLY <1>3, <2>1, <2>2, LinkRight
<1> HIDE DEF linked
<1>5. ASSUME n \in DOMAIN linked.nodes PROVE GraphRight(stage[Len(o.fields)])
  <2>1. s \in DOMAIN linked.nodes
    BY <1>0, <1>4, <1>5 DEF GraphRight, NodesRight
  <2>2. Counted(g, touched, n, at) /\ linked.nodes = touched.nodes
    BY <1>1, <1>3, <1>4 DEF at
  <2>3. HangsOn(linked, n, at)
    BY <1>0, <1>4, <1>5, <2>1, <2>2 DEF HangsOn, Counted
  <2>4. Stages(stage, linked, o, Len(o.fields))
    <3>1. PICK f : Stages(f, linked, o, Len(o.fields))
      BY StagesExist
    <3> QED
      BY <3>1 DEF Stages
  <2>5. HangsOn(linked, Endpoint(o), o.at) /\ o.at \in Nat /\ Len(o.fields) \in Nat
    BY <2>3 DEF n, at
  <2> HIDE DEF stage
  <2> QED
    BY ONLY <1>4, <2>4, <2>5, StagesRight
<1> QED
  BY <1>2, <1>4, <1>5

LEMMA FlowExceptBoth ==
    ASSUME NEW g, FlowShaped(g), NEW x, NEW y
    PROVE  [g EXCEPT !.edges = x, !.nodes = y] = [[g EXCEPT !.edges = x] EXCEPT !.nodes = y]
<1> DEFINE n == g.nodes
           e == g.edges
           d == g.dropped
<1>1. g = [nodes |-> n, edges |-> e, dropped |-> d]
  BY DEF FlowShaped
<1> HIDE DEF n, e, d
<1> QED
  BY <1>1

(* prune removes no edge before those that hang on it, nor a node that an  *)
(* edge or a younger endpoint needs.                                       *)
LEMMA PruneFlow ==
    ASSUME GraphRight(flow), NEW cutoff \in Int, Prune(cutoff)
    PROVE  GraphRight(flow')
<1> DEFINE edges == Without(flow.edges, {e \in DOMAIN flow.edges : flow.edges[e].last < cutoff})
           connected == UNION {{e[1], e[2]} : e \in DOMAIN edges}
           nodes == Without(flow.nodes, {n \in DOMAIN flow.nodes : flow.nodes[n].last < cutoff} \ connected)
<1>1. flow' = [nodes |-> nodes, edges |-> edges, dropped |-> flow.dropped]
  <2>1. flow' = [flow EXCEPT !.edges = edges, !.nodes = nodes]
    BY DEF Prune
  <2>2. [flow EXCEPT !.edges = edges, !.nodes = nodes] = [[flow EXCEPT !.edges = edges] EXCEPT !.nodes = nodes]
    BY FlowExceptBoth DEF GraphRight
  <2>3. [flow EXCEPT !.edges = edges] = [nodes |-> flow.nodes, edges |-> edges, dropped |-> flow.dropped]
    BY FlowExcept DEF GraphRight
  <2>4. [[nodes |-> flow.nodes, edges |-> edges, dropped |-> flow.dropped] EXCEPT !.nodes = nodes]
          = [nodes |-> nodes, edges |-> edges, dropped |-> flow.dropped]
    <3> HIDE DEF edges, nodes
    <3>1. \A n, e, d, y : [[nodes |-> n, edges |-> e, dropped |-> d] EXCEPT !.nodes = y]
                            = [nodes |-> y, edges |-> e, dropped |-> d]
      OBVIOUS
    <3> QED
      BY ONLY <3>1
  <2> HIDE DEF edges, nodes
  <2> QED
    BY <2>1, <2>2, <2>3, <2>4
<1>2. flow'.nodes = nodes /\ flow'.edges = edges /\ FlowShaped(flow')
  BY <1>1 DEF FlowShaped
<1>3. /\ DOMAIN edges = {e \in DOMAIN flow.edges : ~(flow.edges[e].last < cutoff)}
      /\ \A e \in DOMAIN edges : edges[e] = flow.edges[e]
      /\ \A n \in DOMAIN nodes : n \in DOMAIN flow.nodes /\ nodes[n] = flow.nodes[n]
      /\ \A n \in DOMAIN flow.nodes : n \in connected \/ ~(flow.nodes[n].last < cutoff) => n \in DOMAIN nodes
  BY DEF Without
<1>4. \A e \in DOMAIN edges : e[1] \in connected /\ e[2] \in connected
  OBVIOUS
<1>5. \A n \in connected : \E e \in DOMAIN edges : n \in {e[1], e[2]}
  OBVIOUS
<1> HIDE DEF edges, connected, nodes
<1>6. \A e \in DOMAIN flow.edges : EdgeRight(flow.nodes, flow.edges, e)
  BY DEF GraphRight
<1>7. \A n \in DOMAIN flow.nodes : Seen(flow.nodes[n])
  BY DEF GraphRight, NodesRight
<1>8. ASSUME NEW e \in DOMAIN edges PROVE EdgeRight(nodes, edges, e)
  <2>1. e \in DOMAIN flow.edges /\ EdgeRight(flow.nodes, flow.edges, e) /\ edges[e] = flow.edges[e]
    BY <1>3, <1>6
  <2>2. \A end \in {e[1], e[2]} : end \in DOMAIN nodes /\ nodes[end] = flow.nodes[end]
    BY <1>3, <1>4, <2>1 DEF EdgeRight
  <2>3. ASSUME e[2][1] = "field"
        PROVE  OwnerEdge(e[1]) \in DOMAIN edges /\ edges[OwnerEdge(e[1])].last >= edges[e].last
    <3>1. OwnerEdge(e[1]) \in DOMAIN flow.edges /\ flow.edges[OwnerEdge(e[1])].last >= flow.edges[e].last
      BY <2>1, <2>3 DEF EdgeRight
    <3>2. Seen(flow.edges[e]) /\ Seen(flow.edges[OwnerEdge(e[1])])
      BY <1>6, <2>1, <3>1 DEF EdgeRight
    <3>3. ~(flow.edges[OwnerEdge(e[1])].last < cutoff)
      BY <1>3, <3>1, <3>2 DEF Seen
    <3> QED
      BY <1>3, <2>1, <3>1, <3>3
  <2> QED
    BY <2>1, <2>2, <2>3 DEF EdgeRight
<1>9. ASSUME NEW n \in DOMAIN nodes, n[1] = "endpoint"
      PROVE  Owner(n) \in DOMAIN nodes /\ nodes[Owner(n)].last >= nodes[n].last
  <2>1. /\ n \in DOMAIN flow.nodes /\ nodes[n] = flow.nodes[n] /\ Owner(n) \in DOMAIN flow.nodes
        /\ flow.nodes[Owner(n)].last >= flow.nodes[n].last
    BY <1>3, <1>9 DEF GraphRight, NodesRight
  <2>2. Seen(flow.nodes[n]) /\ Seen(flow.nodes[Owner(n)])
    BY <1>7, <2>1
  <2>3. Owner(n) \in connected \/ ~(flow.nodes[Owner(n)].last < cutoff)
    <3>1. CASE ~(flow.nodes[n].last < cutoff)
      BY <2>1, <2>2, <3>1 DEF Seen
    <3>2. CASE n \in connected
      <4>1. PICK e \in DOMAIN edges : n \in {e[1], e[2]}
        BY <1>5, <3>2
      <4>2. EdgeRight(nodes, edges, e)
        BY <1>8
      <4>3. CASE n = e[1]
        <5>1. OwnerEdge(n) \in DOMAIN edges
          BY <1>9, <4>2, <4>3 DEF EdgeRight
        <5>2. OwnerEdge(n)[1] = Owner(n)
          BY DEF OwnerEdge
        <5> QED
          BY <1>4, <5>1, <5>2
      <4>4. CASE n = e[2]
        <5>1. e[1] = Owner(n)
          BY <1>9, <4>2, <4>4 DEF EdgeRight
        <5> QED
          BY <1>4, <5>1
      <4> QED
        BY <4>1, <4>3, <4>4
    <3>3. n \in connected \/ ~(flow.nodes[n].last < cutoff)
      BY <1>9, <2>1 DEF nodes, Without
    <3> QED
      BY <3>1, <3>2, <3>3
  <2> QED
    BY <1>3, <2>1, <2>3
<1>10. NodesRight(nodes)
  BY <1>3, <1>7, <1>9 DEF NodesRight
<1>11. IsFiniteSet(DOMAIN edges) /\ Cardinality(DOMAIN edges) <= MaxEdges
  <2>1. IsFiniteSet(DOMAIN flow.edges) /\ Cardinality(DOMAIN flow.edges) <= MaxEdges
    BY DEF GraphRight
  <2>2. DOMAIN edges \subseteq DOMAIN flow.edges
    BY <1>3
  <2>3. /\ IsFiniteSet(DOMAIN edges) /\ Cardinality(DOMAIN edges) <= Cardinality(DOMAIN flow.edges)
        /\ Cardinality(DOMAIN edges) \in Nat /\ Cardinality(DOMAIN flow.edges) \in Nat
    BY <2>1, <2>2, FS_Subset, FS_CardinalityType
  <2> QED
    BY <2>1, <2>3, GraphAssumption
<1> QED
  BY <1>2, <1>8, <1>10, <1>11 DEF GraphRight

FlowRight == GraphRight(flow) /\ mode \in Modes /\ now \in Nat

LEMMA ObserveFlow ==
    ASSUME GraphRight(flow), NEW o, o.at \in Nat, Len(o.fields) \in Nat, Observe(o)
    PROVE  GraphRight(flow')
<1> DEFINE g == Observed(flow, o)
<1>1. GraphRight(g)
  BY ObservedRight
<1>2. flow' = g \/ flow' = [g EXCEPT !.dropped = g.dropped + 1]
  BY DEF Observe
<1> HIDE DEF g
<1>3. [g EXCEPT !.dropped = g.dropped + 1] = [nodes |-> g.nodes, edges |-> g.edges, dropped |-> g.dropped + 1]
  BY <1>1, FlowExcept DEF GraphRight
<1>4. \A n, e, d : GraphRight([nodes |-> n, edges |-> e, dropped |-> d]) =>
          GraphRight([nodes |-> n, edges |-> e, dropped |-> d + 1])
  BY DEF GraphRight, FlowShaped
<1>5. g = [nodes |-> g.nodes, edges |-> g.edges, dropped |-> g.dropped]
  BY <1>1 DEF GraphRight, FlowShaped
<1> QED
  BY <1>1, <1>2, <1>3, <1>4, <1>5

LEMMA NoFlowIsRight == GraphRight([nodes |-> Nothing, edges |-> Nothing, dropped |-> 0])
<1>1. DOMAIN Nothing = {}
  BY DEF Nothing
<1>2. IsFiniteSet({}) /\ Cardinality({}) <= MaxEdges
  BY FS_EmptySet, GraphAssumption
<1> QED
  BY <1>1, <1>2 DEF GraphRight, FlowShaped, NodesRight

LEMMA FlowAlways == TrafficSpec => []FlowRight
<1>1. TrafficInit => FlowRight
  BY NoFlowIsRight DEF TrafficInit, GraphInit, FlowRight
<1>2. FlowRight /\ [TrafficNext]_trafficVars => FlowRight'
  <2> SUFFICES ASSUME FlowRight, [TrafficNext]_trafficVars PROVE FlowRight'
    OBVIOUS
  <2>1. mode' \in Modes /\ now' \in Nat
    <3>1. mode' = mode /\ now' \in {now, now + 1}
      BY DEF TrafficNext, Process, Raise, SetStatus, Clean, Flush, Restart, Tick, trafficVars
    <3> QED
      BY <3>1 DEF FlowRight
  <2>2. CASE Process
    <3>1. PICK o \in mode.observations, age \in mode.ages : age <= now /\ Observe([o EXCEPT !.at = now - age])
      BY <2>2 DEF Process
    <3> DEFINE p == [o EXCEPT !.at = now - age]
    <3>2. now - age \in Nat
      BY <3>1, TrafficAssumption DEF FlowRight
    <3>3. /\ o = [src |-> o.src, account |-> o.account, service |-> o.service, path |-> o.path,
                  fields |-> o.fields, failed |-> o.failed, ms |-> o.ms, at |-> o.at]
          /\ o.fields \in Seq(Range(o.fields))
      BY <3>1, TrafficAssumption DEF FlowRight
    <3>4. p.at = now - age /\ p.fields = o.fields
      BY <3>3
    <3>5. Len(o.fields) \in Nat
      BY <3>3
    <3>6. p.at \in Nat /\ Len(p.fields) \in Nat /\ Observe(p) /\ GraphRight(flow)
      BY <3>1, <3>2, <3>4, <3>5 DEF FlowRight
    <3> HIDE DEF p
    <3> QED
      BY <2>1, <3>6, ObserveFlow DEF FlowRight
  <2>3. CASE Clean
    <3>1. Prune(now - Retention) /\ now - Retention \in Int
      BY <2>3, GraphAssumption DEF Clean, FlowRight
    <3> QED
      BY <2>1, <3>1, PruneFlow DEF FlowRight
  <2>4. CASE Restart
    BY <2>1, <2>4, NoFlowIsRight DEF Restart, FlowRight
  <2>5. CASE flow' = flow
    BY <2>1, <2>5 DEF FlowRight
  <2>6. Process \/ Clean \/ Restart \/ flow' = flow
    BY DEF TrafficNext, Raise, SetStatus, Flush, Tick, trafficVars, graphVars
  <2> QED
    BY <2>2, <2>3, <2>4, <2>5, <2>6
<1> QED
  BY <1>1, <1>2, PTL DEF TrafficSpec

(* The flow graph may be followed along every edge, and from every field   *)
(* that is shown back to its service, whatever the caps turned away,       *)
(* whatever was pruned and however late the events came (observeFlow,      *)
(* touchNode, touchEdge, prune).                                           *)
THEOREM FlowHolds == TrafficSpec => []GraphHangsTogether
<1>1. FlowRight => GraphHangsTogether
  <2> SUFFICES ASSUME FlowRight PROVE GraphHangsTogether
    OBVIOUS
  <2> DEFINE shown == Flow(flow, "data", 0, MaxEdges)
             candidates == {e \in DOMAIN flow.edges : /\ flow.edges[e].calls >= 0
                                                      /\ {e[1], e[2]} \subseteq DOMAIN flow.nodes
                                                      /\ InView(flow, "data", e)}
  <2>1. \A e \in DOMAIN flow.edges : EdgeRight(flow.nodes, flow.edges, e)
    BY DEF FlowRight, GraphRight
  <2>2. shown = candidates
    <3>1. IsFiniteSet(DOMAIN flow.edges) /\ Cardinality(DOMAIN flow.edges) <= MaxEdges
      BY DEF FlowRight, GraphRight
    <3>2. candidates \subseteq DOMAIN flow.edges
      OBVIOUS
    <3>3. Cardinality(candidates) <= MaxEdges
      <4> HIDE DEF candidates
      <4>1. /\ IsFiniteSet(candidates) /\ Cardinality(candidates) <= Cardinality(DOMAIN flow.edges)
            /\ Cardinality(candidates) \in Nat /\ Cardinality(DOMAIN flow.edges) \in Nat
        BY <3>1, <3>2, FS_Subset, FS_CardinalityType
      <4> QED
        BY <3>1, <4>1, GraphAssumption
    <3>4. shown = Busiest(flow, candidates, MaxEdges)
      BY DEF Flow
    <3> HIDE DEF candidates, shown
    <3> QED
      BY <3>3, <3>4 DEF Busiest
  <2>3. ASSUME NEW e \in shown, e[2][1] = "field"
        PROVE  <<<<"service", e[1][2]>>, e[1]>> \in shown
    <3> DEFINE f == OwnerEdge(e[1])
    <3>1. e \in DOMAIN flow.edges /\ EdgeRight(flow.nodes, flow.edges, e)
      BY <2>1, <2>2, <2>3
    <3>2. f \in DOMAIN flow.edges /\ e[1][1] = "endpoint"
      BY <2>3, <3>1 DEF EdgeRight
    <3>3. f[1] = Owner(e[1]) /\ f[2] = e[1] /\ f = <<<<"service", e[1][2]>>, e[1]>>
      BY DEF OwnerEdge, Owner
    <3>4. EdgeRight(flow.nodes, flow.edges, f)
      BY <2>1, <3>2
    <3> HIDE DEF f
    <3>5. flow.edges[f].calls >= 0 /\ {f[1], f[2]} \subseteq DOMAIN flow.nodes
      BY <3>4 DEF EdgeRight, Seen
    <3>6. e[1] \in Exposing(flow)
      BY <2>3, <3>1 DEF Exposing
    <3>7. InView(flow, "data", f)
      BY <3>2, <3>3, <3>6 DEF InView
    <3> QED
      BY <2>2, <3>2, <3>3, <3>5, <3>7
  <2> QED
    BY <2>1, <2>3 DEF GraphHangsTogether, EdgeRight
<1> QED
  BY <1>1, FlowAlways, PTL

-----------------------------------------------------------------------------
(* Traffic: the path of an alert.                                          *)

AlertShaped(a) ==
    a = [id |-> a.id, src |-> a.src, account |-> a.account, severity |-> a.severity,
         score |-> a.score, at |-> a.at, status |-> a.status]

AlertRight(a) == AlertShaped(a) /\ a.id \in Nat /\ a.at \in Nat /\ a.severity \in Int /\ a.score \in Int

(* Alerts are numbered in the order they were raised. *)
AlertsRight ==
    /\ mode \in Modes
    /\ \E S : alerts \in Seq(S) /\ \A a \in S : AlertRight(a)
    /\ \A i \in 1..Len(alerts) : alerts[i].id = i

LEMMA AlertExcept ==
    ASSUME NEW a, AlertShaped(a), NEW x, NEW y
    PROVE  /\ [a EXCEPT !.at = x, !.id = y] =
                [id |-> y, src |-> a.src, account |-> a.account, severity |-> a.severity,
                 score |-> a.score, at |-> x, status |-> a.status]
           /\ [a EXCEPT !.status = x] =
                [id |-> a.id, src |-> a.src, account |-> a.account, severity |-> a.severity,
                 score |-> a.score, at |-> a.at, status |-> x]
<1> DEFINE i == a.id
           s == a.src
           c == a.account
           v == a.severity
           r == a.score
           t == a.at
           u == a.status
<1>1. a = [id |-> i, src |-> s, account |-> c, severity |-> v, score |-> r, at |-> t, status |-> u]
  BY DEF AlertShaped
<1> HIDE DEF i, s, c, v, r, t, u
<1>2. [a EXCEPT !.status = x] =
        [id |-> i, src |-> s, account |-> c, severity |-> v, score |-> r, at |-> t, status |-> x]
  BY <1>1
<1>3. [a EXCEPT !.at = x] =
        [id |-> i, src |-> s, account |-> c, severity |-> v, score |-> r, at |-> x, status |-> u]
  BY <1>1
<1>4. [a EXCEPT !.at = x, !.id = y] = [[a EXCEPT !.at = x] EXCEPT !.id = y]
  BY <1>1
<1>5. \A at : [[id |-> i, src |-> s, account |-> c, severity |-> v, score |-> r, at |-> at, status |-> u]
                 EXCEPT !.id = y]
                = [id |-> y, src |-> s, account |-> c, severity |-> v, score |-> r, at |-> at, status |-> u]
  OBVIOUS
<1>6. [a EXCEPT !.at = x, !.id = y] =
        [id |-> y, src |-> s, account |-> c, severity |-> v, score |-> r, at |-> x, status |-> u]
  BY ONLY <1>3, <1>4, <1>5
<1> QED
  BY <1>2, <1>6 DEF i, s, c, v, r, t, u

LEMMA WiderSequence ==
    ASSUME NEW S, NEW s \in Seq(S), NEW T, S \subseteq T
    PROVE  s \in Seq(T)
<1>1. Len(s) \in Nat /\ s \in [1..Len(s) -> S]
  OBVIOUS
<1>2. s \in [1..Len(s) -> T]
  BY <1>1
<1> QED
  BY <1>1, <1>2

LEMMA AlertsAlways == TrafficSpec => []AlertsRight
<1>1. TrafficInit => AlertsRight
  <2> SUFFICES ASSUME TrafficInit PROVE AlertsRight
    OBVIOUS
  <2>1. mode \in Modes /\ alerts = <<>>
    BY DEF TrafficInit
  <2>2. alerts \in Seq({}) /\ Len(alerts) = 0
    BY <2>1
  <2> QED
    BY <2>1, <2>2 DEF AlertsRight
<1>2. AlertsRight /\ [TrafficNext]_trafficVars => AlertsRight'
  <2> SUFFICES ASSUME AlertsRight, [TrafficNext]_trafficVars PROVE AlertsRight'
    OBVIOUS
  <2>1. mode' \in Modes
    BY DEF AlertsRight, TrafficNext, Process, Raise, SetStatus, Clean, Flush, Restart, Tick, trafficVars
  <2>2. PICK S : alerts \in Seq(S) /\ \A a \in S : AlertRight(a)
    BY DEF AlertsRight
  <2> DEFINE n == Len(alerts)
  <2>3. n \in Nat /\ DOMAIN alerts = 1..n /\ \A i \in 1..n : alerts[i].id = i /\ alerts[i] \in S
    BY <2>2 DEF AlertsRight
  <2>4. CASE Raise
    <3>1. PICK a \in mode.alerts, at \in 0..mode.until :
             alerts' = Append(alerts, [a EXCEPT !.at = at, !.id = n + 1])
      BY <2>4 DEF Raise
    <3> DEFINE b == [a EXCEPT !.at = at, !.id = n + 1]
               T == S \cup {b}
    <3>2. AlertShaped(a) /\ a.severity \in Int /\ a.score \in Int /\ mode.until \in Nat
      BY <3>1, TrafficAssumption DEF AlertsRight, AlertShaped
    <3>3. b = [id |-> n + 1, src |-> a.src, account |-> a.account, severity |-> a.severity,
               score |-> a.score, at |-> at, status |-> a.status]
      BY <3>2, AlertExcept
    <3>4. at \in Nat
      BY <3>1, <3>2
    <3> HIDE DEF b
    <3>5. AlertRight(b) /\ b.id = n + 1
      BY <2>3, <3>2, <3>3, <3>4 DEF AlertRight, AlertShaped
    <3>6. alerts \in Seq(T) /\ b \in T
      BY <2>2, WiderSequence
    <3>7. alerts' = Append(alerts, b)
      BY <3>1 DEF b
    <3> HIDE DEF T
    <3>8. /\ alerts' \in Seq(T) /\ Len(alerts') = n + 1
          /\ alerts'[n + 1] = b /\ \A i \in 1..n : alerts'[i] = alerts[i]
      BY <3>6, <3>7
    <3>9. \A x \in T : AlertRight(x)
      BY <2>2, <3>5 DEF T
    <3>10. \A i \in 1..Len(alerts') : alerts'[i].id = i
      <4> TAKE i \in 1..Len(alerts')
      <4>1. i = n + 1 \/ i \in 1..n
        BY <2>3, <3>8
      <4> QED
        BY <2>3, <3>5, <3>8, <4>1
    <3> QED
      BY <2>1, <3>8, <3>9, <3>10 DEF AlertsRight
  <2>5. CASE SetStatus
    <3>1. PICK i \in DOMAIN alerts, status \in {"open", "resolved"} :
             alerts' = [alerts EXCEPT ![i].status = status]
      BY <2>5 DEF SetStatus
    <3> DEFINE b == [alerts[i] EXCEPT !.status = status]
               T == S \cup {b}
    <3>2. alerts' = [alerts EXCEPT ![i] = b]
      BY <3>1
    <3>3. i \in 1..n /\ alerts[i].id = i /\ AlertRight(alerts[i])
      BY <2>2, <2>3, <3>1
    <3>4. b = [id |-> alerts[i].id, src |-> alerts[i].src, account |-> alerts[i].account,
               severity |-> alerts[i].severity, score |-> alerts[i].score, at |-> alerts[i].at,
               status |-> status]
      BY <3>3, AlertExcept DEF AlertRight
    <3> HIDE DEF b
    <3>5. AlertRight(b) /\ b.id = i
      BY <3>3, <3>4 DEF AlertRight, AlertShaped
    <3>6. alerts \in Seq(T) /\ b \in T
      BY <2>2, WiderSequence
    <3> HIDE DEF T
    <3>7. /\ alerts' \in Seq(T) /\ Len(alerts') = n
          /\ \A j \in 1..n : alerts'[j] = IF j = i THEN b ELSE alerts[j]
      BY <2>3, <3>2, <3>3, <3>6
    <3>8. \A x \in T : AlertRight(x)
      BY <2>2, <3>5 DEF T
    <3> QED
      BY <2>1, <2>3, <3>5, <3>7, <3>8 DEF AlertsRight
  <2>6. CASE alerts' = alerts
    BY <2>1, <2>6 DEF AlertsRight
  <2>7. Raise \/ SetStatus \/ alerts' = alerts
    BY DEF TrafficNext, Process, Clean, Flush, Restart, Tick, trafficVars
  <2> QED
    BY <2>4, <2>5, <2>6, <2>7
<1> QED
  BY <1>1, <1>2, PTL DEF TrafficSpec

LEMMA KeptAtMembers ==
    ASSUME NEW s, NEW n \in Nat, DOMAIN s = 1..n, NEW places \in SUBSET (1..n)
    PROVE  LET m == Cardinality(places)
               kept == Paths!KeptAt(s, places)
           IN  /\ m \in Nat /\ DOMAIN kept = 1..m /\ Len(kept) = m
               /\ \A p \in 1..m : \E i \in places : kept[p] = s[i]
               /\ \A i \in places : \E p \in 1..m : kept[p] = s[i]
               /\ (\A i, j \in places : s[i] = s[j] => i = j) => \A p, q \in 1..m : kept[p] = kept[q] => p = q
<1> DEFINE m == Cardinality(places)
           order == Arranged(places, Ascending(places))
           kept == Paths!KeptAt(s, places)
<1>1. m \in Nat /\ order \in Bijection(1..m, places) /\ KeptAt(s, places) = [p \in 1..m |-> s[order[p]]]
  BY KeptAtPlaces
<1>2. kept = KeptAt(s, places)
  BY DEF Paths!KeptAt, Paths!Arranged, Paths!Ascending, KeptAt, Arranged, Ascending, Paths!Cardinality, Cardinality
<1> HIDE DEF order, kept, m
<1>3. /\ \A p \in 1..m : order[p] \in places
      /\ \A p, q \in 1..m : order[p] = order[q] => p = q
      /\ \A i \in places : \E p \in 1..m : order[p] = i
  BY <1>1 DEF Bijection, Injection, Surjection, IsInjective
<1>4. kept = [p \in 1..m |-> s[order[p]]]
  BY <1>1, <1>2
<1>5. DOMAIN kept = 1..m /\ Len(kept) = m
  BY <1>1, <1>4
<1>6. \A p \in 1..m : kept[p] = s[order[p]]
  BY <1>4
<1>7. (\A i, j \in places : s[i] = s[j] => i = j) => \A p, q \in 1..m : kept[p] = kept[q] => p = q
  <2> SUFFICES ASSUME \A i, j \in places : s[i] = s[j] => i = j, NEW p \in 1..m, NEW q \in 1..m, kept[p] = kept[q]
               PROVE  p = q
    OBVIOUS
  <2>1. order[p] \in places /\ order[q] \in places /\ s[order[p]] = s[order[q]]
    BY <1>3, <1>6
  <2>2. order[p] = order[q]
    BY <2>1
  <2> QED
    BY <1>3, <2>2
<1>8. \A p \in 1..m : \E i \in places : kept[p] = s[i]
  BY <1>3, <1>6
<1>9. \A i \in places : \E p \in 1..m : kept[p] = s[i]
  BY <1>3, <1>6
<1> QED
  BY <1>1, <1>5, <1>7, <1>8, <1>9 DEF kept, m

LEMMA HighestIsNumber ==
    ASSUME NEW n \in Nat \ {0}, NEW f \in [1..n -> Int], NEW S, S = {f[i] : i \in 1..n}
    PROVE  Paths!Highest(S) \in Int
<1> DEFINE order == Arranged(1..n, ByKey(n, f))
<1>1. /\ order \in Bijection(1..n, 1..n)
      /\ \A p, q \in 1..n : p < q => f[order[p]] <= f[order[q]]
  BY ByKeyInOrder
<1> HIDE DEF order
<1>2. /\ \A p \in 1..n : order[p] \in 1..n
      /\ \A i \in 1..n : \E p \in 1..n : order[p] = i
  BY <1>1 DEF Bijection, Injection, Surjection, IsInjective
<1> DEFINE x == f[order[n]]
<1>3. n \in 1..n /\ x \in S
  <2>1. n \in 1..n
    OBVIOUS
  <2>2. order[n] \in 1..n
    BY <1>2, <2>1
  <2> QED
    BY <2>1, <2>2
<1>4. \A y \in S : x >= y
  <2> TAKE y \in S
  <2>1. PICK i \in 1..n : y = f[i]
    OBVIOUS
  <2>2. PICK p \in 1..n : order[p] = i
    BY <1>2
  <2>3. p = n \/ p < n
    OBVIOUS
  <2>4. f[order[p]] \in Int /\ f[order[n]] \in Int /\ (p < n => f[order[p]] <= f[order[n]])
    BY <1>1, <1>2, <1>3
  <2> QED
    BY <2>1, <2>2, <2>3, <2>4
<1>5. Paths!Highest(S) \in S
  BY <1>3, <1>4 DEF Paths!Highest
<1>6. S \subseteq Int
  OBVIOUS
<1> QED
  BY <1>5, <1>6

(* The alerts of a source. *)
Members(refs, k) == {i \in DOMAIN refs : Paths!GroupOf(refs[i]) = k}

LEMMA GroupMembers ==
    ASSUME NEW refs, NEW n \in Nat, DOMAIN refs = 1..n, NEW k
    PROVE  LET g == Paths!Group(refs, k)
               m == Cardinality(Members(refs, k))
           IN  /\ m \in Nat /\ DOMAIN g = 1..m /\ Len(g) = m
               /\ \A p \in 1..m : \E i \in Members(refs, k) : g[p] = refs[i]
               /\ \A i \in Members(refs, k) : \E p \in 1..m : g[p] = refs[i]
<1> DEFINE places == Members(refs, k)
<1>1. places \in SUBSET (1..n)
  BY DEF Members
<1>2. Paths!Group(refs, k) = Paths!KeptAt(refs, places)
  BY DEF Paths!Group, Paths!Selected, Members
<1> HIDE DEF places
<1>3. LET m == Cardinality(places)
          kept == Paths!KeptAt(refs, places)
      IN  /\ m \in Nat /\ DOMAIN kept = 1..m /\ Len(kept) = m
          /\ \A p \in 1..m : \E i \in places : kept[p] = refs[i]
          /\ \A i \in places : \E p \in 1..m : kept[p] = refs[i]
  BY ONLY <1>1, KeptAtMembers, n \in Nat, DOMAIN refs = 1..n
<1> QED
  BY <1>2, <1>3 DEF places

(* The path of a source has all its alerts. *)
LEMMA PathMembers ==
    ASSUME NEW refs, NEW n \in Nat, DOMAIN refs = 1..n, \A i \in 1..n : refs[i].at \in Nat, NEW k
    PROVE  \A i \in Members(refs, k) : refs[i] \in Range(Paths!PathOf(refs, k))
<1> DEFINE g == Paths!Group(refs, k)
           m == Cardinality(Members(refs, k))
           key == [p \in 1..m |-> g[p].at]
           order == Arranged(1..m, ByKey(m, key))
<1>1. /\ m \in Nat /\ DOMAIN g = 1..m
      /\ \A p \in 1..m : \E i \in Members(refs, k) : g[p] = refs[i]
      /\ \A i \in Members(refs, k) : \E p \in 1..m : g[p] = refs[i]
  BY GroupMembers
<1> HIDE DEF g, m
<1>2. key \in [1..m -> Int]
  <2>1. \A p \in 1..m : g[p].at \in Int
    BY <1>1 DEF Members
  <2> QED
    BY <2>1
<1>3. order \in Bijection(1..m, 1..m)
  BY <1>1, <1>2, ByKeyInOrder
<1>4. Paths!Stable(g, LAMBDA a, b : a.at < b.at) = ByKey(m, key)
  BY <1>1 DEF Paths!Stable, ByKey
<1>5. Paths!PathOf(refs, k) = [p \in 1..m |-> g[order[p]]]
  <2>1. Paths!PathOf(refs, k) = Paths!Sorted(g, LAMBDA a, b : a.at < b.at)
    BY DEF Paths!PathOf, g
  <2>2. Paths!Sorted(g, LAMBDA a, b : a.at < b.at)
          = [p \in 1..m |-> g[Arranged(1..m, Paths!Stable(g, LAMBDA a, b : a.at < b.at))[p]]]
    BY <1>1 DEF Paths!Sorted, Paths!Arranged, Arranged, Paths!Cardinality, Cardinality
  <2> QED
    BY <1>4, <2>1, <2>2
<1> HIDE DEF order
<1>6. \A q \in 1..m : \E p \in 1..m : order[p] = q
  BY <1>3 DEF Bijection, Surjection
<1> QED
  <2> SUFFICES ASSUME NEW i \in Members(refs, k) PROVE refs[i] \in Range(Paths!PathOf(refs, k))
    OBVIOUS
  <2>1. PICK q \in 1..m : g[q] = refs[i]
    BY <1>1
  <2>2. PICK p \in 1..m : order[p] = q
    BY <1>6
  <2> QED
    BY <1>5, <2>1, <2>2 DEF Range

(* Every source has one key. *)
LEMMA KeysOnce ==
    ASSUME NEW refs, NEW n \in Nat, DOMAIN refs = 1..n
    PROVE  LET keys == Paths!Keys(refs)
           IN  \E m \in Nat :
                 /\ DOMAIN keys = 1..m
                 /\ \A p, q \in 1..m : keys[p] = keys[q] => p = q
                 /\ \A i \in 1..n : \E p \in 1..m : keys[p] = Paths!GroupOf(refs[i])
<1> DEFINE groups == [i \in 1..n |-> Paths!GroupOf(refs[i])]
           firsts == {i \in 1..n : \A j \in 1..n : j < i => groups[j] # groups[i]}
           m == Cardinality(firsts)
           keys == Paths!KeptAt(groups, firsts)
<1>1. Paths!Keys(refs) = keys
  <2>1. groups = [i \in DOMAIN refs |-> Paths!GroupOf(refs[i])]
    OBVIOUS
  <2>2. firsts = {i \in DOMAIN refs : \A j \in DOMAIN refs :
                    j < i => Paths!GroupOf(refs[j]) # Paths!GroupOf(refs[i])}
    OBVIOUS
  <2> HIDE DEF groups, firsts
  <2> QED
    BY <2>1, <2>2 DEF Paths!Keys
<1>2. \A i, j \in firsts : groups[i] = groups[j] => i = j
  <2> TAKE i, j \in firsts
  <2>1. (j < i => groups[j] # groups[i]) /\ (i < j => groups[i] # groups[j]) /\ i \in 1..n /\ j \in 1..n
    OBVIOUS
  <2> HIDE DEF groups, firsts
  <2> QED
    BY <2>1
<1>3. firsts \in SUBSET (1..n) /\ DOMAIN groups = 1..n
  OBVIOUS
<1> HIDE DEF keys
<1>4. /\ m \in Nat /\ DOMAIN keys = 1..m
      /\ \A i \in firsts : \E p \in 1..m : keys[p] = groups[i]
      /\ \A p, q \in 1..m : keys[p] = keys[q] => p = q
  <2> HIDE DEF groups, firsts
  <2> QED
    BY <1>2, <1>3, KeptAtMembers DEF keys
<1>5. ASSUME NEW i \in 1..n PROVE \E p \in 1..m : keys[p] = groups[i]
  <2> DEFINE same == {j \in 1..n : groups[j] = groups[i]}
  <2>1. same \subseteq Nat /\ same # {}
    OBVIOUS
  <2> HIDE DEF m
  <2>2. PICK j \in same : \A y \in same : ~(<<y, j>> \in OpToRel(<, Nat))
    BY ONLY <2>1, WFMin, NatLessThanWellFounded
  <2>3. \A y \in same : ~(y < j)
    BY <2>1, <2>2 DEF OpToRel
  <2>4. j \in firsts /\ groups[j] = groups[i]
    BY <2>3
  <2> QED
    BY <1>4, <2>4
<1>6. \A i \in 1..n : groups[i] = Paths!GroupOf(refs[i])
  OBVIOUS
<1> HIDE DEF m, groups, firsts
<1>7. \A i \in 1..n : \E p \in 1..m : keys[p] = Paths!GroupOf(refs[i])
  BY <1>5, <1>6
<1>8. \E k \in Nat :
        /\ DOMAIN keys = 1..k
        /\ \A p, q \in 1..k : keys[p] = keys[q] => p = q
        /\ \A i \in 1..n : \E p \in 1..k : keys[p] = Paths!GroupOf(refs[i])
  BY ONLY <1>4, <1>7
<1> QED
  BY ONLY <1>1, <1>8

LEMMA WantedIsOne ==
    ASSUME NEW refs, NEW n \in Nat, DOMAIN refs = 1..n, NEW asked \in Nat, NEW i \in 1..n,
           refs[i].id = asked, \A j \in 1..n : refs[j].id = asked => j = i
    PROVE  LET w == Paths!Wanted(refs, Paths!Keys(refs), asked)
           IN  DOMAIN w = 1..1 /\ w[1] = Paths!GroupOf(refs[i])
<1> DEFINE keys == Paths!Keys(refs)
           key == Paths!GroupOf(refs[i])
           has(k) == \E a \in Range(Paths!Group(refs, k)) : a.id = asked
           places == {q \in DOMAIN keys : has(keys[q])}
           w == Paths!Wanted(refs, keys, asked)
<1>1. \A k : has(k) <=> k = key
  <2> TAKE k
  <2> DEFINE g == Paths!Group(refs, k)
             m == Cardinality(Members(refs, k))
  <2>1. /\ DOMAIN g = 1..m
        /\ \A p \in 1..m : \E j \in Members(refs, k) : g[p] = refs[j]
        /\ \A j \in Members(refs, k) : \E p \in 1..m : g[p] = refs[j]
    BY GroupMembers
  <2> HIDE DEF g, m
  <2>2. Range(g) = {g[p] : p \in 1..m}
    BY <2>1 DEF Range
  <2>3. \A j \in Members(refs, k) : j \in 1..n /\ Paths!GroupOf(refs[j]) = k
    BY DEF Members
  <2>4. ASSUME has(k) PROVE k = key
    <3>1. PICK p \in 1..m : g[p].id = asked
      BY <2>2, <2>4 DEF g
    <3>2. PICK j \in Members(refs, k) : g[p] = refs[j]
      BY <2>1
    <3> QED
      BY <2>3, <3>1, <3>2
  <2>5. ASSUME k = key PROVE has(k)
    <3>1. i \in Members(refs, k)
      BY <2>5 DEF Members
    <3>2. PICK p \in 1..m : g[p] = refs[i]
      BY <2>1, <3>1
    <3>3. g[p] \in Range(g) /\ g[p].id = asked
      BY <2>2, <3>2
    <3> QED
      BY <3>3 DEF g
  <2> QED
    BY <2>4, <2>5
<1>2. PICK m \in Nat :
        /\ DOMAIN keys = 1..m
        /\ \A p, q \in 1..m : keys[p] = keys[q] => p = q
        /\ \A j \in 1..n : \E p \in 1..m : keys[p] = Paths!GroupOf(refs[j])
  BY KeysOnce
<1>3. PICK q \in 1..m : keys[q] = key
  BY <1>2
<1>4. w = Paths!KeptAt(keys, places)
  <2>1. asked # NoId
    BY TrafficAssumption
  <2> QED
    BY <2>1 DEF Paths!Wanted, Paths!Selected, Paths!Range, Range
<1> HIDE DEF keys, key, w, has
<1>5. places = {q}
  BY <1>1, <1>2, <1>3
<1>6. /\ 1 \in Nat /\ Cardinality({q}) = 1
      /\ {q} \in SUBSET (1..m)
  BY FS_Singleton
<1>7. DOMAIN w = 1..1 /\ w[1] = keys[q]
  <2>1. w = Paths!KeptAt(keys, {q})
    BY <1>4, <1>5
  <2> HIDE DEF places
  <2>2. DOMAIN w = 1..1 /\ \A p \in 1..1 : \E j \in {q} : w[p] = keys[j]
    <3>1. DOMAIN keys = 1..m
      BY <1>2
    <3>2. LET k == Cardinality({q})
              kept == Paths!KeptAt(keys, {q})
          IN  /\ k \in Nat /\ DOMAIN kept = 1..k /\ Len(kept) = k
              /\ \A p \in 1..k : \E j \in {q} : kept[p] = keys[j]
              /\ \A j \in {q} : \E p \in 1..k : kept[p] = keys[j]
      BY ONLY <1>6, <3>1, m \in Nat, KeptAtMembers
    <3> QED
      BY <1>6, <2>1, <3>2
  <2> QED
    BY <2>2
<1> QED
  BY <1>3, <1>7 DEF w, keys, key

(* No source is worse than itself, so that a list of one can be sorted. *)
LEMMA NotWorseThanItself ==
    ASSUME NEW refs, NEW n \in Nat, DOMAIN refs = 1..n, NEW i \in 1..n,
           \A j \in 1..n : refs[j].severity \in Int /\ refs[j].score \in Int
    PROVE  LET k == Paths!GroupOf(refs[i]) IN ~Paths!Worse(refs, k, k)
<1> DEFINE k == Paths!GroupOf(refs[i])
           g == Paths!Group(refs, k)
           m == Cardinality(Members(refs, k))
<1>1. /\ m \in Nat /\ DOMAIN g = 1..m
      /\ \A p \in 1..m : \E j \in Members(refs, k) : g[p] = refs[j]
      /\ \A j \in Members(refs, k) : \E p \in 1..m : g[p] = refs[j]
  <2> HIDE DEF k
  <2> QED
    BY GroupMembers
<1>2. i \in Members(refs, k) /\ Members(refs, k) \subseteq 1..n
  BY DEF Members
<1> HIDE DEF g, m, k
<1>3. m \in Nat \ {0}
  BY <1>1, <1>2
<1>4. \A p \in 1..m : g[p].severity \in Int /\ g[p].score \in Int
  BY <1>1, <1>2
<1> DEFINE severity == [p \in 1..m |-> g[p].severity]
           score == [p \in 1..m |-> g[p].score]
           s == {a.severity : a \in Paths!Range(g)}
           c == {a.score : a \in Paths!Range(g)}
<1>5. severity \in [1..m -> Int] /\ score \in [1..m -> Int]
  BY <1>4
<1>6. s = {severity[p] : p \in 1..m} /\ c = {score[p] : p \in 1..m}
  <2>1. Paths!Range(g) = {g[p] : p \in 1..m}
    BY <1>1 DEF Paths!Range
  <2> QED
    BY <2>1
<1> HIDE DEF severity, score, s, c
<1>7. Paths!Highest(s) \in Int /\ Paths!Highest(c) \in Int
  BY ONLY <1>3, <1>5, <1>6, HighestIsNumber
<1>8. ~Paths!Worse(refs, k, k)
  BY <1>7 DEF Paths!Worse, s, c, g
<1> QED
  BY <1>8 DEF k

(* A list of one stays what it is when it is sorted and cut. *)
LEMMA SortedOne ==
    ASSUME NEW refs, NEW asked, NEW w, w = Paths!Wanted(refs, Paths!Keys(refs), asked),
           DOMAIN w = 1..1, ~Paths!Worse(refs, w[1], w[1])
    PROVE  Len(Paths!Shown(refs, asked, 1)) = 1 /\ Paths!Shown(refs, asked, 1)[1] = w[1]
<1> DEFINE R == Paths!Stable(w, LAMBDA k, l : Paths!Worse(refs, k, l))
           order == Arranged(1..1, R)
           sorted == Paths!Sorted(w, LAMBDA k, l : Paths!Worse(refs, k, l))
<1>1. R = {}
  BY DEF Paths!Stable
<1> HIDE DEF R, order, sorted
<1>2. StrictOrder(R, 1..1)
  <2>1. \A i, j \in 1..1 : i = j
    OBVIOUS
  <2> QED
    BY ONLY <1>1, <2>1 DEF StrictOrder
<1>3. IsFiniteSet(1..1) /\ Cardinality(1..1) = 1
  <2>1. 1..1 = {1}
    OBVIOUS
  <2> QED
    BY ONLY <2>1, FS_Singleton
<1>4. order \in Bijection(1..1, 1..1)
  BY <1>2, <1>3, ArrangedInOrder DEF order
<1>5. order[1] = 1
  BY <1>4 DEF Bijection, Injection
<1>6. sorted = [p \in 1..1 |-> w[order[p]]]
  BY DEF Paths!Sorted, Paths!Arranged, Arranged, Paths!Cardinality, Cardinality, R, order, sorted
<1>7. sorted \in Seq({w[1]}) /\ Len(sorted) = 1 /\ sorted[1] = w[1]
  BY <1>5, <1>6
<1>8. Paths!Limited(sorted, 1) = SubSeq(sorted, 1, 1)
  BY <1>7 DEF Paths!Limited
<1>9. Len(SubSeq(sorted, 1, 1)) = 1 /\ SubSeq(sorted, 1, 1)[1] = w[1]
  BY <1>7
<1>10. Paths!Shown(refs, asked, 1) = Paths!Limited(sorted, 1)
  BY DEF Paths!Shown, sorted
<1> QED
  BY <1>8, <1>9, <1>10

(* The references of a request have the alert that is asked for, once. *)
LEMMA AskedIsReferred ==
    ASSUME AlertsRight, NEW asked \in DOMAIN alerts
    PROVE  LET refs == Paths!Refs(alerts, asked)
           IN  \E n \in Nat :
                 /\ DOMAIN refs = 1..n
                 /\ \A j \in 1..n : AlertRight(refs[j])
                 /\ \E i \in 1..n : refs[i].id = asked /\ \A j \in 1..n : refs[j].id = asked => j = i
<1> DEFINE refs == Paths!Refs(alerts, asked)
           places == {i \in DOMAIN alerts : alerts[i].status # "closed" \/ alerts[i].id = asked}
           n == Len(alerts)
           m == Cardinality(places)
<1>1. n \in Nat /\ DOMAIN alerts = 1..n /\ \A i \in 1..n : alerts[i].id = i /\ AlertRight(alerts[i])
  <2>1. PICK S : alerts \in Seq(S) /\ \A a \in S : AlertRight(a)
    BY DEF AlertsRight
  <2>2. n \in Nat /\ DOMAIN alerts = 1..n /\ \A i \in 1..n : alerts[i] \in S
    BY <2>1
  <2> QED
    BY <2>1, <2>2 DEF AlertsRight
<1>2. refs = Paths!KeptAt(alerts, places)
  BY DEF Paths!Refs, Paths!Selected
<1>3. places \in SUBSET (1..n) /\ asked \in places
  BY <1>1
<1>4. \A i, j \in places : alerts[i] = alerts[j] => i = j
  BY <1>1, <1>3
<1> HIDE DEF refs, places, n
<1>5. /\ m \in Nat /\ DOMAIN refs = 1..m
      /\ \A p \in 1..m : \E i \in places : refs[p] = alerts[i]
      /\ \A i \in places : \E p \in 1..m : refs[p] = alerts[i]
      /\ \A p, q \in 1..m : refs[p] = refs[q] => p = q
  <2>1. DOMAIN alerts = 1..n /\ n \in Nat
    BY <1>1
  <2>2. LET kept == Paths!KeptAt(alerts, places)
        IN  /\ m \in Nat /\ DOMAIN kept = 1..m /\ Len(kept) = m
            /\ \A p \in 1..m : \E i \in places : kept[p] = alerts[i]
            /\ \A i \in places : \E p \in 1..m : kept[p] = alerts[i]
            /\ (\A i, j \in places : alerts[i] = alerts[j] => i = j) =>
                  \A p, q \in 1..m : kept[p] = kept[q] => p = q
    BY ONLY <1>3, <2>1, KeptAtMembers
  <2> QED
    BY ONLY <1>2, <1>4, <2>2
<1> HIDE DEF m
<1>6. \A j \in 1..m : AlertRight(refs[j])
  BY <1>1, <1>3, <1>5
<1>7. PICK i \in 1..m : refs[i] = alerts[asked]
  BY <1>3, <1>5
<1>8. refs[i].id = asked
  BY <1>1, <1>3, <1>7
<1>9. ASSUME NEW j \in 1..m, refs[j].id = asked PROVE j = i
  <2>1. PICK l \in places : refs[j] = alerts[l]
    BY <1>5
  <2>2. l = asked
    BY <1>1, <1>3, <1>9, <2>1
  <2> QED
    BY <1>5, <1>7, <2>1, <2>2
<1>10. \E k \in Nat :
         /\ DOMAIN refs = 1..k
         /\ \A j \in 1..k : AlertRight(refs[j])
         /\ \E x \in 1..k : refs[x].id = asked /\ \A j \in 1..k : refs[j].id = asked => j = x
  BY ONLY <1>5, <1>6, <1>8, <1>9, i \in 1..m
<1> QED
  BY <1>10 DEF refs

(* Whoever asks for an alert is shown its path, however few paths are asked *)
(* for and whatever the severity of the others (Attack, AttackGraphHandler). *)
THEOREM AskedCorrect == TrafficSpec => []AskedIsShown
<1>1. AlertsRight => AskedIsShown
  <2> SUFFICES ASSUME AlertsRight, NEW asked \in DOMAIN alerts
               PROVE  LET refs == Paths!Refs(alerts, asked)
                          shown == Paths!Shown(refs, asked, 1)
                      IN  Len(shown) = 1 /\ \E a \in Range(Paths!PathOf(refs, shown[1])) : a.id = asked
    BY DEF AskedIsShown
  <2> DEFINE refs == Paths!Refs(alerts, asked)
             shown == Paths!Shown(refs, asked, 1)
             w == Paths!Wanted(refs, Paths!Keys(refs), asked)
  <2>1. PICK n \in Nat :
          /\ DOMAIN refs = 1..n
          /\ \A j \in 1..n : AlertRight(refs[j])
          /\ \E i \in 1..n : refs[i].id = asked /\ \A j \in 1..n : refs[j].id = asked => j = i
    BY AskedIsReferred
  <2>2. PICK i \in 1..n : refs[i].id = asked /\ \A j \in 1..n : refs[j].id = asked => j = i
    BY <2>1
  <2> HIDE DEF refs
  <2>3. \A j \in 1..n : /\ refs[j].severity \in Int /\ refs[j].score \in Int
                        /\ refs[j].at \in Nat /\ refs[j].id \in Nat
    BY <2>1 DEF AlertRight
  <2>4. asked \in Nat /\ DOMAIN refs = 1..n
    BY <2>1, <2>2, <2>3
  <2>5. DOMAIN w = 1..1 /\ w[1] = Paths!GroupOf(refs[i])
    BY <2>2, <2>4, WantedIsOne
  <2>6. ~Paths!Worse(refs, w[1], w[1])
    BY <2>3, <2>4, <2>5, NotWorseThanItself
  <2>7. w = Paths!Wanted(refs, Paths!Keys(refs), asked)
    OBVIOUS
  <2> HIDE DEF w
  <2>8. Len(shown) = 1 /\ shown[1] = w[1]
    <3>1. DOMAIN w = 1..1
      BY <2>5
    <3> QED
      BY ONLY <2>6, <2>7, <3>1, SortedOne
  <2> HIDE DEF shown
  <2>9. i \in Members(refs, w[1])
    BY <2>4, <2>5 DEF Members
  <2>10. refs[i] \in Range(Paths!PathOf(refs, w[1]))
    BY <2>3, <2>4, <2>9, PathMembers
  <2>11. Len(shown) = 1 /\ \E a \in Range(Paths!PathOf(refs, shown[1])) : a.id = asked
    BY <2>2, <2>8, <2>10
  <2> QED
    BY <2>11 DEF shown, refs
<1> QED
  BY <1>1, AlertsAlways, PTL
=============================================================================
