--------------------------- MODULE SessionsProofs ---------------------------
(***************************************************************************)
(* Proofs about Sessions, for any number of requests and sessions, any     *)
(* policies and any length of a behaviour.  Timely is what holds whatever  *)
(* requests overlap; InTurn is what holds while they take turns and        *)
(* settings can be read.                                                   *)
(***************************************************************************)
EXTENDS Sessions, FiniteSetTheorems, TLAPS

UseLabels == {"check", "touch", "delete"}

(* A session that ends then lasts no longer than some policy allows.       *)
Within(expires, start) == \E pol \in Policies : expires <= start + pol.max

TimelySession(t) ==
    /\ used[t] <= clock
    /\ Live(t) => /\ t <= signedIn /\ sessions[t].seen <= used[t]
                  /\ Within(sessions[t].expires, born[t])

(* What a request at label l knows of its session. *)
TimelyJob(l, j) ==
    /\ l \in UseLabels =>
         /\ j.token \in Tokens /\ j.token <= signedIn
         /\ j.seen <= used[j.token] /\ Within(j.expires, born[j.token])
    /\ l = "touch" => j.at <= used[j.token]
    /\ l = "create" => j.at <= clock /\ Within(j.expires, j.at)

Timely ==
    /\ \A t \in Tokens : TimelySession(t)
    /\ \A p \in Procs : TimelyJob(pc[p], job[p])

Sound == TypeOK /\ Timely

-----------------------------------------------------------------------------
(* Facts about the data.                                                   *)

LEMMA Numbers ==
    /\ MaxTime \in Nat /\ MaxSessions \in Nat /\ TouchGap \in Nat
    /\ Times \subseteq Nat /\ 0 \in Times /\ Tokens \subseteq Nat
    /\ DefaultPolicy \in Policies
    /\ \A pol \in Policies : pol.idle \in Nat /\ pol.max \in Nat
BY SessionsAssumption DEF Times, Tokens, Policy

LEMMA Absent == NoSession \notin [seen : Times, expires : Nat]
BY Numbers DEF NoSession

LEMMA LiveType ==
    ASSUME TypeOK, NEW t \in Tokens, Live(t)
    PROVE  /\ sessions[t] \in [seen : Times, expires : Nat]
           /\ sessions[t].seen \in Nat /\ sessions[t].expires \in Nat
BY Numbers DEF TypeOK, Live

JobType == [token : Tokens \cup {None}, seen : Times, expires : Nat, at : Times, policy : Policies]

LEMMA NoJobType == NoJob \in JobType
BY Numbers DEF NoJob, JobType

LEMMA JobOf ==
    ASSUME TypeOK, NEW p \in Procs
    PROVE  /\ job[p] \in JobType /\ job[p].token \in Tokens \cup {None}
           /\ job[p].seen \in Times /\ job[p].seen \in Nat
           /\ job[p].at \in Times /\ job[p].at \in Nat
           /\ job[p].expires \in Nat /\ job[p].policy \in Policies
<1>1. job[p] \in JobType
  BY DEF TypeOK, JobType
<1>. QED
  BY <1>1, Numbers DEF JobType

LEMMA TimesOf ==
    ASSUME TypeOK, NEW t \in Tokens
    PROVE  used[t] \in Nat /\ born[t] \in Nat /\ clock \in Nat /\ t \in Nat /\ signedIn \in Nat
<1>1. used[t] \in Times /\ born[t] \in Times /\ clock \in Times
  BY DEF TypeOK
<1>2. signedIn \in Nat
  BY Numbers DEF TypeOK
<1>. QED
  BY <1>1, <1>2, Numbers

(* Reading the policy: whichever it is, it is one of the policies.         *)
LEMMA UsesType ==
    ASSUME TypeOK, NEW pol, Uses(pol)
    PROVE  pol \in Policies /\ cached' \in [policy : Policies, at : Times \cup {-1}]
BY Numbers DEF TypeOK, Uses

LEMMA GotoType ==
    ASSUME TypeOK, NEW p \in Procs, NEW j \in JobType,
           NEW l \in {"idle", "cache", "create", "check", "touch", "delete"}, Goto(p, l, j)
    PROVE  /\ pc' \in [Procs -> {"idle", "cache", "create", "check", "touch", "delete"}]
           /\ job' \in [Procs -> JobType]
           /\ pc'[p] = l /\ job'[p] = j
           /\ \A q \in Procs : q # p => pc'[q] = pc[q] /\ job'[q] = job[q]
BY DEF TypeOK, Goto, JobType

LEMMA ReturnType ==
    ASSUME TypeOK, NEW p \in Procs, Return(p)
    PROVE  /\ pc' \in [Procs -> {"idle", "cache", "create", "check", "touch", "delete"}]
           /\ job' \in [Procs -> JobType]
           /\ pc'[p] = "idle" /\ job'[p] = NoJob
           /\ \A q \in Procs : q # p => pc'[q] = pc[q] /\ job'[q] = job[q]
BY NoJobType, GotoType DEF Return

-----------------------------------------------------------------------------
(* What holds whatever overlaps.                                           *)

LEMMA InitSound == Init => Sound
<1>. SUFFICES ASSUME Init PROVE Sound
  OBVIOUS
<1>1. TypeOK
  <2>1. cached \in [policy : Policies, at : Times \cup {-1}]
    BY Numbers DEF Init, NoCache
  <2>2. job \in [Procs -> JobType]
    BY NoJobType DEF Init
  <2>3. window \in [start : Times \cup {-1}, count : Nat]
    BY DEF Init
  <2>. QED
    BY <2>1, <2>2, <2>3, Numbers, FS_EmptySet DEF Init, TypeOK, JobType
<1>2. Timely
  BY Numbers DEF Init, Timely, TimelySession, TimelyJob, Live, UseLabels, Within
<1>. QED
  BY <1>1, <1>2 DEF Sound

LEMMA TickSound ==
    ASSUME Sound, Tick
    PROVE  Sound'
<1>1. clock' \in Times /\ clock \in Nat /\ clock' = clock + 1
  BY Numbers DEF Sound, TypeOK, Tick, Times
<1>2. TypeOK'
  BY <1>1 DEF Sound, TypeOK, Tick, ghosts
<1>3. Timely'
  <2>1. ASSUME NEW t \in Tokens PROVE used'[t] <= clock'
    BY <1>1, TimesOf DEF Sound, Timely, TimelySession, Tick, ghosts
  <2>2. ASSUME NEW p \in Procs, pc[p] = "create" PROVE job[p].at <= clock'
    BY <1>1, <2>2, JobOf DEF Sound, Timely, TimelyJob
  <2>3. \A t \in Tokens : Live(t)' <=> Live(t)
    BY DEF Tick, Live
  <2>. QED
    BY <2>1, <2>2, <2>3 DEF Sound, Timely, TimelySession, TimelyJob, Tick, ghosts, Within
<1>. QED
  BY <1>2, <1>3 DEF Sound

(* Nothing that Timely speaks of changes but what one request does next.   *)
LEMMA OthersTimely ==
    ASSUME Sound, NEW p \in Procs,
           clock' = clock, sessions' = sessions, signedIn' = signedIn,
           used' = used, born' = born,
           \A q \in Procs : q # p => pc'[q] = pc[q] /\ job'[q] = job[q],
           pc'[p] \notin UseLabels \cup {"create"}
    PROVE  Timely'
BY DEF Sound, Timely, TimelySession, TimelyJob, Live, Within, UseLabels

LEMMA PolicySound ==
    ASSUME Sound, NEW p \in Procs, UpdatePolicy(p) \/ CachePolicy(p)
    PROVE  Sound'
<1>1. CASE UpdatePolicy(p)
  <2>1. PICK old \in Policies, pol \in Policies :
          /\ Uses(old)
          /\ \/ stored' = pol /\ Goto(p, "cache", [NoJob EXCEPT !.policy = pol])
             \/ mode.fails /\ UNCHANGED <<stored, pc, job>>
          /\ UNCHANGED <<mode, clock, sessions, signedIn, window, ghosts>>
    BY <1>1 DEF UpdatePolicy
  <2>2. [NoJob EXCEPT !.policy = pol] \in JobType
    BY NoJobType DEF JobType, NoJob
  <2>3. CASE stored' = pol /\ Goto(p, "cache", [NoJob EXCEPT !.policy = pol])
    <3>1. TypeOK'
      BY <2>1, <2>2, <2>3, UsesType, GotoType DEF Sound, TypeOK, ghosts, JobType
    <3>. QED
      BY <2>1, <2>2, <2>3, <3>1, GotoType, OthersTimely DEF Sound, ghosts, UseLabels
  <2>4. CASE UNCHANGED <<stored, pc, job>>
    <3>1. TypeOK'
      BY <2>1, <2>4, UsesType DEF Sound, TypeOK, ghosts
    <3>. QED
      BY <2>1, <2>4, <3>1 DEF Sound, Timely, TimelySession, TimelyJob, ghosts, Live, Within
  <2>. QED
    BY <2>1, <2>3, <2>4
<1>2. CASE CachePolicy(p)
  <2>1. cached' \in [policy : Policies, at : Times \cup {-1}]
    BY <1>2 DEF CachePolicy, Sound, TypeOK
  <2>2. TypeOK'
    BY <1>2, <2>1, ReturnType DEF CachePolicy, Sound, TypeOK, ghosts, JobType
  <2>. QED
    BY <1>2, <2>2, ReturnType, OthersTimely DEF CachePolicy, Sound, ghosts, UseLabels
<1>. QED
  BY <1>1, <1>2

LEMMA LoginSound ==
    ASSUME Sound, NEW p \in Procs, Login(p)
    PROVE  Sound'
<1>. DEFINE let == Window.count <= LoginRate
<1>1. PICK pol \in Policies, right \in BOOLEAN :
        /\ Uses(pol) /\ window' = Window
        /\ attempts' = IF let THEN attempts \cup {[at |-> clock, nr |-> Window.count]}
                       ELSE attempts
        /\ IF let /\ right
           THEN Goto(p, "create", [NoJob EXCEPT !.at = clock, !.expires = clock + pol.max])
           ELSE UNCHANGED <<pc, job>>
        /\ UNCHANGED <<mode, clock, sessions, signedIn, stored, used, born, left>>
  BY DEF Login
<1>2. /\ window' \in [start : Times \cup {-1}, count : Nat]
      /\ IsFiniteSet(attempts') /\ attempts' \subseteq [at : Times, nr : Nat]
  <2>. HIDE DEF let
  <2>1. Window \in [start : Times \cup {-1}, count : Nat]
    BY Numbers DEF Sound, TypeOK, Window
  <2>2. PICK a : a = [at |-> clock, nr |-> Window.count]
    OBVIOUS
  <2>3. a \in [at : Times, nr : Nat]
    BY <2>1, <2>2 DEF Sound, TypeOK
  <2>4. IsFiniteSet(attempts \cup {a})
    BY FS_AddElement DEF Sound, TypeOK
  <2>. QED
    BY <1>1, <2>1, <2>2, <2>3, <2>4 DEF Sound, TypeOK
<1>. HIDE DEF let
<1>6. PICK j : j = [NoJob EXCEPT !.at = clock, !.expires = clock + pol.max]
  OBVIOUS
<1>7. clock + pol.max \in Nat /\ clock \in Times
  BY Numbers DEF Sound, TypeOK
<1>3. /\ j \in JobType /\ j.at = clock /\ j.expires = clock + pol.max
  BY <1>6, <1>7, NoJobType DEF JobType, NoJob
<1>4. CASE Goto(p, "create", j)
  <2>1. TypeOK'
    BY <1>1, <1>2, <1>3, <1>4, UsesType, GotoType DEF Sound, TypeOK, JobType
  <2>2. j.at <= clock' /\ Within(j.expires, j.at)' /\ pc'[p] = "create" /\ job'[p] = j
    BY <1>1, <1>3, <1>4, GotoType, Numbers DEF Sound, Within, TypeOK
  <2>3. TimelyJob("create", j)'
    BY <2>2 DEF TimelyJob, UseLabels
  <2>4. ASSUME NEW q \in Procs, q # p PROVE TimelyJob(pc[q], job[q])'
    BY <1>1, <1>3, <1>4, <2>4, GotoType DEF Sound, Timely, TimelyJob, Within
  <2>5. \A s \in Tokens : TimelySession(s)'
    BY <1>1 DEF Sound, Timely, TimelySession, Live, Within
  <2>6. Timely'
    BY <2>2, <2>3, <2>4, <2>5 DEF Timely
  <2>. QED
    BY <2>1, <2>6 DEF Sound
<1>5. CASE UNCHANGED <<pc, job>>
  <2>1. TypeOK'
    BY <1>1, <1>2, <1>5, UsesType DEF Sound, TypeOK
  <2>. QED
    BY <1>1, <1>5, <2>1 DEF Sound, Timely, TimelySession, TimelyJob, Live, Within
<1>. QED
  BY <1>1, <1>4, <1>5, <1>6

LEMMA CreateSessionSound ==
    ASSUME Sound, NEW p \in Procs, CreateSession(p)
    PROVE  Sound'
<1>0. PICK j, t : j = job[p] /\ t = signedIn + 1
  OBVIOUS
<1>1. /\ pc[p] = "create" /\ Return(p) /\ t \in Tokens /\ signedIn' = t
      /\ sessions' = [sessions EXCEPT ![t] = [seen |-> j.at, expires |-> j.expires]]
      /\ used' = [used EXCEPT ![t] = j.at] /\ born' = [born EXCEPT ![t] = j.at]
      /\ UNCHANGED <<mode, clock, stored, cached, window, calls, left, attempts>>
  BY <1>0 DEF CreateSession
<1>2. /\ j \in JobType /\ j.at \in Times /\ j.at \in Nat /\ j.expires \in Nat
      /\ j.at <= clock /\ Within(j.expires, j.at)
  BY <1>0, <1>1, JobOf DEF Sound, Timely, TimelyJob
<1>3. signedIn' \in 0 .. MaxSessions /\ signedIn \in Nat /\ t = signedIn + 1
  BY <1>0, <1>1, Numbers DEF Sound, TypeOK, Tokens
<1>4. TypeOK'
  BY <1>1, <1>2, <1>3, ReturnType DEF Sound, TypeOK, JobType
<1>5. /\ \A s \in Tokens : s # t => sessions'[s] = sessions[s] /\ used'[s] = used[s] /\ born'[s] = born[s]
      /\ sessions'[t] = [seen |-> j.at, expires |-> j.expires]
      /\ used'[t] = j.at /\ born'[t] = j.at
  BY <1>1 DEF Sound, TypeOK
<1>6. \A s \in Tokens : s <= signedIn => s # t /\ s <= signedIn'
  BY <1>1, <1>3, Numbers
<1>7. ASSUME NEW s \in Tokens PROVE TimelySession(s)'
  <2>1. CASE s = t
    <3>1. /\ sessions'[s].seen = j.at /\ sessions'[s].expires = j.expires
          /\ used'[s] = j.at /\ born'[s] = j.at
      BY <1>5, <2>1
    <3>2. Within(j.expires, j.at)'
      BY <1>2 DEF Within
    <3>. QED
      BY <1>1, <1>2, <1>3, <2>1, <3>1, <3>2 DEF TimelySession, Within
  <2>2. CASE s # t
    BY <1>1, <1>5, <1>6, <2>2 DEF Sound, Timely, TimelySession, Live, Within
  <2>. QED
    BY <2>1, <2>2
<1>8. ASSUME NEW q \in Procs PROVE TimelyJob(pc[q], job[q])'
  <2>1. CASE q = p
    <3>1. pc'[q] = "idle"
      BY <1>1, <2>1, ReturnType DEF Sound
    <3>. QED
      BY <3>1 DEF TimelyJob, UseLabels
  <2>2. CASE q # p
    <3>1. pc'[q] = pc[q] /\ job'[q] = job[q] /\ TimelyJob(pc[q], job[q])
      BY <1>1, <2>2, ReturnType DEF Sound, Timely
    <3>2. CASE pc[q] \in UseLabels
      BY <1>1, <1>5, <1>6, <3>1, <3>2 DEF TimelyJob, Within, UseLabels
    <3>3. CASE pc[q] \notin UseLabels
      BY <1>1, <3>1, <3>3 DEF TimelyJob, Within, UseLabels
    <3>. QED
      BY <3>2, <3>3
  <2>. QED
    BY <2>1, <2>2
<1>9. Timely'
  BY <1>7, <1>8 DEF Timely
<1>. QED
  BY <1>4, <1>9 DEF Sound

(* Where one request is done and sessions only end or are refreshed, what  *)
(* the others know stays true.                                             *)
LEMMA EndedTimely ==
    ASSUME Sound, NEW p \in Procs,
           UNCHANGED <<clock, signedIn, used, born>>,
           \A q \in Procs : q # p => pc'[q] = pc[q] /\ job'[q] = job[q],
           pc'[p] = "idle",
           \A t \in Tokens : sessions'[t] = NoSession \/ sessions'[t] = sessions[t]
                             \/ /\ Live(t) /\ sessions'[t].seen <= used[t]
                                /\ sessions'[t].expires = sessions[t].expires
    PROVE  Timely'
<1>1. ASSUME NEW q \in Procs PROVE TimelyJob(pc[q], job[q])'
  <2>1. CASE q = p
    BY <2>1 DEF TimelyJob, UseLabels
  <2>2. CASE q # p
    BY <2>2 DEF Sound, Timely, TimelyJob, Within
  <2>. QED
    BY <2>1, <2>2
<1>2. ASSUME NEW t \in Tokens PROVE TimelySession(t)'
  BY DEF Sound, Timely, TimelySession, Live, Within
<1>. QED
  BY <1>1, <1>2 DEF Timely

LEMMA ReadSessionSound ==
    ASSUME Sound, NEW p \in Procs, ReadSession(p)
    PROVE  Sound'
<1>1. PICK t \in Tokens :
        /\ Live(t)
        /\ Goto(p, "check", [NoJob EXCEPT !.token = t, !.seen = sessions[t].seen,
                                          !.expires = sessions[t].expires])
        /\ UNCHANGED <<mode, clock, sessions, signedIn, stored, cached, window, ghosts>>
  BY DEF ReadSession
<1>2. PICK j : j = [NoJob EXCEPT !.token = t, !.seen = sessions[t].seen,
                                 !.expires = sessions[t].expires]
  OBVIOUS
<1>3. /\ sessions[t] \in [seen : Times, expires : Nat] /\ TimelySession(t)
  BY <1>1, LiveType DEF Sound, Timely
<1>4. /\ j \in JobType /\ j.token = t /\ j.seen = sessions[t].seen
      /\ j.expires = sessions[t].expires
  BY <1>2, <1>3, NoJobType DEF JobType, NoJob
<1>5. TypeOK'
  BY <1>1, <1>2, <1>4, GotoType DEF Sound, TypeOK, JobType, ghosts
<1>6. TimelyJob("check", j)'
  BY <1>1, <1>3, <1>4 DEF TimelyJob, TimelySession, UseLabels, Within, ghosts
<1>7. ASSUME NEW q \in Procs PROVE TimelyJob(pc[q], job[q])'
  <2>1. CASE q = p
    <3>1. pc'[q] = "check" /\ job'[q] = j
      BY <1>1, <1>2, <1>4, <2>1, GotoType DEF Sound
    <3>. QED
      BY <1>6, <3>1
  <2>2. CASE q # p
    BY <1>1, <1>2, <1>4, <2>2, GotoType DEF Sound, Timely, TimelyJob, Within, ghosts
  <2>. QED
    BY <2>1, <2>2
<1>8. \A s \in Tokens : TimelySession(s)'
  BY <1>1 DEF Sound, Timely, TimelySession, Live, Within, ghosts
<1>. QED
  BY <1>5, <1>7, <1>8 DEF Sound, Timely

LEMMA CheckSound ==
    ASSUME Sound, NEW p \in Procs, Check(p)
    PROVE  Sound'
<1>0. PICK j : j = job[p]
  OBVIOUS
<1>1. PICK pol \in Policies :
        /\ pc[p] = "check" /\ Uses(pol)
        /\ used' = IF IsOver(j.seen, j.expires, pol) THEN used ELSE [used EXCEPT ![j.token] = clock]
        /\ \/ Goto(p, "delete", j)
           \/ Goto(p, "touch", [j EXCEPT !.at = clock]) /\ ~IsOver(j.seen, j.expires, pol)
           \/ Return(p)
        /\ left' \in {left, left \cup {j.token}}
        /\ UNCHANGED <<mode, clock, sessions, signedIn, stored, window, calls, born, attempts>>
  BY <1>0 DEF Check
<1>2. /\ j \in JobType /\ TimelyJob("check", j) /\ j.token \in Tokens
  BY <1>0, <1>1, JobOf DEF Sound, Timely, TimelyJob, UseLabels
<1>3. PICK k : k = [j EXCEPT !.at = clock]
  OBVIOUS
<1>4. /\ k \in JobType /\ k.at = clock /\ k.token = j.token /\ k.seen = j.seen
      /\ k.expires = j.expires
  BY <1>2, <1>3 DEF JobType, Sound, TypeOK
<1>5. /\ used' \in [Tokens -> Times] /\ clock \in Nat
      /\ \A t \in Tokens : used'[t] = used[t] \/ used'[t] = clock
      /\ \A t \in Tokens : used[t] <= used'[t] /\ used'[t] <= clock
      /\ ~IsOver(j.seen, j.expires, pol) => used'[j.token] = clock
  <2>1. used \in [Tokens -> Times] /\ clock \in Times /\ clock \in Nat
    BY Numbers DEF Sound, TypeOK
  <2>2. used' \in [Tokens -> Times] /\ \A t \in Tokens : used'[t] = used[t] \/ used'[t] = clock
    BY <1>1, <1>2, <2>1
  <2>3. \A t \in Tokens : used[t] \in Nat /\ used[t] <= clock
    BY <2>1, Numbers DEF Sound, Timely, TimelySession
  <2>. QED
    BY <1>1, <1>2, <2>1, <2>2, <2>3
<1>6. /\ pc' \in [Procs -> {"idle", "cache", "create", "check", "touch", "delete"}]
      /\ job' \in [Procs -> JobType]
      /\ \A q \in Procs : q # p => pc'[q] = pc[q] /\ job'[q] = job[q]
      /\ \/ pc'[p] = "delete" /\ job'[p] = j
         \/ pc'[p] = "touch" /\ job'[p] = k /\ used'[k.token] = clock
         \/ pc'[p] = "idle"
  BY <1>1, <1>2, <1>3, <1>4, <1>5, GotoType, ReturnType DEF Sound
<1>7. TypeOK'
  BY <1>1, <1>2, <1>5, <1>6, UsesType DEF Sound, TypeOK, JobType
<1>8. ASSUME NEW i \in JobType, NEW l, TimelyJob(l, i)
      PROVE  TimelyJob(l, i)'
  <2>1. i.seen \in Nat /\ i.at \in Nat
    BY Numbers DEF JobType
  <2>2. \A t \in Tokens : used[t] \in Nat /\ used'[t] \in Nat
    BY <1>5, Numbers DEF Sound, TypeOK
  <2>3. l = "touch" => i.token \in Tokens
    BY <1>8 DEF TimelyJob, UseLabels
  <2>. QED
    BY <1>1, <1>5, <1>8, <2>1, <2>2, <2>3 DEF TimelyJob, Within
<1>9. ASSUME NEW q \in Procs PROVE TimelyJob(pc[q], job[q])'
  <2>1. CASE q # p
    BY <1>6, <1>8, <2>1, JobOf DEF Sound, Timely
  <2>2. CASE q = p /\ pc'[p] = "delete" /\ job'[p] = j
    <3>1. TimelyJob("delete", j)
      BY <1>2 DEF TimelyJob, UseLabels
    <3>. QED
      BY <1>2, <1>8, <2>2, <3>1
  <2>3. CASE q = p /\ pc'[p] = "touch" /\ job'[p] = k /\ used'[k.token] = clock
    <3>1. TimelyJob("check", k)
      BY <1>2, <1>4 DEF TimelyJob, UseLabels
    <3>2. TimelyJob("check", k)'
      BY <1>4, <1>8, <3>1
    <3>. QED
      BY <1>1, <1>4, <1>5, <2>3, <3>2 DEF TimelyJob, UseLabels
  <2>4. CASE q = p /\ pc'[p] = "idle"
    BY <2>4 DEF TimelyJob, UseLabels
  <2>. QED
    BY <1>6, <2>1, <2>2, <2>3, <2>4
<1>10. ASSUME NEW t \in Tokens PROVE TimelySession(t)'
  <2>1. Live(t) => sessions[t].seen \in Nat
    BY LiveType DEF Sound
  <2>2. used[t] \in Nat /\ used'[t] \in Nat
    BY <1>5, Numbers DEF Sound, TypeOK
  <2>. QED
    BY <1>1, <1>5, <2>1, <2>2 DEF Sound, Timely, TimelySession, Live, Within
<1>. QED
  BY <1>7, <1>9, <1>10 DEF Sound, Timely

LEMMA DeleteSound ==
    ASSUME Sound, NEW p \in Procs, Delete(p)
    PROVE  Sound'
<1>1. TypeOK'
  BY ReturnType DEF Sound, TypeOK, Delete, JobType, ghosts
<1>2. \A t \in Tokens : sessions'[t] = NoSession \/ sessions'[t] = sessions[t]
  BY DEF Sound, TypeOK, Delete
<1>. QED
  BY <1>1, <1>2, ReturnType, EndedTimely DEF Sound, Delete, ghosts

LEMMA TouchSound ==
    ASSUME Sound, NEW p \in Procs, Touch(p)
    PROVE  Sound'
<1>0. PICK j : j = job[p]
  OBVIOUS
<1>1. /\ pc[p] = "touch" /\ Return(p)
      /\ sessions' = IF Live(j.token) THEN [sessions EXCEPT ![j.token].seen = j.at] ELSE sessions
      /\ UNCHANGED <<mode, clock, signedIn, stored, cached, window, calls, ghosts>>
  BY <1>0 DEF Touch, SeenAt
<1>2. /\ j.at \in Times /\ j.token \in Tokens /\ j.at <= used[j.token]
  BY <1>0, <1>1, JobOf DEF Sound, Timely, TimelyJob, UseLabels
<1>3. CASE ~Live(j.token)
  <2>1. TypeOK'
    BY <1>1, <1>3, ReturnType DEF Sound, TypeOK, JobType, ghosts
  <2>. QED
    BY <1>1, <1>3, <2>1, ReturnType, EndedTimely DEF Sound, ghosts
<1>4. CASE Live(j.token)
  <2>1. PICK r : r = [sessions[j.token] EXCEPT !.seen = j.at]
    OBVIOUS
  <2>2. /\ r \in [seen : Times, expires : Nat] /\ r.seen = j.at
        /\ r.expires = sessions[j.token].expires
    BY <1>2, <1>4, <2>1, LiveType DEF Sound
  <2>3. sessions' = [sessions EXCEPT ![j.token] = r]
    BY <1>1, <1>4, <2>1
  <2>4. TypeOK'
    BY <1>1, <1>2, <2>2, <2>3, ReturnType DEF Sound, TypeOK, JobType, ghosts
  <2>5. \A t \in Tokens : sessions'[t] = sessions[t]
                           \/ /\ Live(t) /\ sessions'[t].seen <= used[t]
                              /\ sessions'[t].expires = sessions[t].expires
    BY <1>2, <1>4, <2>2, <2>3 DEF Sound, TypeOK
  <2>. QED
    BY <1>1, <2>4, <2>5, ReturnType, EndedTimely DEF Sound, ghosts
<1>. QED
  BY <1>3, <1>4

LEMMA CleanupSound ==
    ASSUME Sound, Cleanup
    PROVE  Sound'
<1>1. PICK pol \in Policies :
        /\ Uses(pol)
        /\ sessions' = [t \in Tokens |->
               IF Live(t) /\ IsOver(sessions[t].seen, sessions[t].expires, pol)
               THEN NoSession ELSE sessions[t]]
        /\ UNCHANGED <<mode, clock, signedIn, stored, window, pc, job, calls, ghosts>>
  BY DEF Cleanup
<1>2. \A t \in Tokens : sessions'[t] = NoSession \/ sessions'[t] = sessions[t]
  BY <1>1
<1>3. sessions' \in [Tokens -> [seen : Times, expires : Nat] \cup {NoSession}]
  BY <1>1 DEF Sound, TypeOK
<1>4. TypeOK'
  BY <1>1, <1>3, UsesType DEF Sound, TypeOK, ghosts
<1>. QED
  BY <1>1, <1>2, <1>4 DEF Sound, Timely, TimelySession, TimelyJob, Live, Within, ghosts

LEMMA RestartSound ==
    ASSUME Sound, Restart
    PROVE  Sound'
<1>1. cached' \in [policy : Policies, at : Times \cup {-1}] /\ job' \in [Procs -> JobType]
      /\ window' \in [start : Times \cup {-1}, count : Nat]
  BY NoJobType, Numbers DEF Restart, NoCache
<1>2. TypeOK'
  BY <1>1, FS_EmptySet DEF Sound, TypeOK, Restart, JobType
<1>3. Timely'
  BY DEF Sound, Timely, TimelySession, TimelyJob, Live, Within, Restart, UseLabels
<1>. QED
  BY <1>2, <1>3 DEF Sound

LEMMA SoundStep == Sound /\ [Next]_vars => Sound'
<1>. SUFFICES ASSUME Sound, [Next]_vars PROVE Sound'
  OBVIOUS
<1>1. CASE UNCHANGED vars
  BY <1>1 DEF vars, Sound, TypeOK, Timely, TimelySession, TimelyJob, Live, Within
<1>2. CASE Tick \/ Cleanup \/ Restart
  BY <1>2, TickSound, CleanupSound, RestartSound
<1>3. ASSUME NEW p \in Procs,
             \/ UpdatePolicy(p) \/ CachePolicy(p) \/ Login(p) \/ CreateSession(p)
             \/ ReadSession(p) \/ Check(p) \/ Delete(p) \/ Touch(p)
      PROVE  Sound'
  BY <1>3, PolicySound, LoginSound, CreateSessionSound, ReadSessionSound, CheckSound,
     DeleteSound, TouchSound
<1>. QED
  BY <1>1, <1>2, <1>3 DEF Next

LEMMA SoundAlways == Spec => []Sound
BY InitSound, SoundStep, PTL DEF Spec

(* Sessions, requests, the cache and the limiter keep their types, whatever *)
(* requests overlap and however often the process is restarted.            *)
THEOREM TypeCorrect == Spec => []TypeOK
BY SoundAlways, PTL DEF Sound

(* However requests with one token overlap, none is accepted on a session  *)
(* that no policy would still let live: the request has read a time that   *)
(* is no later than the last use (Authenticate, TouchSession).             *)
THEOREM AcceptedCorrect == Spec => AcceptedInTime
<1>. DEFINE A == \A t \in 1 .. signedIn : used'[t] # used[t] =>
                    /\ \E pol \in Policies : clock - used[t] <= pol.idle
                    /\ \E pol \in Policies : clock < born[t] + pol.max
<1>1. ASSUME Sound, [Next]_vars PROVE A \/ UNCHANGED vars
  <2>. SUFFICES ASSUME Next, NEW t \in 1 .. signedIn, used'[t] # used[t]
                PROVE  /\ \E pol \in Policies : clock - used[t] <= pol.idle
                       /\ \E pol \in Policies : clock < born[t] + pol.max
    BY <1>1
  <2>1. t \in Tokens /\ t \in Nat /\ t <= signedIn /\ signedIn \in Nat
    BY <1>1, Numbers DEF Sound, TypeOK, Tokens
  <2>2. PICK p \in Procs : CreateSession(p) \/ Check(p)
    BY DEF Next, Tick, Cleanup, Restart, UpdatePolicy, CachePolicy, Login, ReadSession, Delete,
       Touch, ghosts
  <2>3. CASE CreateSession(p)
    <3>1. used'[t] = used[t]
      BY <1>1, <2>1, <2>3 DEF CreateSession, Sound, TypeOK
    <3>. QED
      BY <3>1
  <2>4. CASE Check(p)
    <3>0. PICK j : j = job[p]
      OBVIOUS
    <3>1. PICK pol \in Policies :
            /\ pc[p] = "check" /\ Uses(pol)
            /\ used' = IF IsOver(j.seen, j.expires, pol) THEN used
                       ELSE [used EXCEPT ![j.token] = clock]
      BY <2>4, <3>0 DEF Check
    <3>2. /\ j.token \in Tokens /\ j.seen <= used[j.token] /\ Within(j.expires, born[j.token])
          /\ j.seen \in Nat /\ j.expires \in Nat
      BY <1>1, <3>0, <3>1, JobOf DEF Sound, Timely, TimelyJob, UseLabels
    <3>3. ~IsOver(j.seen, j.expires, pol) /\ j.token = t
      BY <1>1, <2>1, <3>1, <3>2 DEF Sound, TypeOK
    <3>4. clock - j.seen <= pol.idle /\ clock < j.expires
      BY <1>1, <2>1, <3>2, <3>3, TimesOf, Numbers DEF IsOver, Sound
    <3>5. clock - used[t] <= pol.idle
      BY <1>1, <2>1, <3>2, <3>3, <3>4, TimesOf, Numbers DEF Sound
    <3>6. PICK longest \in Policies : j.expires <= born[t] + longest.max
      BY <3>2, <3>3 DEF Within
    <3>7. clock < born[t] + longest.max
      BY <1>1, <2>1, <3>2, <3>4, <3>6, TimesOf, Numbers DEF Sound
    <3>. QED
      BY <3>5, <3>7
  <2>. QED
    BY <2>2, <2>3, <2>4
<1>2. Sound /\ [Next]_vars => [A]_vars
  BY <1>1
<1>. QED
  BY <1>2, SoundAlways, PTL DEF Spec, AcceptedInTime

-----------------------------------------------------------------------------
(* What holds in turn.                                                     *)

OneAtATime == \A p, q \in Procs : pc[p] # "idle" /\ pc[q] # "idle" => p = q

(* The cache is behind the settings only while UpdatePolicy is about to    *)
(* bring it up to date.                                                    *)
PolicyKnown ==
    /\ (\A p \in Procs : pc[p] # "cache") /\ cached.at >= 0 => cached.policy = stored
    /\ \A p \in Procs : pc[p] = "cache" => job[p].policy = stored

(* The refresh is behind the use by no more than TouchGap, but for the     *)
(* session that is being refreshed or deleted.                             *)
Refreshed(t) ==
    Live(t) /\ (\A p \in Procs : pc[p] \in {"touch", "delete"} => job[p].token # t) =>
        used[t] - sessions[t].seen <= TouchGap

(* A session has a reason to end.                                          *)
MayEnd(t) ==
    t \in left \/ clock >= sessions[t].expires \/ clock - used[t] > stored.idle - TouchGap

UpToDate(l, j) ==
    /\ l \in UseLabels => Live(j.token)
    /\ l = "check" => j.seen = sessions[j.token].seen /\ j.expires = sessions[j.token].expires
    /\ l = "touch" => j.at = used[j.token]
    /\ l = "delete" => MayEnd(j.token)

InTurn ==
    /\ OneAtATime /\ PolicyKnown
    /\ \A t \in Tokens : Refreshed(t)
    /\ \A p \in Procs : UpToDate(pc[p], job[p])

Serial == mode.serial /\ ~mode.fails
Turns == Sound /\ (Serial => InTurn)

LEMMA InitTurns == Init => Turns
<1>1. Init => InTurn
  BY Numbers DEF Init, InTurn, OneAtATime, PolicyKnown, Refreshed, UpToDate, NoCache, Live, UseLabels
<1>. QED
  BY <1>1, InitSound DEF Turns

(* When requests take turns, a request that begins or goes on is alone.    *)
LEMMA Alone ==
    ASSUME Turns, Serial, NEW p \in Procs,
           (\A q \in Procs : pc[q] = "idle") \/ pc[p] # "idle"
    PROVE  \A q \in Procs : q # p => pc[q] = "idle"
BY DEF Turns, InTurn, OneAtATime

(* Reading the policy while nothing is updated gives the settings.         *)
LEMMA UsesStored ==
    ASSUME Turns, Serial, NEW pol, Uses(pol), \A p \in Procs : pc[p] # "cache"
    PROVE  pol = stored /\ cached'.policy = stored
<1>1. CASE IsCached
  <2>1. cached.at >= 0
    BY <1>1 DEF IsCached
  <2>. QED
    BY <1>1, <2>1 DEF Uses, Turns, InTurn, PolicyKnown
<1>2. CASE ~IsCached
  BY <1>2 DEF Uses, Serial
<1>. QED
  BY <1>1, <1>2

LEMMA MayEndLater ==
    ASSUME Sound, NEW t \in Tokens, Live(t), MayEnd(t),
           clock' \in Nat, clock <= clock', UNCHANGED <<sessions, used, left, stored>>
    PROVE  MayEnd(t)'
<1>1. sessions[t].expires \in Nat /\ used[t] \in Nat /\ clock \in Nat /\ stored.idle \in Nat
  BY LiveType, TimesOf, Numbers DEF Sound, TypeOK
<1>. QED
  BY <1>1, Numbers DEF MayEnd

(* A request that is alone has only itself to account for. *)
LEMMA OnesTurn ==
    ASSUME Turns, Serial, NEW p \in Procs,
           (\A q \in Procs : pc[q] = "idle") \/ pc[p] # "idle",
           \A q \in Procs : q # p => pc'[q] = pc[q] /\ job'[q] = job[q],
           pc'[p] # "cache", cached'.at >= 0 => cached'.policy = stored',
           \A t \in Tokens : Refreshed(t)',
           UpToDate(pc[p], job[p])'
    PROVE  InTurn'
<1>1. \A q \in Procs : q # p => pc'[q] = "idle"
  BY Alone
<1>2. OneAtATime'
  BY <1>1 DEF OneAtATime
<1>3. PolicyKnown'
  BY <1>1 DEF PolicyKnown
<1>4. \A q \in Procs : UpToDate(pc[q], job[q])'
  BY <1>1 DEF UpToDate, UseLabels
<1>. QED
  BY <1>2, <1>3, <1>4 DEF InTurn

LEMMA TickTurn ==
    ASSUME Turns, Serial, Tick
    PROVE  InTurn'
<1>1. clock' \in Nat /\ clock <= clock' /\ UNCHANGED <<sessions, used, left, stored, cached, pc, job>>
  BY Numbers DEF Tick, ghosts, Turns, Sound, TypeOK
<1>2. ASSUME NEW p \in Procs PROVE UpToDate(pc[p], job[p])'
  <2>1. UpToDate(pc[p], job[p]) /\ (pc[p] = "delete" => job[p].token \in Tokens)
    BY DEF Turns, Sound, Timely, TimelyJob, UseLabels, InTurn
  <2>2. pc[p] = "delete" => MayEnd(job[p].token)'
    BY <1>1, <2>1, MayEndLater DEF UpToDate, Turns, UseLabels
  <2>. QED
    BY <1>1, <2>1, <2>2 DEF UpToDate, Live
<1>3. OneAtATime' /\ PolicyKnown' /\ \A t \in Tokens : Refreshed(t)'
  BY <1>1 DEF Turns, InTurn, OneAtATime, PolicyKnown, Refreshed, Live
<1>. QED
  BY <1>2, <1>3 DEF InTurn

LEMMA Beginning ==
    ASSUME Serial, NEW p \in Procs, NEW kind, Begin(p, kind)
    PROVE  \A q \in Procs : pc[q] = "idle"
BY DEF Serial, Begin

LEMMA UpdatePolicyTurn ==
    ASSUME Turns, Serial, NEW p \in Procs, UpdatePolicy(p)
    PROVE  InTurn'
<1>1. PICK old \in Policies, pol \in Policies :
        /\ stored' = pol /\ Goto(p, "cache", [NoJob EXCEPT !.policy = pol])
        /\ UNCHANGED <<mode, clock, sessions, signedIn, window, ghosts>>
  BY DEF UpdatePolicy, Serial
<1>2. \A q \in Procs : pc[q] = "idle"
  BY Beginning DEF UpdatePolicy
<1>3. [NoJob EXCEPT !.policy = pol] \in JobType /\ [NoJob EXCEPT !.policy = pol].policy = pol
  BY NoJobType DEF JobType, NoJob
<1>4. /\ pc'[p] = "cache" /\ job'[p].policy = pol
      /\ \A q \in Procs : q # p => pc'[q] = "idle"
  BY <1>1, <1>2, <1>3, GotoType DEF Turns, Sound
<1>5. OneAtATime' /\ PolicyKnown' /\ \A q \in Procs : UpToDate(pc[q], job[q])'
  BY <1>1, <1>4 DEF OneAtATime, PolicyKnown, UpToDate, UseLabels
<1>6. \A t \in Tokens : Refreshed(t)'
  BY <1>1, <1>2 DEF Turns, InTurn, Refreshed, Live, ghosts
<1>. QED
  BY <1>5, <1>6 DEF InTurn

LEMMA CachePolicyTurn ==
    ASSUME Turns, Serial, NEW p \in Procs, CachePolicy(p)
    PROVE  InTurn'
<1>1. cached'.policy = stored' /\ stored' = stored
  BY DEF CachePolicy, Turns, InTurn, PolicyKnown
<1>2. /\ pc'[p] = "idle" /\ \A q \in Procs : q # p => pc'[q] = pc[q] /\ job'[q] = job[q]
  BY ReturnType DEF CachePolicy, Turns, Sound
<1>3. \A q \in Procs : pc[q] \notin {"touch", "delete"}
  BY Alone DEF CachePolicy
<1>4. \A t \in Tokens : Refreshed(t)'
  BY <1>3 DEF CachePolicy, Turns, InTurn, Refreshed, Live, ghosts
<1>. QED
  BY <1>1, <1>2, <1>4, OnesTurn DEF CachePolicy, UpToDate, UseLabels

LEMMA LoginTurn ==
    ASSUME Turns, Serial, NEW p \in Procs, Login(p)
    PROVE  InTurn'
<1>1. \A q \in Procs : pc[q] = "idle"
  BY Beginning DEF Login
<1>2. PICK pol \in Policies, j \in JobType :
        /\ Uses(pol)
        /\ Goto(p, "create", j) \/ UNCHANGED <<pc, job>>
        /\ UNCHANGED <<mode, clock, sessions, signedIn, stored, used, born, left>>
  <2>1. PICK pol \in Policies :
          /\ Uses(pol)
          /\ Goto(p, "create", [NoJob EXCEPT !.at = clock, !.expires = clock + pol.max])
             \/ UNCHANGED <<pc, job>>
          /\ UNCHANGED <<mode, clock, sessions, signedIn, stored, used, born, left>>
    BY DEF Login
  <2>2. clock + pol.max \in Nat /\ clock \in Times
    BY Numbers DEF Turns, Sound, TypeOK
  <2>3. [NoJob EXCEPT !.at = clock, !.expires = clock + pol.max] \in JobType
    BY <2>2, NoJobType DEF JobType, NoJob
  <2>. QED
    BY <2>1, <2>3
<1>3. cached'.policy = stored'
  BY <1>1, <1>2, UsesStored
<1>4. /\ pc'[p] \in {"create", "idle"}
      /\ \A q \in Procs : q # p => pc'[q] = pc[q] /\ job'[q] = job[q]
  BY <1>1, <1>2, GotoType DEF Turns, Sound
<1>5. \A t \in Tokens : Refreshed(t)'
  BY <1>1, <1>2 DEF Turns, InTurn, Refreshed, Live
<1>. QED
  BY <1>1, <1>3, <1>4, <1>5, OnesTurn DEF UpToDate, UseLabels

LEMMA CreateSessionTurn ==
    ASSUME Turns, Serial, NEW p \in Procs, CreateSession(p)
    PROVE  InTurn'
<1>0. PICK j, t : j = job[p] /\ t = signedIn + 1
  OBVIOUS
<1>1. /\ pc[p] = "create" /\ Return(p) /\ t \in Tokens
      /\ sessions' = [sessions EXCEPT ![t] = [seen |-> j.at, expires |-> j.expires]]
      /\ used' = [used EXCEPT ![t] = j.at]
      /\ UNCHANGED <<stored, cached>>
  BY <1>0 DEF CreateSession
<1>2. /\ pc'[p] = "idle" /\ \A q \in Procs : q # p => pc'[q] = pc[q] /\ job'[q] = job[q]
  BY <1>1, ReturnType DEF Turns, Sound
<1>3. \A q \in Procs : pc[q] \notin {"touch", "delete", "cache"}
  BY <1>1, Alone
<1>4. ASSUME NEW s \in Tokens PROVE Refreshed(s)'
  <2>1. CASE s = t
    <3>1. used'[s] = j.at /\ sessions'[s].seen = j.at /\ j.at \in Nat
      BY <1>0, <1>1, <2>1, JobOf DEF Turns, Sound, TypeOK
    <3>. QED
      BY <3>1, Numbers DEF Refreshed
  <2>2. CASE s # t
    <3>1. used'[s] = used[s] /\ sessions'[s] = sessions[s]
      BY <1>1, <2>2 DEF Turns, Sound, TypeOK
    <3>. QED
      BY <1>3, <3>1 DEF Turns, InTurn, Refreshed, Live
  <2>. QED
    BY <2>1, <2>2
<1>5. cached'.at >= 0 => cached'.policy = stored'
  BY <1>1, <1>3 DEF Turns, InTurn, PolicyKnown
<1>. QED
  BY <1>1, <1>2, <1>4, <1>5, OnesTurn DEF UpToDate, UseLabels

LEMMA ReadSessionTurn ==
    ASSUME Turns, Serial, NEW p \in Procs, ReadSession(p)
    PROVE  InTurn'
<1>1. PICK t, j :
        /\ t \in Tokens /\ Live(t) /\ j = [NoJob EXCEPT !.token = t, !.seen = sessions[t].seen,
                                        !.expires = sessions[t].expires]
        /\ Goto(p, "check", j)
        /\ UNCHANGED <<mode, clock, sessions, signedIn, stored, cached, window, ghosts>>
  BY DEF ReadSession
<1>2. \A q \in Procs : pc[q] = "idle"
  BY Beginning DEF ReadSession
<1>3. sessions[t] \in [seen : Times, expires : Nat]
  BY <1>1, LiveType DEF Turns, Sound
<1>4. /\ j \in JobType /\ j.token = t /\ j.seen = sessions[t].seen
      /\ j.expires = sessions[t].expires
  BY <1>1, <1>3, NoJobType DEF JobType, NoJob
<1>5. /\ pc'[p] = "check" /\ job'[p] = j
      /\ \A q \in Procs : q # p => pc'[q] = pc[q] /\ job'[q] = job[q]
  BY <1>1, <1>4, GotoType DEF Turns, Sound
<1>6. \A s \in Tokens : Refreshed(s)'
  BY <1>1, <1>2 DEF Turns, InTurn, Refreshed, Live, ghosts
<1>7. UpToDate("check", j)'
  BY <1>1, <1>4 DEF UpToDate, Live
<1>8. cached'.at >= 0 => cached'.policy = stored'
  BY <1>1, <1>2 DEF Turns, InTurn, PolicyKnown
<1>. QED
  BY <1>2, <1>5, <1>6, <1>7, <1>8, OnesTurn

LEMMA CheckTurn ==
    ASSUME Turns, Serial, NEW p \in Procs, Check(p)
    PROVE  InTurn'
<1>0. PICK j, t : j = job[p] /\ t = j.token
  OBVIOUS
<1>1. PICK pol, k :
        /\ pol \in Policies /\ pc[p] = "check" /\ Uses(pol) /\ k = [j EXCEPT !.at = clock]
        /\ used' = IF IsOver(j.seen, j.expires, pol) THEN used ELSE [used EXCEPT ![t] = clock]
        /\ \/ IsOver(j.seen, j.expires, pol) /\ Goto(p, "delete", j) /\ UNCHANGED left
           \/ /\ ~IsOver(j.seen, j.expires, pol) /\ UNCHANGED left
              /\ IF NeedsTouch(j) THEN Goto(p, "touch", k) ELSE Return(p)
           \/ /\ ~IsOver(j.seen, j.expires, pol) /\ left' = left \cup {t}
              /\ Goto(p, "delete", j)
        /\ UNCHANGED <<mode, clock, sessions, signedIn, stored, window, calls, born, attempts>>
  BY <1>0 DEF Check
<1>2. /\ \A q \in Procs : q # p => pc[q] = "idle"
      /\ \A q \in Procs : pc[q] \notin {"touch", "delete", "cache"}
  BY <1>1, Alone
<1>3. pol = stored /\ cached'.policy = stored'
  BY <1>1, <1>2, UsesStored
<1>4. /\ j \in JobType /\ t \in Tokens /\ Live(t)
      /\ j.seen = sessions[t].seen /\ j.expires = sessions[t].expires
  <2>1. TimelyJob("check", j) /\ UpToDate("check", j)
    BY <1>0, <1>1 DEF Turns, Sound, Timely, InTurn
  <2>. QED
    BY <1>0, <2>1, JobOf DEF Turns, Sound, TimelyJob, UpToDate, UseLabels
<1>5. /\ j.seen \in Nat /\ j.expires \in Nat /\ used[t] \in Nat /\ clock \in Nat
      /\ stored.idle \in Nat /\ TouchGap \in Nat
  BY <1>1, <1>3, <1>4, LiveType, TimesOf, Numbers DEF Turns, Sound
<1>6. used[t] - j.seen <= TouchGap
  BY <1>2, <1>4 DEF Turns, InTurn, Refreshed
<1>7. /\ k \in JobType /\ k.at = clock /\ k.token = t
  BY <1>0, <1>1, <1>4 DEF JobType, Turns, Sound, TypeOK
<1>8. ASSUME NEW s \in Tokens, s # t PROVE Refreshed(s)'
  <2>1. used'[s] = used[s] /\ sessions'[s] = sessions[s]
    BY <1>1, <1>8 DEF Turns, Sound, TypeOK
  <2>2. Live(s) => used[s] - sessions[s].seen <= TouchGap
    BY <1>2 DEF Turns, InTurn, Refreshed
  <2>. QED
    BY <2>1, <2>2 DEF Refreshed, Live
<1>9. CASE IsOver(j.seen, j.expires, pol)
  <2>1. Goto(p, "delete", j) /\ used' = used /\ left' = left
    BY <1>1, <1>9
  <2>2. /\ pc'[p] = "delete" /\ job'[p] = j
        /\ \A q \in Procs : q # p => pc'[q] = pc[q] /\ job'[q] = job[q]
    BY <1>4, <2>1, GotoType DEF Turns, Sound
  <2>3. MayEnd(t)
    BY <1>3, <1>4, <1>5, <1>6, <1>9 DEF IsOver, MayEnd
  <2>4. UpToDate("delete", j)'
    BY <1>0, <1>1, <1>4, <2>1, <2>3 DEF UpToDate, MayEnd, Live
  <2>5. Refreshed(t)'
    BY <1>0, <2>2 DEF Refreshed
  <2>. QED
    BY <1>1, <1>3, <1>8, <2>2, <2>4, <2>5, OnesTurn
<1>10. CASE ~IsOver(j.seen, j.expires, pol)
  <2>1. used'[t] = clock
    BY <1>1, <1>4, <1>10 DEF Turns, Sound, TypeOK
  <2>2. CASE Goto(p, "delete", j) /\ left' = left \cup {t}
    <3>1. /\ pc'[p] = "delete" /\ job'[p] = j
          /\ \A q \in Procs : q # p => pc'[q] = pc[q] /\ job'[q] = job[q]
      BY <1>4, <2>2, GotoType DEF Turns, Sound
    <3>2. UpToDate("delete", j)'
      BY <1>0, <1>1, <1>4, <2>2 DEF UpToDate, MayEnd, Live
    <3>3. Refreshed(t)'
      BY <1>0, <3>1 DEF Refreshed
    <3>. QED
      BY <1>1, <1>3, <1>8, <3>1, <3>2, <3>3, OnesTurn
  <2>3. CASE Goto(p, "touch", k)
    <3>1. /\ pc'[p] = "touch" /\ job'[p] = k
          /\ \A q \in Procs : q # p => pc'[q] = pc[q] /\ job'[q] = job[q]
      BY <1>7, <2>3, GotoType DEF Turns, Sound
    <3>2. UpToDate("touch", k)'
      BY <1>1, <1>4, <1>7, <2>1 DEF UpToDate, Live
    <3>3. Refreshed(t)'
      BY <1>7, <3>1 DEF Refreshed
    <3>. QED
      BY <1>1, <1>3, <1>8, <3>1, <3>2, <3>3, OnesTurn
  <2>4. CASE ~NeedsTouch(j) /\ Return(p)
    <3>1. /\ pc'[p] = "idle"
          /\ \A q \in Procs : q # p => pc'[q] = pc[q] /\ job'[q] = job[q]
      BY <2>4, ReturnType DEF Turns, Sound
    <3>2. clock - j.seen <= TouchGap
      BY <1>5, <2>4 DEF NeedsTouch
    <3>3. Refreshed(t)'
      BY <1>1, <1>4, <2>1, <3>2 DEF Refreshed, Live
    <3>4. UpToDate("idle", job[p])'
      BY DEF UpToDate, UseLabels
    <3>. QED
      BY <1>1, <1>3, <1>8, <3>1, <3>3, <3>4, OnesTurn
  <2>. QED
    BY <1>1, <1>10, <2>2, <2>3, <2>4
<1>. QED
  BY <1>9, <1>10

LEMMA DeleteTurn ==
    ASSUME Turns, Serial, NEW p \in Procs, Delete(p)
    PROVE  InTurn'
<1>0. PICK t : t = job[p].token
  OBVIOUS
<1>1. /\ pc[p] = "delete" /\ Return(p)
      /\ sessions' = [sessions EXCEPT ![t] = NoSession]
      /\ UNCHANGED <<mode, clock, signedIn, stored, cached, window, calls, ghosts>>
  BY <1>0 DEF Delete
<1>2. /\ pc'[p] = "idle" /\ \A q \in Procs : q # p => pc'[q] = pc[q] /\ job'[q] = job[q]
  BY <1>1, ReturnType DEF Turns, Sound
<1>3. \A q \in Procs : q # p => pc[q] = "idle"
  BY <1>1, Alone
<1>4. ASSUME NEW s \in Tokens PROVE Refreshed(s)'
  <2>1. CASE s = t
    BY <1>1, <2>1 DEF Refreshed, Live, Turns, Sound, TypeOK
  <2>2. CASE s # t
    <3>1. used'[s] = used[s] /\ sessions'[s] = sessions[s]
      BY <1>1, <2>2 DEF Turns, Sound, TypeOK, ghosts
    <3>. QED
      BY <1>0, <1>3, <2>2, <3>1 DEF Turns, InTurn, Refreshed, Live
  <2>. QED
    BY <2>1, <2>2
<1>5. cached'.at >= 0 => cached'.policy = stored'
  BY <1>1, <1>3 DEF Turns, InTurn, PolicyKnown
<1>. QED
  BY <1>1, <1>2, <1>4, <1>5, OnesTurn DEF UpToDate, UseLabels

LEMMA TouchTurn ==
    ASSUME Turns, Serial, NEW p \in Procs, Touch(p)
    PROVE  InTurn'
<1>0. PICK t : t = job[p].token
  OBVIOUS
<1>1. /\ pc[p] = "touch" /\ Return(p)
      /\ sessions' = IF Live(t) THEN [sessions EXCEPT ![t].seen = job[p].at] ELSE sessions
      /\ UNCHANGED <<mode, clock, signedIn, stored, cached, window, calls, ghosts>>
  BY <1>0 DEF Touch, SeenAt
<1>2. /\ pc'[p] = "idle" /\ \A q \in Procs : q # p => pc'[q] = pc[q] /\ job'[q] = job[q]
  BY <1>1, ReturnType DEF Turns, Sound
<1>3. \A q \in Procs : q # p => pc[q] = "idle"
  BY <1>1, Alone
<1>4. Live(t) /\ job[p].at = used[t] /\ t \in Tokens
  <2>1. TimelyJob("touch", job[p]) /\ UpToDate("touch", job[p])
    BY <1>1 DEF Turns, Sound, Timely, InTurn
  <2>. QED
    BY <1>0, <2>1 DEF TimelyJob, UpToDate, UseLabels
<1>5. ASSUME NEW s \in Tokens PROVE Refreshed(s)'
  <2>1. CASE s = t
    <3>1. PICK r : r = [sessions[t] EXCEPT !.seen = job[p].at]
      OBVIOUS
    <3>2. r.seen = used[t]
      BY <1>4, <3>1, LiveType DEF Turns, Sound
    <3>3. sessions' = [sessions EXCEPT ![t] = r]
      BY <1>1, <1>4, <3>1
    <3>4. sessions'[t] = r /\ used'[t] = used[t]
      BY <1>1, <1>4, <3>3 DEF Turns, Sound, TypeOK, ghosts
    <3>5. used'[t] - sessions'[t].seen <= TouchGap
      BY <1>4, <3>2, <3>4, TimesOf, Numbers DEF Turns, Sound
    <3>. QED
      BY <2>1, <3>5 DEF Refreshed
  <2>2. CASE s # t
    <3>1. used'[s] = used[s] /\ sessions'[s] = sessions[s]
      BY <1>1, <2>2 DEF Turns, Sound, TypeOK, ghosts
    <3>. QED
      BY <1>0, <1>3, <2>2, <3>1 DEF Turns, InTurn, Refreshed, Live
  <2>. QED
    BY <2>1, <2>2
<1>6. cached'.at >= 0 => cached'.policy = stored'
  BY <1>1, <1>3 DEF Turns, InTurn, PolicyKnown
<1>. QED
  BY <1>1, <1>2, <1>5, <1>6, OnesTurn DEF UpToDate, UseLabels

LEMMA CleanupTurn ==
    ASSUME Turns, Serial, Cleanup
    PROVE  InTurn'
<1>1. PICK pol \in Policies :
        /\ \A p \in Procs : pc[p] = "idle"
        /\ Uses(pol)
        /\ \A t \in Tokens : sessions'[t] \in {sessions[t], NoSession}
        /\ UNCHANGED <<stored, pc, job, used>>
  BY DEF Cleanup, Serial, ghosts
<1>2. cached'.policy = stored'
  BY <1>1, UsesStored
<1>3. OneAtATime' /\ PolicyKnown' /\ \A p \in Procs : UpToDate(pc[p], job[p])'
  BY <1>1, <1>2 DEF OneAtATime, PolicyKnown, UpToDate, UseLabels
<1>4. \A t \in Tokens : Refreshed(t)'
  BY <1>1 DEF Turns, InTurn, Refreshed, Live
<1>. QED
  BY <1>3, <1>4 DEF InTurn

LEMMA TurnsStep == Turns /\ [Next]_vars => Turns'
<1>. SUFFICES ASSUME Turns, [Next]_vars PROVE Turns'
  OBVIOUS
<1>1. Sound'
  BY SoundStep DEF Turns
<1>2. mode' = mode
  BY DEF Next, vars, Tick, Cleanup, Restart, UpdatePolicy, CachePolicy, Login, CreateSession,
         ReadSession, Check, Delete, Touch
<1>3. ASSUME Serial PROVE InTurn'
  <2>1. CASE UNCHANGED vars
    BY <1>3, <2>1 DEF vars, Turns, InTurn, OneAtATime, PolicyKnown, Refreshed, UpToDate, MayEnd,
                      Live
  <2>2. CASE Tick \/ Cleanup \/ Restart
    BY <1>3, <2>2, TickTurn, CleanupTurn DEF Restart, Serial
  <2>3. ASSUME NEW p \in Procs,
               \/ UpdatePolicy(p) \/ CachePolicy(p) \/ Login(p) \/ CreateSession(p)
               \/ ReadSession(p) \/ Check(p) \/ Delete(p) \/ Touch(p)
        PROVE  InTurn'
    BY <1>3, <2>3, UpdatePolicyTurn, CachePolicyTurn, LoginTurn, CreateSessionTurn,
       ReadSessionTurn, CheckTurn, DeleteTurn, TouchTurn
  <2>. QED
    BY <2>1, <2>2, <2>3 DEF Next
<1>. QED
  BY <1>1, <1>2, <1>3 DEF Turns, Serial

LEMMA TurnsAlways == Spec => []Turns
BY InitTurns, TurnsStep, PTL DEF Spec

(* While requests take turns and settings can be read, a session ends only *)
(* for a reason: what a request or the clean-up reads as the last use is   *)
(* no more than the refresh gap behind it (TouchSession, CleanupSessions). *)
THEOREM SignedInCorrect == Spec => UsedStaysSignedIn
<1>. DEFINE A == mode.serial /\ ~mode.fails =>
                    \A t \in Tokens : Live(t) /\ sessions'[t] = NoSession =>
                       \/ t \in left \/ clock >= sessions[t].expires
                       \/ clock - used[t] > stored.idle - TouchGap
<1>1. ASSUME Turns, Next PROVE A
  <2>. SUFFICES ASSUME Serial, NEW t \in Tokens, Live(t), sessions'[t] = NoSession
                PROVE  MayEnd(t)
    BY DEF Serial, MayEnd
  <2>1. sessions'[t] # sessions[t]
    BY DEF Live
  <2>2. CASE Cleanup
    <3>1. PICK pol \in Policies :
            /\ \A p \in Procs : pc[p] = "idle"
            /\ Uses(pol) /\ IsOver(sessions[t].seen, sessions[t].expires, pol)
      BY <2>1, <2>2 DEF Cleanup, Serial
    <3>2. pol = stored
      BY <1>1, <3>1, UsesStored
    <3>3. used[t] - sessions[t].seen <= TouchGap
      BY <1>1, <3>1 DEF Turns, InTurn, Refreshed
    <3>. QED
      BY <1>1, <3>1, <3>2, <3>3, LiveType, TimesOf, Numbers DEF Turns, Sound, IsOver, MayEnd
  <2>3. ASSUME NEW p \in Procs, Delete(p) PROVE MayEnd(t)
    <3>1. t = job[p].token /\ pc[p] = "delete"
      BY <1>1, <2>1, <2>3 DEF Delete, Turns, Sound, TypeOK
    <3>. QED
      BY <1>1, <3>1 DEF Turns, InTurn, UpToDate
  <2>4. ASSUME NEW p \in Procs, CreateSession(p) PROVE FALSE
    <3>1. PICK u, r : sessions' = [sessions EXCEPT ![u] = r]
                      /\ r = [seen |-> job[p].at, expires |-> job[p].expires]
      BY <2>4 DEF CreateSession
    <3>2. r # NoSession
      BY <1>1, <3>1, JobOf, Absent DEF Turns, Sound
    <3>. QED
      BY <1>1, <2>1, <3>1, <3>2 DEF Turns, Sound, TypeOK
  <2>5. ASSUME NEW p \in Procs, Touch(p) PROVE FALSE
    <3>1. PICK u, r : /\ sessions' = [sessions EXCEPT ![u] = r] /\ Live(u)
                      /\ r = [sessions[u] EXCEPT !.seen = job[p].at]
      BY <2>1, <2>5 DEF Touch, SeenAt
    <3>2. u = t
      BY <1>1, <2>1, <3>1 DEF Turns, Sound, TypeOK
    <3>3. r # NoSession
      BY <1>1, <3>1, <3>2, JobOf, LiveType, Absent DEF Turns, Sound
    <3>. QED
      BY <1>1, <3>1, <3>2, <3>3 DEF Turns, Sound, TypeOK
  <2>6. \/ Cleanup
        \/ \E p \in Procs : CreateSession(p) \/ Delete(p) \/ Touch(p)
    BY <1>1, <2>1 DEF Next, Tick, Restart, UpdatePolicy, CachePolicy, Login, ReadSession, Check
  <2>. QED
    BY <2>2, <2>3, <2>4, <2>5, <2>6
<1>2. UNCHANGED vars => A
  BY DEF vars, Live
<1>3. Turns /\ [Next]_vars => [A]_vars
  BY <1>1, <1>2
<1>. QED
  BY <1>3, TurnsAlways, PTL DEF Spec, UsedStaysSignedIn

-----------------------------------------------------------------------------
(* The limit on logins.                                                    *)

Since(i) == {a \in attempts : i <= a.at}
Between(i, k) == {a \in attempts : i <= a.at /\ a.at < k}

(* The running window has let through what it counts and no more than the  *)
(* limit, and so had the one before it: any minute that ends before the    *)
(* running window does meets no other.                                     *)
Limited ==
    /\ \A a \in attempts : a.at <= clock
    /\ window.start < 0 => attempts = {}
    /\ window.start >= 0 =>
         /\ window.start <= clock /\ \A a \in attempts : a.at < window.start + Minute
         /\ Cardinality(Since(window.start)) <= window.count
         /\ Cardinality(Since(window.start)) <= LoginRate
         /\ Cardinality(Between(window.start - Minute, window.start)) <= LoginRate
    /\ \A i \in Nat : Cardinality(Between(i, i + Minute)) <= 2 * LoginRate

LEMMA PartsAreFinite ==
    ASSUME TypeOK
    PROVE  /\ Minute \in Nat /\ Minute > 0 /\ LoginRate \in Nat
           /\ clock \in Nat /\ window.start \in Int /\ window.count \in Nat
           /\ \A a \in attempts : a.at \in Nat
           /\ \A S \in SUBSET attempts : IsFiniteSet(S) /\ Cardinality(S) \in Nat
<1>1. IsFiniteSet(attempts) /\ attempts \subseteq [at : Times, nr : Nat]
  BY DEF TypeOK
<1>2. \A S \in SUBSET attempts : IsFiniteSet(S) /\ Cardinality(S) \in Nat
  BY <1>1, FS_Subset, FS_CardinalityType
<1>3. \A a \in attempts : a.at \in Nat
  BY <1>1, Numbers
<1>4. (window.start \in Times \/ window.start = -1) /\ window.count \in Nat /\ clock \in Times
  BY DEF TypeOK
<1>. QED
  <2>1. window.start \in Int /\ window.count \in Nat /\ clock \in Nat
    <3>1. clock \in Nat /\ (window.start \in Nat \/ window.start = -1)
      BY <1>4, Numbers, Zenon
    <3>. QED
      BY <1>4, <3>1
  <2>2. Minute \in Nat /\ Minute > 0 /\ LoginRate \in Nat
    BY SessionsAssumption
  <2>. QED
    BY <1>2, <1>3, <2>1, <2>2

LEMMA InitLimited == Init => Limited
<1>. SUFFICES ASSUME Init PROVE Limited
  OBVIOUS
<1>1. \A i \in Nat : Between(i, i + Minute) = {} /\ attempts = {} /\ window.start < 0
  BY DEF Init, Between
<1>2. \A i \in Nat : Cardinality(Between(i, i + Minute)) <= 2 * LoginRate
  BY <1>1, FS_EmptySet, SessionsAssumption
<1>. QED
  BY <1>1, <1>2 DEF Limited, Init

(* A window that opens is a minute or more behind the last that did. *)
LEMMA OpenedLimited ==
    ASSUME TypeOK, Limited, NEW w, w = Window
    PROVE  /\ w.start \in Nat /\ w.start <= clock /\ w.count \in Nat
           /\ Cardinality(Since(w.start)) <= w.count - 1
           /\ Cardinality(Since(w.start)) <= LoginRate
           /\ Cardinality(Between(w.start - Minute, w.start)) <= LoginRate
<1>0. /\ Minute \in Nat /\ Minute > 0 /\ LoginRate \in Nat /\ clock \in Nat
      /\ window.start \in Int /\ window.count \in Nat
      /\ \A a \in attempts : a.at \in Nat /\ a.at <= clock
      /\ \A S \in SUBSET attempts : IsFiniteSet(S) /\ Cardinality(S) \in Nat
  BY PartsAreFinite DEF Limited
<1>1. CASE Opens
  <2>1. w.start = clock /\ w.count = 1
    BY <1>1 DEF Window
  <2>2. CASE window.start < 0
    <3>1. Since(clock) = {} /\ Between(clock - Minute, clock) = {}
      BY <2>2 DEF Limited, Since, Between
    <3>. QED
      BY <1>0, <2>1, <3>1, FS_EmptySet
  <2>3. CASE window.start >= 0
    <3>1. clock - window.start >= Minute
      BY <1>1, <2>3, <1>0 DEF Opens
    <3>2. \A a \in attempts : a.at < window.start + Minute
      BY <2>3 DEF Limited
    <3>3. Since(clock) = {}
      BY <1>0, <3>1, <3>2 DEF Since
    <3>4. Between(clock - Minute, clock) \subseteq Since(window.start)
      BY <1>0, <3>1 DEF Since, Between
    <3>5. Cardinality(Between(clock - Minute, clock)) <= Cardinality(Since(window.start))
      BY <1>0, <3>4, FS_Subset DEF Since
    <3>6. /\ Cardinality(Since(window.start)) <= LoginRate
          /\ Cardinality(Since(window.start)) \in Nat
          /\ Cardinality(Between(clock - Minute, clock)) \in Nat
      BY <1>0, <2>3 DEF Limited, Since, Between
    <3>. QED
      BY <1>0, <2>1, <3>3, <3>5, <3>6, FS_EmptySet
  <2>. QED
    BY <1>0, <2>2, <2>3
<1>2. CASE ~Opens
  <2>1. window.start >= 0
    BY <1>0, <1>2 DEF Opens
  <2>2. w.start = window.start /\ w.count = window.count + 1
    BY <1>2 DEF Window, TypeOK
  <2>3. Cardinality(Since(window.start)) \in Nat
    BY <1>0 DEF Since
  <2>. QED
    BY <1>0, <2>1, <2>2, <2>3 DEF Limited
<1>. QED
  BY <1>1, <1>2

(* An attempt adds one to the running window, and to minutes that meet only *)
(* it and the one before.                                                  *)
LEMMA LoginLimited ==
    ASSUME TypeOK, TypeOK', Limited, NEW p \in Procs, Login(p)
    PROVE  Limited'
<1>1. PICK w : w = Window
  OBVIOUS
<1>2. /\ window' = w /\ clock' = clock
      /\ attempts' = IF w.count <= LoginRate THEN attempts \cup {[at |-> clock, nr |-> w.count]}
                     ELSE attempts
  BY <1>1 DEF Login
<1>3. /\ w.start \in Nat /\ w.start <= clock /\ w.count \in Nat
      /\ Cardinality(Since(w.start)) <= w.count - 1
      /\ Cardinality(Since(w.start)) <= LoginRate
      /\ Cardinality(Between(w.start - Minute, w.start)) <= LoginRate
  BY <1>1, OpenedLimited
<1>4. /\ Minute \in Nat /\ Minute > 0 /\ LoginRate \in Nat /\ clock \in Nat
      /\ \A a \in attempts : a.at \in Nat /\ a.at <= clock
      /\ \A S \in SUBSET attempts : IsFiniteSet(S) /\ Cardinality(S) \in Nat
      /\ \A S \in SUBSET attempts' : IsFiniteSet(S) /\ Cardinality(S) \in Nat
  <2>1. \A S \in SUBSET attempts' : IsFiniteSet(S) /\ Cardinality(S) \in Nat
    BY FS_Subset, FS_CardinalityType DEF TypeOK
  <2>. QED
    BY <2>1, PartsAreFinite DEF Limited
<1>5. clock < w.start + Minute
  <2>1. CASE Opens
    BY <1>1, <1>4, <2>1 DEF Window
  <2>2. CASE ~Opens
    BY <1>1, <1>4, <2>2, PartsAreFinite DEF Window, Opens, TypeOK
  <2>. QED
    BY <2>1, <2>2
<1>6. CASE w.count > LoginRate
  <2>1. attempts' = attempts
    BY <1>2, <1>3, <1>4, <1>6
  <2>2. \A i, k : Between(i, k)' = Between(i, k) /\ Since(i)' = Since(i)
    BY <2>1 DEF Between, Since
  <2>3. Cardinality(Since(w.start)) \in Nat
    BY <1>4 DEF Since
  <2>4. \A a \in attempts' : a.at <= clock /\ a.at < w.start + Minute
    BY <1>3, <1>4, <1>5, <2>1
  <2>. QED
    BY <1>2, <1>3, <1>4, <2>2, <2>3, <2>4 DEF Limited
<1>7. CASE w.count <= LoginRate
  <2>1. PICK n : n = [at |-> clock, nr |-> w.count]
    OBVIOUS
  <2>2. attempts' = attempts \cup {n} /\ n.at = clock
    BY <1>2, <1>7, <2>1
  <2>3. \A a \in attempts' : a.at \in Nat /\ a.at <= clock /\ a.at < w.start + Minute
    BY <1>3, <1>4, <1>5, <2>2
  <2>4. Cardinality(Since(w.start)') <= Cardinality(Since(w.start)) + 1
    <3>1. Since(w.start)' = Since(w.start) \cup {n}
      BY <1>3, <2>2 DEF Since
    <3>. QED
      BY <1>4, <3>1, FS_AddElement DEF Since
  <2>5. Between(w.start - Minute, w.start)' = Between(w.start - Minute, w.start)
    BY <1>3, <1>4, <2>2 DEF Between
  <2>6. ASSUME NEW i \in Nat PROVE Cardinality(Between(i, i + Minute)') <= 2 * LoginRate
    <3>1. CASE i <= clock /\ clock < i + Minute
      <4>1. PICK A, B, C : /\ A = Between(i, i + Minute)' /\ B = Since(w.start)'
                           /\ C = Between(w.start - Minute, w.start)'
        OBVIOUS
      <4>2. A \subseteq B \cup C
        BY <1>3, <1>4, <2>3, <3>1, <4>1 DEF Between, Since
      <4>3. /\ IsFiniteSet(A) /\ IsFiniteSet(B) /\ IsFiniteSet(C)
            /\ Cardinality(A) \in Nat /\ Cardinality(B) \in Nat /\ Cardinality(C) \in Nat
        BY <1>4, <4>1 DEF Between, Since
      <4>4. Cardinality(A) <= Cardinality(B) + Cardinality(C)
        <5>1. IsFiniteSet(B \cup C) /\ Cardinality(B \cup C) \in Nat
          BY <4>3, FS_Union, FS_CardinalityType
        <5>2. Cardinality(A) <= Cardinality(B \cup C)
          BY <4>2, <5>1, FS_Subset
        <5>3. /\ Cardinality(B \cup C) = Cardinality(B) + Cardinality(C) - Cardinality(B \cap C)
              /\ Cardinality(B \cap C) \in Nat
          BY <4>3, FS_Union, FS_Intersection, FS_CardinalityType
        <5>. QED
          BY <4>3, <5>1, <5>2, <5>3
      <4>5. Cardinality(B) <= LoginRate /\ Cardinality(C) <= LoginRate
        <5>1. Cardinality(Since(w.start)) \in Nat
          BY <1>4 DEF Since
        <5>2. Cardinality(B) <= Cardinality(Since(w.start)) + 1
          BY <2>4, <4>1
        <5>. QED
          BY <1>3, <1>4, <1>7, <2>5, <4>1, <4>3, <5>1, <5>2
      <4>. QED
        BY <1>4, <4>1, <4>3, <4>4, <4>5
    <3>2. CASE ~(i <= clock /\ clock < i + Minute)
      <4>1. Between(i, i + Minute)' = Between(i, i + Minute)
        BY <2>2, <3>2, <1>4 DEF Between
      <4>. QED
        BY <4>1 DEF Limited
    <3>. QED
      BY <3>1, <3>2
  <2>7. Cardinality(Since(w.start)') <= w.count /\ Cardinality(Since(w.start)') <= LoginRate
    <3>1. Cardinality(Since(w.start)) \in Nat /\ Cardinality(Since(w.start)') \in Nat
      BY <1>4 DEF Since
    <3>. QED
      BY <1>3, <1>4, <1>7, <2>4, <3>1
  <2>. QED
    BY <1>2, <1>3, <2>3, <2>5, <2>6, <2>7 DEF Limited
<1>. QED
  BY <1>3, <1>4, <1>6, <1>7

LEMMA LimitedStep == TypeOK /\ TypeOK' /\ Limited /\ [Next]_vars => Limited'
<1>. SUFFICES ASSUME TypeOK, TypeOK', Limited, [Next]_vars PROVE Limited'
  OBVIOUS
<1>1. CASE UNCHANGED <<clock, window, attempts>>
  BY <1>1 DEF Limited, Since, Between
<1>2. CASE Tick
  <2>1. clock <= clock' /\ clock \in Nat /\ clock' \in Nat /\ UNCHANGED <<window, attempts>>
    BY <1>2, PartsAreFinite DEF Tick, ghosts
  <2>. QED
    BY <2>1, PartsAreFinite DEF Limited, Since, Between
<1>3. CASE Restart
  <2>1. attempts' = {} /\ window'.start = -1
    BY <1>3 DEF Restart
  <2>2. \A i : Cardinality(Between(i, i + Minute)') = 0
    BY <2>1, FS_EmptySet DEF Between
  <2>3. 0 <= 2 * LoginRate /\ ~(-1 >= 0)
    BY SessionsAssumption
  <2>. QED
    BY <2>1, <2>2, <2>3 DEF Limited
<1>4. ASSUME NEW p \in Procs, Login(p) PROVE Limited'
  BY <1>4, LoginLimited
<1>. QED
  BY <1>1, <1>2, <1>3, <1>4
  DEF Next, vars, ghosts, Cleanup, UpdatePolicy, CachePolicy, CreateSession, ReadSession, Check,
      Delete, Touch

(* No minute sees more than twice the attempts the limit lets through, for *)
(* any limit and however the attempts fall into the windows                *)
(* (ipLimiter.allow).                                                      *)
THEOREM AttemptsCorrect == Spec => []AttemptsAreBounded
<1>1. Limited => AttemptsAreBounded
  BY Numbers DEF Limited, Between, AttemptsAreBounded
<1>2. TypeOK /\ TypeOK' /\ Limited /\ [Next]_vars => Limited'
  BY LimitedStep
<1>. QED
  BY <1>1, <1>2, InitLimited, TypeCorrect, PTL DEF Spec
=============================================================================
