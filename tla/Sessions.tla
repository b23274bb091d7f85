------------------------------ MODULE Sessions ------------------------------
(***************************************************************************)
(* How sessions age, the security policy they age by, and the limit on     *)
(* logins per source address (platform/internal/iam/{service,policy,       *)
(* ratelimit}.go).  Whose account a session is, is in Accounts.            *)
(*                                                                         *)
(* A request reads its session, then the policy and the clock, and after   *)
(* that refreshes or deletes the session; each is a call of the store, and *)
(* other requests with the same token are served in between.               *)
(***************************************************************************)
EXTENDS Integers, FiniteSets

CONSTANTS
    Procs,                    \* requests that can be served at a time
    Policies, DefaultPolicy,  \* policies that pass Validate
    TouchGap,                 \* 30 s: last-seen is written after that long
    PolicyTTL,                \* 30 s: the policy is cached for that long
    Minute, LoginRate,        \* LoginRatePerIPMinute
    Modes,                    \* circumstances to consider
    MaxSessions, MaxTime      \* bounds of the model

Times == 0 .. MaxTime
Tokens == 1 .. MaxSessions
None == 0

(* idle: SessionIdleMinutes; max: SessionMaxHours. *)
Policy == [idle : Nat, max : Nat]

(* Validate refuses a limit that ends sessions at once.                    *)
Valid(p) == p.idle > 0 /\ p.max > 0

(* serial: one request at a time; fails: reading settings may fail; logins, *)
(* uses, updates: how many requests of each kind are made (bounds).        *)
Mode == [serial : BOOLEAN, fails : BOOLEAN, logins : Nat, uses : Nat, updates : Nat]

ASSUME SessionsAssumption ==
    /\ Policies \subseteq Policy /\ DefaultPolicy \in Policies /\ \A p \in Policies : Valid(p)
    /\ TouchGap \in Nat /\ PolicyTTL \in Nat /\ Minute \in Nat \ {0} /\ LoginRate \in Nat
    /\ Modes \subseteq Mode
    /\ MaxSessions \in Nat /\ MaxTime \in Nat

VARIABLES
    mode,
    clock,
    sessions,   \* what the store has of each token
    signedIn,   \* number of tokens given out
    stored,     \* the policy in the settings
    cached,     \* Service.policy and policyAt
    window,     \* the address's window: ipLimiter
    pc, job,    \* what each request is doing, and its local variables
    calls,      \* how many requests of each kind were made
    used,       \* when each session was last accepted, or signed in
    born,       \* when each was signed in
    left,       \* tokens whose holder logged out
    attempts    \* login attempts let through since the start: when each
                \* was, and its number in its window

vars == <<mode, clock, sessions, signedIn, stored, cached, window, pc, job, calls, used, born,
          left, attempts>>
ghosts == <<used, born, left, attempts>>

NoSession == [seen |-> -1]
NoCache == [policy |-> DefaultPolicy, at |-> -1]
NoJob == [token |-> None, seen |-> 0, expires |-> 0, at |-> 0, policy |-> DefaultPolicy]

Init ==
    /\ mode \in Modes
    /\ clock = 0
    /\ sessions = [t \in Tokens |-> NoSession]
    /\ signedIn = 0
    /\ stored \in Policies
    /\ cached = NoCache
    /\ window = [start |-> -1, count |-> 0]
    /\ pc = [p \in Procs |-> "idle"] /\ job = [p \in Procs |-> NoJob]
    /\ calls = [logins |-> 0, uses |-> 0, updates |-> 0]
    /\ used = [t \in Tokens |-> 0] /\ born = [t \in Tokens |-> 0]
    /\ left = {} /\ attempts = {}

Goto(p, l, j) == pc' = [pc EXCEPT ![p] = l] /\ job' = [job EXCEPT ![p] = j]
Return(p) == Goto(p, "idle", NoJob)

Begin(p, kind) ==
    /\ pc[p] = "idle"
    /\ mode.serial => \A q \in Procs : pc[q] = "idle"
    /\ calls[kind] < mode[kind] /\ calls' = [calls EXCEPT ![kind] = @ + 1]

Tick ==
    /\ clock < MaxTime /\ clock' = clock + 1
    /\ UNCHANGED <<mode, sessions, signedIn, stored, cached, window, pc, job, calls, ghosts>>

-----------------------------------------------------------------------------
(* The policy.                                                             *)

IsCached == cached.at >= 0 /\ clock - cached.at < PolicyTTL

(* Policy(): pol is what the cache has, or else what the settings have, or *)
(* the default if they cannot be read.                                     *)
Uses(pol) ==
    IF IsCached THEN pol = cached.policy /\ UNCHANGED cached
    ELSE /\ pol \in {stored} \cup (IF mode.fails THEN {DefaultPolicy} ELSE {})
         /\ cached' = [policy |-> pol, at |-> clock]

(* UpdatePolicy: the old policy for the record, the settings, which may    *)
(* refuse the new one, and then the cache.                                 *)
UpdatePolicy(p) ==
    \E old, pol \in Policies :
        /\ Begin(p, "updates") /\ Uses(old)
        /\ \/ stored' = pol /\ Goto(p, "cache", [NoJob EXCEPT !.policy = pol])
           \/ mode.fails /\ UNCHANGED <<stored, pc, job>>
        /\ UNCHANGED <<mode, clock, sessions, signedIn, window, ghosts>>

CachePolicy(p) ==
    /\ pc[p] = "cache" /\ Return(p)
    /\ cached' = [policy |-> job[p].policy, at |-> clock]
    /\ UNCHANGED <<mode, clock, sessions, signedIn, stored, window, calls, ghosts>>

-----------------------------------------------------------------------------
(* Logins.                                                                 *)

(* Mutant of Opens: the window slides along with the attempts. *)
OpensOnEveryTick == window.start < clock

(* The limiter starts a new window. *)
Opens == window.start < 0 \/ clock - window.start >= Minute

Window == IF Opens THEN [start |-> clock, count |-> 1]
          ELSE [window EXCEPT !.count = @ + 1]

(* An attempt is counted, let through or not; what it comes to is up to    *)
(* the account.                                                            *)
Login(p) ==
    \E pol \in Policies, right \in BOOLEAN :
      LET let == Window.count <= LoginRate
      IN  /\ Begin(p, "logins") /\ Uses(pol)
          /\ window' = Window
          /\ attempts' = IF let THEN attempts \cup {[at |-> clock, nr |-> Window.count]}
                         ELSE attempts
          /\ IF let /\ right
             THEN Goto(p, "create", [NoJob EXCEPT !.at = clock, !.expires = clock + pol.max])
             ELSE UNCHANGED <<pc, job>>
          /\ UNCHANGED <<mode, clock, sessions, signedIn, stored, used, born, left>>

CreateSession(p) ==
    LET j == job[p]  t == signedIn + 1
    IN  /\ pc[p] = "create" /\ Return(p)
        /\ t \in Tokens /\ signedIn' = t
        /\ sessions' = [sessions EXCEPT ![t] = [seen |-> j.at, expires |-> j.expires]]
        /\ used' = [used EXCEPT ![t] = j.at] /\ born' = [born EXCEPT ![t] = j.at]
        /\ UNCHANGED <<mode, clock, stored, cached, window, calls, left, attempts>>

-----------------------------------------------------------------------------
(* Requests with a token: Authenticate.                                    *)

Live(t) == sessions[t] # NoSession

(* GetSession. *)
ReadSession(p) ==
    \E t \in Tokens :
        /\ Live(t) /\ Begin(p, "uses")
        /\ Goto(p, "check", [NoJob EXCEPT !.token = t, !.seen = sessions[t].seen,
                                           !.expires = sessions[t].expires])
        /\ UNCHANGED <<mode, clock, sessions, signedIn, stored, cached, window, ghosts>>

(* Mutant of IsOver: a session lasts a little longer than its limit.       *)
IsOverLate(seen, expires, pol) == clock - seen > pol.idle + 1 \/ clock > expires

IsOver(seen, expires, pol) == clock - seen > pol.idle \/ clock >= expires

(* Mutant of NeedsTouch: half of the refreshes are left out. *)
NeedsTouchSeldom(j) == clock - j.seen > 2 * TouchGap

NeedsTouch(j) == clock - j.seen > TouchGap

(* Accept the request, or end the session.  The holder may log out.        *)
Check(p) ==
    \E pol \in Policies :
      LET j == job[p]  over == IsOver(j.seen, j.expires, pol)
      IN  /\ pc[p] = "check" /\ Uses(pol)
          /\ used' = IF over THEN used ELSE [used EXCEPT ![j.token] = clock]
          /\ \/ over /\ Goto(p, "delete", j) /\ UNCHANGED left
             \/ /\ ~over /\ UNCHANGED left
                /\ IF NeedsTouch(j)
                   THEN Goto(p, "touch", [j EXCEPT !.at = clock]) ELSE Return(p)
             \/ ~over /\ left' = left \cup {j.token} /\ Goto(p, "delete", j)
          /\ UNCHANGED <<mode, clock, sessions, signedIn, stored, window, calls, born, attempts>>

Delete(p) ==
    /\ pc[p] = "delete" /\ Return(p)
    /\ sessions' = [sessions EXCEPT ![job[p].token] = NoSession]
    /\ UNCHANGED <<mode, clock, signedIn, stored, cached, window, calls, ghosts>>

(* Mutant of SeenAt: the time of the write, not of the request.            *)
SeenAtWrite(j) == clock

SeenAt(j) == j.at

(* TouchSession: nothing if the session is gone. *)
Touch(p) ==
    LET j == job[p]
    IN  /\ pc[p] = "touch" /\ Return(p)
        /\ sessions' = IF Live(j.token) THEN [sessions EXCEPT ![j.token].seen = SeenAt(j)]
                       ELSE sessions
        /\ UNCHANGED <<mode, clock, signedIn, stored, cached, window, calls, ghosts>>

(* CleanupSessions, every five minutes. *)
Cleanup ==
    \E pol \in Policies :
        /\ mode.serial => \A p \in Procs : pc[p] = "idle"
        /\ Uses(pol)
        /\ sessions' = [t \in Tokens |->
               IF Live(t) /\ IsOver(sessions[t].seen, sessions[t].expires, pol)
               THEN NoSession ELSE sessions[t]]
        /\ UNCHANGED <<mode, clock, signedIn, stored, window, pc, job, calls, ghosts>>

(* The process ends and starts again: what it kept in memory is gone.      *)
Restart ==
    /\ mode.fails
    /\ cached' = NoCache /\ window' = [start |-> -1, count |-> 0]
    /\ attempts' = {}
    /\ pc' = [p \in Procs |-> "idle"] /\ job' = [p \in Procs |-> NoJob]
    /\ UNCHANGED <<mode, clock, sessions, signedIn, stored, calls, used, born, left>>

Next ==
    \/ Tick \/ Cleanup \/ Restart
    \/ \E p \in Procs :
         \/ UpdatePolicy(p) \/ CachePolicy(p) \/ Login(p) \/ CreateSession(p)
         \/ ReadSession(p) \/ Check(p) \/ Delete(p) \/ Touch(p)

Spec == Init /\ [][Next]_vars

-----------------------------------------------------------------------------
(* Properties.                                                             *)

(* Sessions, requests and the limiter have their types.                    *)
TypeOK ==
    /\ mode \in Modes /\ clock \in Times
    /\ sessions \in [Tokens -> [seen : Times, expires : Nat] \cup {NoSession}]
    /\ signedIn \in 0 .. MaxSessions
    /\ stored \in Policies
    /\ cached \in [policy : Policies, at : Times \cup {-1}]
    /\ window \in [start : Times \cup {-1}, count : Nat]
    /\ pc \in [Procs -> {"idle", "cache", "create", "check", "touch", "delete"}]
    /\ job \in [Procs -> [token : Tokens \cup {None}, seen : Times, expires : Nat,
                          at : Times, policy : Policies]]
    /\ used \in [Tokens -> Times] /\ born \in [Tokens -> Times]
    /\ left \in SUBSET Tokens
    /\ IsFiniteSet(attempts) /\ attempts \subseteq [at : Times, nr : Nat]

(* A request is accepted only on a session that was used within the idle   *)
(* limit and signed in within the lifetime of some policy, also when       *)
(* another request has ended the session in between, and however the       *)
(* refreshes of concurrent requests are ordered (Authenticate).            *)
AcceptedInTime ==
    [][\A t \in 1 .. signedIn : used'[t] # used[t] =>
           /\ \E pol \in Policies : clock - used[t] <= pol.idle
           /\ \E pol \in Policies : clock < born[t] + pol.max]_vars

(* While requests take turns and settings can be read, whoever uses a      *)
(* session often enough stays signed in: it ends only by logging out, at   *)
(* the end of its lifetime, or when it was not used for the idle limit     *)
(* less the time a refresh may lag (TouchSession, CleanupSessions).        *)
UsedStaysSignedIn ==
    [][mode.serial /\ ~mode.fails =>
           \A t \in Tokens : Live(t) /\ sessions'[t] = NoSession =>
               \/ t \in left \/ clock >= sessions[t].expires
               \/ clock - used[t] > stored.idle - TouchGap]_vars

(* No minute sees more than twice the attempts the policy lets through:    *)
(* what two windows that meet in it hold (ipLimiter.allow).                *)
AttemptsAreBounded ==
    \A i \in Times :
        Cardinality({a \in attempts : i <= a.at /\ a.at < i + Minute}) <= 2 * LoginRate
=============================================================================
