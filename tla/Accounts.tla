------------------------------ MODULE Accounts ------------------------------
(***************************************************************************)
(* Operator accounts (platform/internal/iam/{service,roles}.go,            *)
(* auth/session.go and the account handlers of server/admin_handlers.go).  *)
(*                                                                         *)
(* A request is a goroutine.  It reads an account's row, works on its      *)
(* copy, and writes the whole row back; nothing is locked in between, so   *)
(* two requests about one account overlap.  How sessions age and how many  *)
(* logins an address may try is in Sessions.                               *)
(***************************************************************************)
EXTENDS Integers, Sequences, FiniteSets

CONSTANTS
    Users,         \* account ids; newID never makes one twice
    NoUser,
    SecurityRoles, \* sec_admin, analyst, viewer: no part in managing accounts
    Procs,         \* requests that can be served at a time
    Passwords, NoPassword,
    PasswordHistory, LockoutThreshold, Lockout, MaxAge, Inactive,  \* Policy
    Expiries,      \* ExpiresAt given to UpdateUser
    Initial,       \* the accounts Bootstrap creates, in order
    Installations, \* rows of the account table, and who is signed in
    Modes,         \* circumstances to consider
    MaxTokens, MaxTime  \* bounds of the model

Managers == {"sys_admin", "audit_admin"}
Roles == Managers \cup SecurityRoles
Tokens == 1 .. MaxTokens
None == 0
Times == 0 .. MaxTime
Never == MaxTime + 1

(* serial: one request at a time; fails: the store may refuse a write;      *)
(* dormant: AccountInactiveDays is on; references: the store is PostgreSQL, *)
(* where a session needs its account; requests, time: how many are made and *)
(* how long it goes on (bounds).                                           *)
Mode == [serial : BOOLEAN, fails : BOOLEAN, dormant : BOOLEAN,
         references : BOOLEAN, requests : Nat, time : Nat]

Row == [role : Roles, status : {"active", "disabled"}, pw : Passwords,
        history : {h \in Seq(Passwords) : Len(h) <= PasswordHistory},
        must : BOOLEAN, failed : 0 .. LockoutThreshold - 1,
        locked : Nat, expires : Nat, seen : Times, pwAt : Times]
NoRow == [status |-> "none"]

ASSUME AccountsAssumption ==
    /\ NoUser \notin Users /\ NoPassword \notin Passwords
    /\ PasswordHistory \in Nat \ {0} /\ LockoutThreshold \in Nat \ {0}
    /\ Lockout \in Nat \ {0} /\ MaxAge \in Nat /\ Inactive \in Nat
    /\ Expiries \subseteq Nat
    /\ Initial \in Seq([id : Users, role : Roles])
    /\ \A k, l \in DOMAIN Initial : Initial[k].id = Initial[l].id => k = l
    /\ \A r \in Managers : \E k \in DOMAIN Initial : Initial[k].role = r
    /\ \A i \in Installations :
         /\ i.users \in [Users -> Row \cup {NoRow}]
         /\ \/ \A u \in Users : i.users[u] = NoRow
            \/ \A r \in Managers : \E u \in Users :
                 i.users[u].status = "active" /\ i.users[u].role = r
         /\ i.signedIn \in Seq(Users) /\ Len(i.signedIn) <= MaxTokens
    /\ Modes \subseteq Mode
    /\ MaxTokens \in Nat /\ MaxTime \in Nat

VARIABLES
    mode,
    clock,
    users,     \* rows of the account table
    used,      \* ids that were given out
    sessions,  \* the account each token signs in, NoUser if none
    signedIn,  \* number of tokens given out
    boot,      \* accounts Bootstrap has created; -1 if it broke off
    pc, job,   \* what each request is doing, and its local variables
    requests,
    chosen,    \* <<account, password>> pairs the account's owner chose
    guesses,   \* wrong passwords at logins since the account was last cleared
    decided    \* what administrators last settled for each account

vars == <<mode, clock, users, used, sessions, signedIn, boot, pc, job, requests,
          chosen, guesses, decided>>
ghosts == <<chosen, guesses, decided>>

(* A request: op on account user by the holder of token.                   *)
NoJob == [op |-> "none", token |-> None, actor |-> NoUser, user |-> NoUser, row |-> NoRow, role |-> "none",
          pw |-> NoPassword, expires |-> 0, duty |-> "none", ends |-> FALSE]

-----------------------------------------------------------------------------
(* The identity store.                                                     *)

Exists(u) == users[u] # NoRow

(* An account as CreateUser and Bootstrap fill it in. *)
NewRow(r, w) ==
    [role |-> r, status |-> "active", pw |-> w, history |-> <<>>, must |-> TRUE,
     failed |-> 0, locked |-> 0, expires |-> Never, seen |-> clock, pwAt |-> clock]

(* Mutant of Found: UpdateUser puts the row in where there is none. *)
FoundAlways(u) == TRUE

(* UpdateUser finds the row it replaces. *)
Found(u) == Exists(u)

StoreUpdateUser(u, row) == users' = [users EXCEPT ![u] = row]

StoreDeleteSession(t) == sessions' = [sessions EXCEPT ![t] = NoUser]

StoreDeleteUserSessions(u, keep) ==
    sessions' = [t \in Tokens |-> IF sessions[t] = u /\ t # keep THEN NoUser
                                  ELSE sessions[t]]

Settled(row) == [role |-> row.role, status |-> row.status, pw |-> row.pw]

-----------------------------------------------------------------------------
Init ==
    /\ mode \in Modes
    /\ clock = 0
    /\ \E i \in Installations :
         /\ users = i.users
         /\ signedIn = Len(i.signedIn)
         /\ sessions = [t \in Tokens |-> IF t <= signedIn THEN i.signedIn[t] ELSE NoUser]
    /\ used = {u \in Users : users[u] # NoRow}
    /\ boot = IF used = {} THEN 0 ELSE Len(Initial)
    /\ pc = [p \in Procs |-> "idle"] /\ job = [p \in Procs |-> NoJob]
    /\ requests = 0
    /\ chosen = {<<u, users[u].pw>> : u \in {v \in used : ~users[v].must}}
    /\ guesses = [u \in Users |-> 0]
    /\ decided = [u \in Users |-> IF u \in used THEN Settled(users[u]) ELSE NoRow]

(* Bootstrap, before requests are served: an account per management duty,  *)
(* all with the initial password.  A refused write ends the process; the   *)
(* next start finds accounts and creates no more.                          *)
Bootstrap ==
    /\ boot \in 0 .. Len(Initial) - 1
    /\ \E w \in Passwords :
         LET sd == Initial[boot + 1]
             first == Initial[1].id
         IN  /\ boot > 0 => w = users[first].pw
             /\ \/ /\ StoreUpdateUser(sd.id, NewRow(sd.role, w))
                   /\ used' = used \cup {sd.id}
                   /\ decided' = [decided EXCEPT ![sd.id] = Settled(NewRow(sd.role, w))]
                   /\ boot' = boot + 1
                \/ /\ mode.fails /\ boot' = IF boot = 0 THEN 0 ELSE -1
                   /\ UNCHANGED <<users, used, decided>>
    /\ UNCHANGED <<mode, clock, sessions, signedIn, pc, job, requests, chosen, guesses>>

Serving == boot \in {-1, Len(Initial)}

Goto(p, l, j) == pc' = [pc EXCEPT ![p] = l] /\ job' = [job EXCEPT ![p] = j]
Return(p) == Goto(p, "idle", NoJob)

Begin(p) ==
    /\ Serving /\ pc[p] = "idle"
    /\ mode.serial => \A q \in Procs : pc[q] = "idle"
    /\ requests < mode.requests /\ requests' = requests + 1

Tick ==
    /\ clock < mode.time /\ clock < MaxTime /\ clock' = clock + 1
    /\ UNCHANGED <<mode, users, used, sessions, signedIn, boot, pc, job, requests, ghosts>>

-----------------------------------------------------------------------------
(* Login.                                                                  *)

IsLocked(row) == clock < row.locked
IsExpired(row) == clock >= row.expires
IsDormant(row) == mode.dormant /\ clock - row.seen > Inactive

(* Mutant of CountFailure: the account locks one attempt later. *)
CountFailureLate(row) ==
    IF row.failed + 1 > LockoutThreshold
    THEN [row EXCEPT !.failed = 0, !.locked = clock + Lockout]
    ELSE [row EXCEPT !.failed = @ + 1]

(* The row after a wrong password. *)
CountFailure(row) ==
    IF row.failed + 1 >= LockoutThreshold
    THEN [row EXCEPT !.failed = 0, !.locked = clock + Lockout]
    ELSE [row EXCEPT !.failed = @ + 1]

(* The row after a right one. *)
Enter(row) ==
    [row EXCEPT !.failed = 0, !.locked = 0, !.seen = clock,
                !.must = @ \/ clock - row.pwAt > MaxAge]

Entering(op, u, row) == [NoJob EXCEPT !.op = op, !.user = u, !.row = row]

(* Read the row and compare the password with it.  *)
LoginRead(p) ==
    \E u \in Users, w \in Passwords :
      LET row == users[u]
          op == IF IsDormant(row) THEN "disable" ELSE IF row.pw # w THEN "refuse" ELSE "enter"
          next == IF op = "disable" THEN [row EXCEPT !.status = "disabled"]
                  ELSE IF op = "refuse" THEN CountFailure(row) ELSE Enter(row)
      IN  /\ Begin(p) /\ Exists(u)
          /\ row.status = "active" /\ ~IsExpired(row) /\ ~IsLocked(row)
          /\ Goto(p, "login", Entering(op, u, next))
          /\ guesses' = IF op = "refuse" THEN [guesses EXCEPT ![u] = @ + 1] ELSE guesses
          /\ UNCHANGED <<mode, clock, users, used, sessions, signedIn, boot, chosen, decided>>

(* UpdateUser of the row login changed; it fails if the account is gone.   *)
LoginWrite(p) ==
    LET j == job[p]  u == j.user
    IN  /\ pc[p] = "login"
        /\ \/ /\ Found(u) /\ StoreUpdateUser(u, j.row)
              /\ IF j.op = "enter" THEN Goto(p, "session", j) ELSE Return(p)
              /\ guesses' = IF j.op = "enter" \/ j.row.failed = 0
                            THEN [guesses EXCEPT ![u] = 0] ELSE guesses
           \/ /\ ~Found(u) \/ mode.fails
              /\ Return(p) /\ UNCHANGED <<users, guesses>>
        /\ UNCHANGED <<mode, clock, used, sessions, signedIn, boot, requests, chosen, decided>>

(* CreateSession. *)
LoginSession(p) ==
    /\ pc[p] = "session" /\ Return(p)
    /\ \/ /\ mode.references => Exists(job[p].user)
          /\ signedIn' = signedIn + 1
          /\ sessions' = [sessions EXCEPT ![signedIn + 1] = job[p].user]
       \/ /\ (mode.references /\ ~Exists(job[p].user)) \/ mode.fails
          /\ UNCHANGED <<sessions, signedIn>>
    /\ UNCHANGED <<mode, clock, users, used, boot, requests, ghosts>>

-----------------------------------------------------------------------------
(* Requests of people who are signed in: RequireSession, RequirePermission *)
(* and the operation.                                                      *)

Ask(op) == [NoJob EXCEPT !.op = op]
About(op, u) == [Ask(op) EXCEPT !.user = u]

Creation(u, r, w) == [About("create", u) EXCEPT !.role = r, !.pw = w]
Change(u, r, e) == [About("update", u) EXCEPT !.role = r, !.expires = e]

Requests ==
    {Ask("logout")} \cup
    {[Ask("change") EXCEPT !.pw = w] : w \in Passwords} \cup
    {Creation(u, r, w) : u \in Users \ used, r \in Roles, w \in Passwords} \cup
    {Change(u, r, e) : u \in used, r \in Roles, e \in Expiries} \cup
    {About(op, u) : op \in {"enable", "disable", "unlock", "delete"}, u \in used} \cup
    {[About("reset", u) EXCEPT !.pw = w] : u \in used, w \in Passwords}

Held(r, t, u) == [r EXCEPT !.token = t, !.actor = u]

(* GetSession. *)
ReadSession(p) ==
    \E t \in Tokens, r \in Requests :
        /\ Begin(p) /\ sessions[t] # NoUser
        /\ Goto(p, "read", Held(r, t, sessions[t]))
        /\ UNCHANGED <<mode, clock, users, used, sessions, signedIn, boot, ghosts>>

Admitted(u) ==
    /\ Exists(u)
    /\ users[u].status = "active"
    /\ ~IsLocked(users[u]) /\ ~IsExpired(users[u])

(* Principal.Can(user.manage): a temporary password carries no permission. *)
MayManage(u) == users[u].role = "sys_admin" /\ ~users[u].must

(* RequirePermission: of what is modelled, only one's own logout and       *)
(* password change need none.                                              *)
Permitted(j) == j.op \in {"logout", "change"} \/ MayManage(j.actor)

(* GetUserByID of the holder, then the permission check. *)
Authenticate(p) ==
    LET j == job[p]
    IN  /\ pc[p] = "read"
        /\ IF ~Admitted(j.actor)
           THEN StoreDeleteSession(j.token) /\ Return(p)
           ELSE /\ UNCHANGED sessions
                /\ IF Permitted(j) THEN Goto(p, j.op, j) ELSE Return(p)
        /\ UNCHANGED <<mode, clock, users, used, signedIn, boot, requests, ghosts>>

(* The session may fail to be deleted: then the user is still signed in.   *)
Logout(p) ==
    /\ pc[p] = "logout" /\ Return(p)
    /\ StoreDeleteSession(job[p].token) \/ (mode.fails /\ UNCHANGED sessions)
    /\ UNCHANGED <<mode, clock, users, used, signedIn, boot, requests, ghosts>>

-----------------------------------------------------------------------------
(* The operations: each reads the row, checks, and prepares the new one;   *)
(* the guard, the write and the end of the account's sessions follow.      *)

(* setPassword refuses the current password and the last ones.             *)
MaySet(row, w) == w # row.pw /\ \A i \in DOMAIN row.history : row.history[i] # w

NewHistory(row) ==
    LET h == <<row.pw>> \o row.history
    IN  IF Len(h) > PasswordHistory THEN SubSeq(h, 1, PasswordHistory) ELSE h

(* Mutant of SetPassword: a reset password need not be changed.            *)
SetPasswordForGood(row, w, mustChange) ==
    [row EXCEPT !.pw = w, !.history = NewHistory(row), !.must = FALSE,
                !.failed = 0, !.locked = 0, !.pwAt = clock]

SetPassword(row, w, mustChange) ==
    [row EXCEPT !.pw = w, !.history = NewHistory(row), !.must = mustChange,
                !.failed = 0, !.locked = 0, !.pwAt = clock]

unread == <<mode, clock, users, used, sessions, signedIn, boot, requests, ghosts>>

(* Refuse, or go on with the row the operation makes of the one it read:   *)
(* through guardLastManager if it takes the account's duty away, and to    *)
(* the end of its sessions if it is to be signed out.                      *)
Refuse(p) == Return(p) /\ UNCHANGED unread

WithRow(j, u, row, duty, ends) ==
    [j EXCEPT !.user = u, !.row = row, !.duty = duty, !.ends = ends]

Proceed(p, row, guarded, ends) ==
    LET u == job[p].user  old == users[u]
        duty == IF guarded /\ old.status = "active" /\ old.role \in Managers
                THEN old.role ELSE "none"
    IN  /\ Goto(p, IF duty = "none" THEN "write" ELSE "guard",
                WithRow(job[p], u, row, duty, ends))
        /\ UNCHANGED unread

(* A wrong old password is refused, and that is all: it is not counted and *)
(* locks nothing.                                                          *)
ChangePassword(p) ==
    \E old \in Passwords :
    LET j == job[p]  row == users[j.actor]
    IN  /\ pc[p] = "change"
        /\ IF Exists(j.actor) /\ old = row.pw /\ MaySet(row, j.pw)
           THEN /\ Goto(p, "write", WithRow(j, j.actor, SetPassword(row, j.pw, FALSE),
                                            "none", TRUE))
                /\ UNCHANGED unread
           ELSE Refuse(p)

(* The id is new.  The username may be taken.                              *)
CreateUser(p) ==
    LET j == job[p]  row == NewRow(j.role, j.pw)
    IN  /\ pc[p] = "create"
        /\ \/ /\ j.user \notin used /\ Return(p) /\ StoreUpdateUser(j.user, row)
              /\ used' = used \cup {j.user}
              /\ decided' = [decided EXCEPT ![j.user] = Settled(row)]
              /\ UNCHANGED <<mode, clock, sessions, signedIn, boot, requests, chosen, guesses>>
           \/ Refuse(p)

UpdateUser(p) ==
    LET j == job[p]  row == users[j.user]
        roleChanged == row.role # j.role
    IN  /\ pc[p] = "update"
        /\ IF Exists(j.user) /\ ~(roleChanged /\ j.user = j.actor)
           THEN Proceed(p, [row EXCEPT !.role = j.role, !.expires = j.expires],
                        roleChanged, roleChanged)
           ELSE Refuse(p)

(* SetStatus(active = FALSE) *)
Disable(p) ==
    LET j == job[p]
    IN  /\ pc[p] = "disable"
        /\ IF Exists(j.user) /\ j.user # j.actor
           THEN Proceed(p, [users[j.user] EXCEPT !.status = "disabled"], TRUE, TRUE)
           ELSE Refuse(p)

(* SetStatus(active = TRUE) counts as activity. *)
Enable(p) ==
    LET j == job[p]
    IN  /\ pc[p] = "enable"
        /\ IF Exists(j.user)
           THEN Proceed(p, [users[j.user] EXCEPT !.status = "active", !.seen = clock],
                        FALSE, FALSE)
           ELSE Refuse(p)

(* Mutant of Unlocked: unlocking enables the account too. *)
UnlockedEnabled(row) == [row EXCEPT !.locked = 0, !.failed = 0, !.status = "active"]

Unlocked(row) == [row EXCEPT !.locked = 0, !.failed = 0]

Unlock(p) ==
    LET j == job[p]
    IN  /\ pc[p] = "unlock"
        /\ IF Exists(j.user) THEN Proceed(p, Unlocked(users[j.user]), FALSE, FALSE)
           ELSE Refuse(p)

ResetPassword(p) ==
    LET j == job[p]  row == users[j.user]
    IN  /\ pc[p] = "reset"
        /\ IF Exists(j.user) /\ j.user # j.actor /\ MaySet(row, j.pw)
           THEN Proceed(p, SetPassword(row, j.pw, TRUE), FALSE, TRUE)
           ELSE Refuse(p)

DeleteUser(p) ==
    LET j == job[p]
    IN  /\ pc[p] = "delete"
        /\ IF Exists(j.user) /\ j.user # j.actor
           THEN Proceed(p, users[j.user], TRUE, FALSE)
           ELSE Refuse(p)

(* Mutant of OtherManager: the account itself counts. *)
OtherManagerOrSelf(u, duty) ==
    \E v \in Users : Exists(v) /\ users[v].role = duty /\ users[v].status = "active"

OtherManager(u, duty) ==
    \E v \in Users \ {u} : Exists(v) /\ users[v].role = duty /\ users[v].status = "active"

(* guardLastManager lists the accounts. *)
GuardLastManager(p) ==
    /\ pc[p] = "guard"
    /\ IF OtherManager(job[p].user, job[p].duty)
       THEN Goto(p, "write", job[p]) /\ UNCHANGED unread
       ELSE Refuse(p)

(* What the operation is to settle, whatever else the row holds.           *)
Decision(old, j) ==
    [role |-> IF j.op = "update" THEN j.role ELSE old.role,
     status |-> IF j.op = "enable" THEN "active"
                ELSE IF j.op = "disable" THEN "disabled" ELSE old.status,
     pw |-> IF j.op \in {"change", "reset"} THEN j.pw ELSE old.pw]

(* UpdateUser of the whole row. *)
Write(p) ==
    LET j == job[p]  u == j.user
    IN  /\ pc[p] = "write" /\ j.op # "delete"
        /\ \/ /\ Found(u) /\ StoreUpdateUser(u, j.row)
              /\ decided' = [decided EXCEPT ![u] = Decision(@, j)]
              /\ chosen' = IF j.op = "change" THEN chosen \cup {<<u, j.pw>>} ELSE chosen
              /\ guesses' = IF j.op \in {"change", "reset", "unlock"}
                            THEN [guesses EXCEPT ![u] = 0] ELSE guesses
              /\ IF j.ends THEN Goto(p, "sign out", j) ELSE Return(p)
              /\ UNCHANGED <<mode, clock, used, sessions, signedIn, boot, requests>>
           \/ (~Found(u) \/ mode.fails) /\ Refuse(p)

(* DeleteUser of the store: the row and its sessions together. *)
WriteDeleted(p) ==
    LET u == job[p].user
    IN  /\ pc[p] = "write" /\ job[p].op = "delete"
        /\ \/ /\ Exists(u) /\ StoreUpdateUser(u, NoRow)
              /\ StoreDeleteUserSessions(u, None)
              /\ decided' = [decided EXCEPT ![u] = NoRow] /\ Return(p)
              /\ UNCHANGED <<mode, clock, used, signedIn, boot, requests, chosen, guesses>>
           \/ (~Exists(u) \/ mode.fails) /\ Refuse(p)

(* DeleteUserSessions; a failure is not reported, except to the user who   *)
(* changed the own password and keeps the session it was changed from.     *)
SignOut(p) ==
    LET j == job[p]
    IN  /\ pc[p] = "sign out" /\ Return(p)
        /\ \/ StoreDeleteUserSessions(j.user, IF j.op = "change" THEN j.token ELSE None)
           \/ mode.fails /\ UNCHANGED sessions
        /\ UNCHANGED <<mode, clock, users, used, signedIn, boot, requests, ghosts>>

Next ==
    \/ Bootstrap \/ Tick
    \/ \E p \in Procs :
         \/ LoginRead(p) \/ LoginWrite(p) \/ LoginSession(p)
         \/ ReadSession(p) \/ Authenticate(p) \/ Logout(p)
         \/ ChangePassword(p) \/ CreateUser(p) \/ UpdateUser(p) \/ Disable(p) \/ Enable(p)
         \/ Unlock(p) \/ ResetPassword(p) \/ DeleteUser(p)
         \/ GuardLastManager(p) \/ Write(p) \/ WriteDeleted(p) \/ SignOut(p)

Spec == Init /\ [][Next]_vars

-----------------------------------------------------------------------------
(* Properties.                                                             *)

(* The store, the sessions and the requests have their types.              *)
TypeOK ==
    /\ mode \in Mode /\ clock \in Times
    /\ users \in [Users -> Row \cup {NoRow}]
    /\ used \in SUBSET Users
    /\ sessions \in [Tokens -> Users \cup {NoUser}]
    /\ signedIn \in Nat /\ boot \in Int /\ requests \in Nat
    /\ \A p \in Procs : job[p].user \in Users \cup {NoUser}
    /\ chosen \in SUBSET (Users \X Passwords)
    /\ guesses \in [Users -> Nat]

(* While requests take turns and nobody is disabled for inactivity, the    *)
(* system and the audit duty always have an enabled account: no sequence   *)
(* of disabling, deleting and changing roles leaves a duty with nobody     *)
(* (guardLastManager).                                                     *)
DutyIsHeld ==
    mode.serial /\ ~mode.dormant /\ boot = Len(Initial) =>
        \A r \in Managers : \E u \in Users :
            Exists(u) /\ users[u].role = r /\ users[u].status = "active"

(* An account whose password its owner did not choose, because it was      *)
(* created or reset by an administrator, has to change it first: in no     *)
(* interleaving does a login or an administrator's change bring the row    *)
(* back without that mark (SetPassword, whole-row writes).                 *)
TemporaryIsMarked ==
    \A u \in Users : Exists(u) /\ ~users[u].must => <<u, users[u].pw>> \in chosen

(* An account that was deleted never comes back, whatever login or change  *)
(* of it was under way and still has its row to write (UpdateUser of the   *)
(* store, newID).                                                          *)
DeletedStaysDeleted ==
    [][\A u \in used : users[u] = NoRow => users'[u] = NoRow]_vars

(* While requests take turns and the store takes the writes, logins try no *)
(* more wrong passwords on an account than the policy allows before it is  *)
(* locked, opened or cleared.  Old passwords given to ChangePassword are   *)
(* not among them: nothing bounds those.                                   *)
LoginGuessesAreBounded ==
    mode.serial /\ ~mode.fails => \A u \in Users : guesses[u] <= LockoutThreshold

(* While requests take turns, a role, a password or a disabling that an    *)
(* administrator settled is what the account has, whatever logins and      *)
(* other changes wrote the row since.                                      *)
DecisionKept ==
    mode.serial => \A u \in Users : Exists(u) =>
        /\ decided[u] # NoRow
        /\ users[u].role = decided[u].role /\ users[u].pw = decided[u].pw
        /\ users[u].status = "active" => decided[u].status = "active"
=============================================================================
