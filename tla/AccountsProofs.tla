--------------------------- MODULE AccountsProofs ---------------------------
(***************************************************************************)
(* Proofs about Accounts, for any number of accounts, requests and tokens, *)
(* any policy and any length of a behaviour.  Sound is what holds in every *)
(* mode; Turns adds what holds while requests take turns.                  *)
(***************************************************************************)
EXTENDS Accounts, TLAPS

Ops == {"logout", "change", "create", "update", "enable", "disable", "unlock", "reset", "delete"}
Settling == Ops \ {"logout", "change", "create"}
Labels == {"idle", "login", "session", "read", "guard", "write", "sign out"} \cup Ops

Job == [op : Ops \cup {"none", "enter", "refuse"}, token : Tokens \cup {None}, actor : Users \cup {NoUser},
        user : Users \cup {NoUser}, row : Row \cup {NoRow}, role : Roles \cup {"none"},
        pw : Passwords \cup {NoPassword}, expires : Nat,
        duty : Managers \cup {"none"}, ends : BOOLEAN]

Settlement == [role : Roles, status : {"active", "disabled"}, pw : Passwords]

Types ==
    /\ mode \in Mode /\ clock \in Times
    /\ users \in [Users -> Row \cup {NoRow}]
    /\ used \in SUBSET Users
    /\ sessions \in [Tokens -> Users \cup {NoUser}]
    /\ signedIn \in Nat /\ requests \in Nat
    /\ boot \in -1 .. Len(Initial)
    /\ pc \in [Procs -> Labels] /\ job \in [Procs -> Job]
    /\ chosen \in SUBSET (Users \X Passwords)
    /\ guesses \in [Users -> Nat]
    /\ decided \in [Users -> Settlement \cup {NoRow}]

(* An id that was not given out has no account and no history. *)
Fresh == \A u \in Users \ used : ~Exists(u) /\ guesses[u] = 0

(* Until Bootstrap has ended there are only the accounts it made. *)
Booting ==
    ~Serving =>
        /\ \A p \in Procs : pc[p] = "idle"
        /\ used = {Initial[k].id : k \in 1 .. boot}
        /\ \A k \in 1 .. boot : LET u == Initial[k].id IN
             Exists(u) /\ users[u].role = Initial[k].role /\ users[u].status = "active"

(* A request as it came in. *)
Asked(j) ==
    /\ j.op \in Ops /\ j.actor \in Users
    /\ j.op \notin {"logout", "change"} => j.user \in Users
    /\ j.op \in {"create", "update"} => j.role \in Roles
    /\ j.op \in {"change", "create", "reset"} => j.pw \in Passwords

(* A row on its way to the store, when c are the chosen passwords. *)
Prepared(j, c) ==
    /\ j.user \in Users /\ j.row \in Row
    /\ j.op # "change" /\ ~j.row.must => <<j.user, j.row.pw>> \in c

(* What a request at label l knows. *)
JobOK(l, j, c) ==
    /\ l \in {"read"} \cup Ops => Asked(j)
    /\ l \in Ops => j.op = l
    /\ l = "login" => Prepared(j, c) /\ j.op \in {"enter", "refuse", "disable"}
    /\ l = "session" => j.user \in Users
    /\ l \in {"guard", "write"} =>
         /\ Prepared(j, c) /\ j.op \in Settling \cup {"change"}
         /\ j.op = "change" => j.row.pw = j.pw /\ j.row.must = FALSE
         /\ j.op \in {"change", "reset"} => j.pw \in Passwords
         /\ j.op = "update" => j.role \in Roles
    /\ l = "sign out" => j.user \in Users

Jobs == \A p \in Procs : JobOK(pc[p], job[p], chosen)

(* Somebody settled what an existing account is. *)
Decided == \A u \in Users : Exists(u) => decided[u] # NoRow

Sound == Types /\ Fresh /\ Booting /\ TemporaryIsMarked /\ Jobs /\ Decided

-----------------------------------------------------------------------------
(* Facts about rows. *)

LEMMA Numbers ==
    /\ PasswordHistory \in Nat \ {0} /\ Lockout \in Nat \ {0}
    /\ LockoutThreshold \in Nat \ {0} /\ 0 \in 0 .. LockoutThreshold - 1
    /\ MaxTime \in Nat /\ MaxAge \in Nat /\ Expiries \subseteq Nat
    /\ <<>> \in {h \in Seq(Passwords) : Len(h) <= PasswordHistory}
<1>1. /\ PasswordHistory \in Nat \ {0} /\ Lockout \in Nat \ {0}
      /\ LockoutThreshold \in Nat \ {0}
      /\ MaxTime \in Nat /\ MaxAge \in Nat /\ Expiries \subseteq Nat
  BY AccountsAssumption
<1>2. 0 \in 0 .. LockoutThreshold - 1
  BY <1>1
<1>3. <<>> \in {h \in Seq(Passwords) : Len(h) <= PasswordHistory}
  BY <1>1
<1>. QED
  BY <1>1, <1>2, <1>3

LEMMA Blanks ==
    /\ NoRow \notin Row /\ NoRow \notin Settlement /\ NoJob \in Job
    /\ Never \in Nat /\ Times \subseteq Nat
<1>1. NoRow.status = "none"
  BY DEF NoRow
<1>2. NoRow \notin Row
  BY <1>1 DEF Row
<1>3. NoRow \notin Settlement
  BY <1>1 DEF Settlement
<1>4. Never \in Nat /\ Times \subseteq Nat
  BY AccountsAssumption DEF Never, Times
<1>5. NoJob \in Job
  BY DEF NoJob, Job, None
<1>. QED
  BY <1>2, <1>3, <1>4, <1>5

(* The local variables of a login, of a request and of a prepared change. *)
LEMMA EnteringType ==
    ASSUME NEW op \in {"disable", "refuse", "enter"}, NEW u \in Users, NEW row \in Row
    PROVE  /\ Entering(op, u, row) \in Job /\ Entering(op, u, row).op = op
           /\ Entering(op, u, row).user = u /\ Entering(op, u, row).row = row
<1>1. op \in Ops \cup {"none", "enter", "refuse"}
  BY DEF Ops
<1>. QED
  BY <1>1, Blanks DEF Job, NoJob, Entering

LEMMA HeldType ==
    ASSUME NEW r \in Job, NEW t \in Tokens, NEW u \in Users
    PROVE  /\ Held(r, t, u) \in Job /\ Held(r, t, u).actor = u
           /\ Held(r, t, u).op = r.op /\ Held(r, t, u).user = r.user
           /\ Held(r, t, u).role = r.role /\ Held(r, t, u).pw = r.pw
BY DEF Job, Held

LEMMA WithRowType ==
    ASSUME NEW j \in Job, NEW u \in Users, NEW row \in Row,
           NEW duty \in Managers \cup {"none"}, NEW ends \in BOOLEAN
    PROVE  LET k == WithRow(j, u, row, duty, ends)
           IN  /\ k \in Job /\ k.user = u /\ k.row = row /\ k.duty = duty
               /\ k.op = j.op /\ k.role = j.role /\ k.pw = j.pw
<1>. DEFINE k1 == [j EXCEPT !.user = u, !.row = row]
<1>1. /\ k1 \in Job /\ k1.user = u /\ k1.row = row
      /\ k1.op = j.op /\ k1.role = j.role /\ k1.pw = j.pw
  BY DEF Job
<1>. HIDE DEF k1
<1>. DEFINE k2 == [k1 EXCEPT !.duty = duty]
<1>2. /\ k2 \in Job /\ k2.user = u /\ k2.row = row /\ k2.duty = duty
      /\ k2.op = j.op /\ k2.role = j.role /\ k2.pw = j.pw
  BY <1>1 DEF Job
<1>. HIDE DEF k2
<1>. DEFINE k3 == [k2 EXCEPT !.ends = ends]
<1>3. /\ k3 \in Job /\ k3.user = u /\ k3.row = row /\ k3.duty = duty
      /\ k3.op = j.op /\ k3.role = j.role /\ k3.pw = j.pw
  BY <1>2 DEF Job
<1>4. WithRow(j, u, row, duty, ends) = k3
  BY DEF WithRow, k1, k2
<1>. QED
  BY <1>3, <1>4

LEMMA NewRowType ==
    ASSUME clock \in Times, NEW r \in Roles, NEW w \in Passwords
    PROVE  NewRow(r, w) \in Row /\ NewRow(r, w).must
BY Numbers, Blanks DEF NewRow, Row

LEMMA CountFailureType ==
    ASSUME clock \in Times, NEW row \in Row
    PROVE  /\ CountFailure(row) \in Row
           /\ CountFailure(row).must = row.must /\ CountFailure(row).pw = row.pw
           /\ CountFailure(row).role = row.role /\ CountFailure(row).status = row.status
<1>1. CASE row.failed + 1 >= LockoutThreshold
  <2>1. clock + Lockout \in Nat
    BY Numbers, Blanks
  <2>2. CountFailure(row) = [row EXCEPT !.failed = 0, !.locked = clock + Lockout]
    BY <1>1 DEF CountFailure
  <2>. QED
    BY <2>1, <2>2, Numbers DEF Row
<1>2. CASE ~(row.failed + 1 >= LockoutThreshold)
  <2>1. row.failed + 1 \in 0 .. LockoutThreshold - 1
    BY <1>2, Numbers DEF Row
  <2>2. CountFailure(row) = [row EXCEPT !.failed = row.failed + 1]
    BY <1>2 DEF CountFailure
  <2>. QED
    BY <2>1, <2>2 DEF Row
<1>. QED
  BY <1>1, <1>2

LEMMA EnteredType ==
    ASSUME clock \in Times, NEW row \in Row, NEW m \in BOOLEAN, row.must => m,
           NEW new, new = [row EXCEPT !.failed = 0, !.locked = 0, !.seen = clock, !.must = m]
    PROVE  /\ new \in Row
           /\ row.must => new.must
           /\ new.pw = row.pw /\ new.role = row.role /\ new.status = row.status
BY Numbers DEF Row

LEMMA EnterType ==
    ASSUME clock \in Times, NEW row \in Row
    PROVE  /\ Enter(row) \in Row
           /\ row.must => Enter(row).must
           /\ Enter(row).pw = row.pw /\ Enter(row).role = row.role
           /\ Enter(row).status = row.status
<1>. DEFINE m == row.must \/ clock - row.pwAt > MaxAge
<1>1. m \in BOOLEAN /\ (row.must => m)
  BY DEF Row
<1>2. Enter(row) = [row EXCEPT !.failed = 0, !.locked = 0, !.seen = clock, !.must = m]
  BY DEF Enter
<1>. HIDE DEF m
<1>. QED
  BY <1>1, <1>2, EnteredType

LEMMA NewHistoryType ==
    ASSUME NEW row \in Row
    PROVE  NewHistory(row) \in {h \in Seq(Passwords) : Len(h) <= PasswordHistory}
<1>. DEFINE h == <<row.pw>> \o row.history
<1>1. h \in Seq(Passwords) /\ Len(h) \in Nat
  BY DEF Row
<1>2. CASE Len(h) > PasswordHistory
  <2>1. SubSeq(h, 1, PasswordHistory) \in Seq(Passwords)
    BY <1>1, <1>2, Numbers
  <2>2. Len(SubSeq(h, 1, PasswordHistory)) = PasswordHistory
    BY <1>1, <1>2, Numbers
  <2>. QED
    BY <2>1, <2>2, <1>2, Numbers DEF NewHistory
<1>3. CASE ~(Len(h) > PasswordHistory)
  BY <1>1, <1>3, Numbers DEF NewHistory
<1>. QED
  BY <1>2, <1>3

LEMMA SetPasswordType ==
    ASSUME clock \in Times, NEW row \in Row, NEW w \in Passwords, NEW m \in BOOLEAN
    PROVE  /\ SetPassword(row, w, m) \in Row
           /\ SetPassword(row, w, m).pw = w /\ SetPassword(row, w, m).must = m
           /\ SetPassword(row, w, m).role = row.role
           /\ SetPassword(row, w, m).status = row.status
BY Numbers, Blanks, NewHistoryType DEF SetPassword, Row

LEMMA ExistingRow ==
    ASSUME Types, NEW u \in Users, Exists(u)
    PROVE  users[u] \in Row
BY DEF Types, Exists

-----------------------------------------------------------------------------
(* One request moves; the others keep what they know. *)
LEMMA JobsKept ==
    ASSUME Types, Jobs, NEW p \in Procs, NEW l \in Labels, NEW j \in Job,
           Goto(p, l, j), chosen \subseteq chosen', JobOK(l, j, chosen')
    PROVE  /\ pc' \in [Procs -> Labels] /\ job' \in [Procs -> Job] /\ Jobs'
           /\ pc'[p] = l /\ job'[p] = j
           /\ \A q \in Procs \ {p} : pc'[q] = pc[q] /\ job'[q] = job[q]
<1>1. /\ pc' \in [Procs -> Labels] /\ job' \in [Procs -> Job]
      /\ pc'[p] = l /\ job'[p] = j
      /\ \A q \in Procs \ {p} : pc'[q] = pc[q] /\ job'[q] = job[q]
  BY DEF Goto, Types
<1>2. ASSUME NEW q \in Procs
      PROVE  JobOK(pc'[q], job'[q], chosen')
  <2>1. CASE q = p
    BY <2>1, <1>1
  <2>2. CASE q # p
    <3>1. JobOK(pc[q], job[q], chosen)
      BY DEF Jobs
    <3>2. Prepared(job[q], chosen) => Prepared(job[q], chosen')
      BY DEF Prepared
    <3>. QED
      BY <3>1, <3>2, <2>2, <1>1 DEF JobOK
  <2>. QED
    BY <2>1, <2>2
<1>. QED
  BY <1>1, <1>2 DEF Jobs

(* A step that leaves the accounts alone. *)
LEMMA Moved ==
    ASSUME Sound, NEW p \in Procs, NEW l \in Labels, NEW j \in Job,
           Goto(p, l, j), JobOK(l, j, chosen), l = "idle" \/ Serving,
           UNCHANGED <<mode, clock, users, used, boot, chosen, decided>>,
           sessions' \in [Tokens -> Users \cup {NoUser}],
           signedIn' \in Nat, requests' \in Nat,
           guesses' \in [Users -> Nat], \A u \in Users \ used : guesses'[u] = 0
    PROVE  Sound'
<1>1. /\ pc' \in [Procs -> Labels] /\ job' \in [Procs -> Job] /\ Jobs'
      /\ pc'[p] = l /\ \A q \in Procs \ {p} : pc'[q] = pc[q]
  <2>1. Types /\ Jobs /\ chosen \subseteq chosen' /\ JobOK(l, j, chosen')
    BY DEF Sound
  <2>. QED
    BY <2>1, JobsKept
<1>2. Types'
  BY <1>1 DEF Types, Sound
<1>3. Fresh'
  BY DEF Fresh, Exists, Sound
<1>4. Booting'
  BY <1>1 DEF Booting, Serving, Exists, Sound
<1>5. TemporaryIsMarked' /\ Decided'
  BY DEF TemporaryIsMarked, Decided, Exists, Sound
<1>. QED
  BY <1>1, <1>2, <1>3, <1>4, <1>5 DEF Sound

(* A step that writes an account's row, or deletes it. *)
LEMMA Written ==
    ASSUME Sound, Serving, NEW p \in Procs, NEW l \in Labels, NEW j \in Job,
           Goto(p, l, j), JobOK(l, j, chosen'),
           NEW u \in Users, NEW row \in Row \cup {NoRow},
           StoreUpdateUser(u, row), used' = used \cup {u},
           chosen \subseteq chosen', chosen' \in SUBSET (Users \X Passwords),
           row # NoRow /\ ~row.must => <<u, row.pw>> \in chosen',
           UNCHANGED <<mode, clock, signedIn, boot, requests>>,
           sessions' \in [Tokens -> Users \cup {NoUser}],
           guesses' \in [Users -> Nat], \A v \in Users \ used' : guesses'[v] = guesses[v],
           decided' \in [Users -> Settlement \cup {NoRow}],
           row # NoRow => decided'[u] # NoRow,
           \A v \in Users \ {u} : decided'[v] = decided[v]
    PROVE  Sound'
<1>1. /\ pc' \in [Procs -> Labels] /\ job' \in [Procs -> Job] /\ Jobs'
  BY JobsKept DEF Sound
<1>2. users' \in [Users -> Row \cup {NoRow}] /\ users'[u] = row
      /\ \A v \in Users \ {u} : users'[v] = users[v]
  BY DEF StoreUpdateUser, Types, Sound
<1>3. Types'
  BY <1>1, <1>2 DEF Types, Sound
<1>4. Fresh'
  BY <1>2 DEF Fresh, Exists, Sound
<1>5. Booting'
  BY DEF Booting, Serving
<1>6. TemporaryIsMarked' /\ Decided'
  BY <1>2 DEF TemporaryIsMarked, Decided, Exists, Sound
<1>. QED
  BY <1>1, <1>3, <1>4, <1>5, <1>6 DEF Sound

LEMMA Idle ==
    /\ NoJob \in Job /\ "idle" \in Labels
    /\ \A c : JobOK("idle", NoJob, c)
    /\ \A p \in Procs : Return(p) => Goto(p, "idle", NoJob)
<1>1. "idle" \in Labels /\ "idle" \notin {"read", "login", "session", "guard", "write", "sign out"} \cup Ops
  BY DEF Labels, Ops
<1>. QED
  BY <1>1, Blanks DEF JobOK, Return

LEMMA Returned ==
    ASSUME Sound, NEW p \in Procs, Return(p),
           UNCHANGED <<mode, clock, users, used, boot, chosen, decided>>,
           sessions' \in [Tokens -> Users \cup {NoUser}],
           signedIn' \in Nat, requests' \in Nat,
           guesses' \in [Users -> Nat], \A u \in Users \ used : guesses'[u] = 0
    PROVE  Sound'
BY Idle, Moved

(* Only while Bootstrap runs, and before, is nothing served. *)
LEMMA BusyServes ==
    ASSUME Sound, NEW p \in Procs, pc[p] # "idle"
    PROVE  Serving
BY DEF Sound, Booting

LEMMA Refused ==
    ASSUME Sound, NEW p \in Procs, Refuse(p)
    PROVE  Sound'
<1>1. /\ UNCHANGED <<mode, clock, users, used, boot, chosen, decided>>
      /\ sessions' \in [Tokens -> Users \cup {NoUser}]
      /\ signedIn' \in Nat /\ requests' \in Nat
      /\ guesses' \in [Users -> Nat] /\ \A u \in Users \ used : guesses'[u] = 0
      /\ Return(p)
  BY DEF Refuse, unread, ghosts, Sound, Types, Fresh
<1>. QED
  BY <1>1, Returned

-----------------------------------------------------------------------------
(* The steps of a login. *)

LEMMA LoginReadSound ==
    ASSUME Sound, NEW p \in Procs, LoginRead(p)
    PROVE  Sound'
<1>1. PICK u \in Users, w \in Passwords, op \in {"disable", "refuse", "enter"} :
        LET next == IF op = "disable" THEN [users[u] EXCEPT !.status = "disabled"]
                    ELSE IF op = "refuse" THEN CountFailure(users[u]) ELSE Enter(users[u])
        IN  /\ Begin(p) /\ Exists(u)
            /\ Goto(p, "login", Entering(op, u, next))
            /\ guesses' = IF op = "refuse" THEN [guesses EXCEPT ![u] = @ + 1] ELSE guesses
            /\ UNCHANGED <<mode, clock, users, used, sessions, signedIn, boot, chosen, decided>>
  BY DEF LoginRead
<1>. DEFINE next == IF op = "disable" THEN [users[u] EXCEPT !.status = "disabled"]
                    ELSE IF op = "refuse" THEN CountFailure(users[u]) ELSE Enter(users[u])
<1>2. users[u] \in Row /\ clock \in Times
  BY <1>1, ExistingRow DEF Sound, Types
<1>3. /\ next \in Row /\ next.pw = users[u].pw
      /\ users[u].must => next.must
  <2>1. CASE op = "disable"
    BY <2>1, <1>2 DEF Row
  <2>2. CASE op = "refuse"
    BY <2>2, <1>2, CountFailureType
  <2>3. CASE op = "enter"
    BY <2>3, <1>2, EnterType
  <2>. QED
    BY <2>1, <2>2, <2>3
<1>. HIDE DEF next
<1>4. PICK j \in Job : j = Entering(op, u, next) /\ j.op = op /\ j.user = u /\ j.row = next
  BY <1>3, EnteringType
<1>5. JobOK("login", j, chosen)
  <2>1. ~next.must => <<u, next.pw>> \in chosen
    BY <1>1, <1>3 DEF Sound, TemporaryIsMarked
  <2>2. Prepared(j, chosen)
    BY <1>3, <1>4, <2>1 DEF Prepared
  <2>. QED
    BY <1>4, <2>2 DEF JobOK, Ops
<1>6. /\ Goto(p, "login", j) /\ Serving
      /\ UNCHANGED <<mode, clock, users, used, boot, chosen, decided>>
      /\ sessions' \in [Tokens -> Users \cup {NoUser}]
      /\ signedIn' \in Nat /\ requests' \in Nat
  BY <1>1, <1>4 DEF Begin, next, Sound, Types
<1>7. guesses' \in [Users -> Nat] /\ \A v \in Users \ used : guesses'[v] = 0
  BY <1>1 DEF Sound, Types, Fresh
<1>. QED
  BY <1>4, <1>5, <1>6, <1>7, Moved DEF Labels

LEMMA LoginWriteSound ==
    ASSUME Sound, NEW p \in Procs, LoginWrite(p)
    PROVE  Sound'
<1>. DEFINE u == job[p].user
<1>1. JobOK("login", job[p], chosen) /\ pc[p] = "login" /\ Serving
  BY BusyServes DEF LoginWrite, Sound, Jobs
<1>2. job[p] \in Job /\ u \in Users /\ job[p].row \in Row
  BY <1>1 DEF JobOK, Prepared, Sound, Types
<1>3. CASE /\ Found(u) /\ StoreUpdateUser(u, job[p].row)
           /\ IF job[p].op = "enter" THEN Goto(p, "session", job[p]) ELSE Return(p)
           /\ guesses' = IF job[p].op = "enter" \/ job[p].row.failed = 0
                         THEN [guesses EXCEPT ![u] = 0] ELSE guesses
  <2>1. /\ UNCHANGED <<mode, clock, used, sessions, signedIn, boot, requests, chosen, decided>>
        /\ used' = used \cup {u}
        /\ \A v \in Users \ used' : guesses'[v] = guesses[v]
        /\ guesses' \in [Users -> Nat]
    BY <1>2, <1>3 DEF LoginWrite, Found, Sound, Types, Fresh
  <2>2. job[p].row # NoRow /\ ~job[p].row.must => <<u, job[p].row.pw>> \in chosen'
    BY <1>1, <2>1 DEF JobOK, Prepared
  <2>3. \E l \in Labels, j \in Job : Goto(p, l, j) /\ JobOK(l, j, chosen')
    <3>1. CASE job[p].op = "enter"
      BY <3>1, <1>2, <1>3 DEF Labels, JobOK, Ops
    <3>2. CASE job[p].op # "enter"
      BY <3>2, <1>3, Idle
    <3>. QED
      BY <3>1, <3>2
  <2>4. PICK l \in Labels, j \in Job : Goto(p, l, j) /\ JobOK(l, j, chosen')
    BY <2>3
  <2>5. PICK row \in Row : row = job[p].row
    BY <1>2
  <2>6. PICK v \in Users : v = u
    BY <1>2
  <2>7. /\ StoreUpdateUser(v, row) /\ used' = used \cup {v}
        /\ row # NoRow /\ ~row.must => <<v, row.pw>> \in chosen'
    BY <1>3, <2>1, <2>2, <2>5, <2>6
  <2>8. /\ sessions' \in [Tokens -> Users \cup {NoUser}]
        /\ decided' \in [Users -> Settlement \cup {NoRow}]
        /\ chosen \subseteq chosen' /\ chosen' \in SUBSET (Users \X Passwords)
        /\ decided'[v] # NoRow /\ \A w \in Users \ {v} : decided'[w] = decided[w]
    BY <1>3, <2>1, <2>6 DEF Sound, Types, Decided, Found
  <2>. QED
    BY <1>1, <2>1, <2>4, <2>7, <2>8, Written
<1>4. CASE Return(p) /\ UNCHANGED <<users, guesses>>
  <2>1. /\ UNCHANGED <<mode, clock, users, used, boot, chosen, decided>>
        /\ sessions' \in [Tokens -> Users \cup {NoUser}]
        /\ signedIn' \in Nat /\ requests' \in Nat
        /\ guesses' \in [Users -> Nat] /\ \A v \in Users \ used : guesses'[v] = 0
    BY <1>4 DEF LoginWrite, Sound, Types, Fresh
  <2>. QED
    BY <1>4, <2>1, Returned
<1>. QED
  BY <1>3, <1>4 DEF LoginWrite

LEMMA LoginSessionSound ==
    ASSUME Sound, NEW p \in Procs, LoginSession(p)
    PROVE  Sound'
<1>1. job[p].user \in Users
  BY DEF LoginSession, Sound, Jobs, JobOK
<1>2. /\ UNCHANGED <<mode, clock, users, used, boot, chosen, decided>>
      /\ signedIn' \in Nat /\ requests' \in Nat /\ Return(p)
      /\ guesses' \in [Users -> Nat] /\ \A v \in Users \ used : guesses'[v] = 0
  BY DEF LoginSession, ghosts, Sound, Types, Fresh
<1>3. sessions' \in [Tokens -> Users \cup {NoUser}]
  BY <1>1 DEF LoginSession, Sound, Types
<1>. QED
  BY <1>2, <1>3, Returned

-----------------------------------------------------------------------------
(* Requests, and the checks on who makes them. *)

LEMMA AskType ==
    ASSUME NEW op \in Ops
    PROVE  Ask(op) \in Job /\ Ask(op).op = op
BY Blanks DEF Ask, NoJob, Job, Ops

LEMMA AboutType ==
    ASSUME NEW op \in Ops, NEW u \in Users
    PROVE  About(op, u) \in Job /\ About(op, u).op = op /\ About(op, u).user = u
BY AskType DEF About, Job

LEMMA CreationType ==
    ASSUME NEW u \in Users, NEW q \in Roles, NEW w \in Passwords
    PROVE  LET r == Creation(u, q, w)
           IN  r \in Job /\ r.op = "create" /\ r.user = u /\ r.role = q /\ r.pw = w
<1>1. About("create", u) \in Job /\ About("create", u).op = "create" /\ About("create", u).user = u
  BY AboutType DEF Ops
<1>. QED
  BY <1>1 DEF Creation, Job

LEMMA ChangeType ==
    ASSUME NEW u \in Users, NEW q \in Roles, NEW e \in Expiries
    PROVE  LET r == Change(u, q, e)
           IN  r \in Job /\ r.op = "update" /\ r.user = u /\ r.role = q
<1>1. About("update", u) \in Job /\ About("update", u).op = "update" /\ About("update", u).user = u
  BY AboutType DEF Ops
<1>. QED
  BY <1>1, Numbers DEF Change, Job

LEMMA RequestType ==
    ASSUME used \subseteq Users, NEW r \in Requests
    PROVE  /\ r \in Job /\ r.op \in Ops
           /\ r.op \notin {"logout", "change"} => r.user \in Users
           /\ r.op \in {"create", "update"} => r.role \in Roles
           /\ r.op \in {"change", "create", "reset"} => r.pw \in Passwords
<1>1. CASE r = Ask("logout")
  BY <1>1, AskType DEF Ops
<1>2. CASE \E w \in Passwords : r = [Ask("change") EXCEPT !.pw = w]
  <2>1. Ask("change") \in Job /\ Ask("change").op = "change" /\ "change" \in Ops
    BY AskType DEF Ops
  <2>2. PICK w \in Passwords : r = [Ask("change") EXCEPT !.pw = w]
    BY <1>2
  <2>. QED
    BY <2>1, <2>2 DEF Job
<1>3. CASE \E u \in Users \ used, q \in Roles, w \in Passwords : r = Creation(u, q, w)
  BY <1>3, CreationType DEF Ops
<1>4. CASE \E u \in used, q \in Roles, e \in Expiries : r = Change(u, q, e)
  BY <1>4, ChangeType DEF Ops
<1>5. CASE \E op \in {"enable", "disable", "unlock", "delete"}, u \in used : r = About(op, u)
  BY <1>5, AboutType DEF Ops
<1>6. CASE \E u \in used, w \in Passwords : r = [About("reset", u) EXCEPT !.pw = w]
  <2>1. PICK u \in Users, w \in Passwords : r = [About("reset", u) EXCEPT !.pw = w]
    BY <1>6
  <2>2. /\ About("reset", u) \in Job /\ About("reset", u).op = "reset" /\ "reset" \in Ops
        /\ About("reset", u).user = u
    BY AboutType DEF Ops
  <2>. QED
    BY <2>1, <2>2 DEF Job
<1>. QED
  BY <1>1, <1>2, <1>3, <1>4, <1>5, <1>6 DEF Requests

LEMMA ReadSessionSound ==
    ASSUME Sound, NEW p \in Procs, ReadSession(p)
    PROVE  Sound'
<1>1. PICK t \in Tokens, r \in Requests :
        /\ Begin(p) /\ sessions[t] # NoUser /\ Goto(p, "read", Held(r, t, sessions[t]))
        /\ UNCHANGED <<mode, clock, users, used, sessions, signedIn, boot, ghosts>>
  BY DEF ReadSession
<1>2. PICK u \in Users : u = sessions[t]
  BY <1>1 DEF Sound, Types
<1>3. /\ r \in Job /\ r.op \in Ops
      /\ r.op \notin {"logout", "change"} => r.user \in Users
      /\ r.op \in {"create", "update"} => r.role \in Roles
      /\ r.op \in {"change", "create", "reset"} => r.pw \in Passwords
  BY RequestType DEF Sound, Types
<1>4. PICK j \in Job :
        /\ j = Held(r, t, u) /\ j.actor = u /\ j.op = r.op /\ j.user = r.user
        /\ j.role = r.role /\ j.pw = r.pw
  BY <1>3, HeldType
<1>5. Asked(j)
  BY <1>3, <1>4 DEF Asked
<1>6. JobOK("read", j, chosen) /\ "read" \in Labels
  BY <1>5 DEF JobOK, Labels, Ops
<1>7. /\ Goto(p, "read", j) /\ Serving
      /\ UNCHANGED <<mode, clock, users, used, boot, chosen, decided>>
      /\ sessions' \in [Tokens -> Users \cup {NoUser}]
      /\ signedIn' \in Nat /\ requests' \in Nat
      /\ guesses' \in [Users -> Nat] /\ \A v \in Users \ used : guesses'[v] = 0
  BY <1>1, <1>2, <1>4 DEF Begin, ghosts, Sound, Types, Fresh
<1>. QED
  BY <1>6, <1>7, Moved

(* What a step that only deletes sessions, or nothing, leaves alone. *)
LEMMA OnlySessions ==
    ASSUME Sound, UNCHANGED <<mode, clock, users, used, signedIn, boot, requests, ghosts>>,
           \/ UNCHANGED sessions \/ \E t : StoreDeleteSession(t)
           \/ \E u, k : StoreDeleteUserSessions(u, k)
    PROVE  /\ UNCHANGED <<mode, clock, users, used, boot, chosen, decided>>
           /\ sessions' \in [Tokens -> Users \cup {NoUser}]
           /\ signedIn' \in Nat /\ requests' \in Nat
           /\ guesses' \in [Users -> Nat] /\ \A v \in Users \ used : guesses'[v] = 0
<1>1. sessions' \in [Tokens -> Users \cup {NoUser}]
  BY DEF StoreDeleteSession, StoreDeleteUserSessions, Sound, Types
<1>. QED
  BY <1>1 DEF ghosts, Sound, Types, Fresh

LEMMA AuthenticateSound ==
    ASSUME Sound, NEW p \in Procs, Authenticate(p)
    PROVE  Sound'
<1>1. /\ UNCHANGED <<mode, clock, users, used, boot, chosen, decided>>
      /\ sessions' \in [Tokens -> Users \cup {NoUser}]
      /\ signedIn' \in Nat /\ requests' \in Nat
      /\ guesses' \in [Users -> Nat] /\ \A v \in Users \ used : guesses'[v] = 0
  BY OnlySessions DEF Authenticate
<1>2. CASE Return(p)
  BY <1>1, <1>2, Returned
<1>3. CASE Goto(p, job[p].op, job[p])
  <2>1. Serving /\ Asked(job[p]) /\ job[p] \in Job
    BY BusyServes DEF Authenticate, Sound, Jobs, JobOK, Types
  <2>2. PICK j \in Job : j = job[p] /\ Asked(j)
    BY <2>1
  <2>3. PICK l \in Ops : l = j.op
    BY <2>2 DEF Asked
  <2>4. JobOK(l, j, chosen) /\ l \in Labels
    BY <2>2, <2>3 DEF JobOK, Labels, Ops
  <2>. QED
    BY <1>1, <1>3, <2>1, <2>2, <2>3, <2>4, Moved
<1>. QED
  BY <1>2, <1>3 DEF Authenticate

LEMMA LogoutSound ==
    ASSUME Sound, NEW p \in Procs, Logout(p)
    PROVE  Sound'
<1>1. Return(p) /\ UNCHANGED <<mode, clock, users, used, signedIn, boot, requests, ghosts>>
  BY DEF Logout
<1>2. \/ UNCHANGED sessions \/ \E t : StoreDeleteSession(t)
  BY DEF Logout
<1>. QED
  BY <1>1, <1>2, OnlySessions, Returned

LEMMA SignOutSound ==
    ASSUME Sound, NEW p \in Procs, SignOut(p)
    PROVE  Sound'
<1>1. Return(p) /\ UNCHANGED <<mode, clock, users, used, signedIn, boot, requests, ghosts>>
  BY DEF SignOut
<1>2. \/ UNCHANGED sessions \/ \E u, k : StoreDeleteUserSessions(u, k)
  BY DEF SignOut
<1>. QED
  BY <1>1, <1>2, OnlySessions, Returned
-----------------------------------------------------------------------------
(* Operations on accounts. *)

(* What a request at one of the operations, or with a row, knows. *)
LEMMA ServedJob ==
    ASSUME Sound, NEW p \in Procs, pc[p] \in Ops
    PROVE  Serving /\ job[p] \in Job /\ Asked(job[p]) /\ job[p].op = pc[p]
<1>1. pc[p] # "idle"
  BY DEF Ops
<1>2. JobOK(pc[p], job[p], chosen) /\ job[p] \in Job
  BY DEF Sound, Jobs, Types
<1>. QED
  BY <1>1, <1>2, BusyServes DEF JobOK

(* A request goes on with a row it made of the one it read. *)
LEMMA Goes ==
    ASSUME Sound, NEW p \in Procs, Serving, NEW u \in Users, NEW row \in Row,
           job[p] \in Job, job[p].op \in Settling \cup {"change"},
           NEW duty \in Managers \cup {"none"}, NEW ends \in BOOLEAN,
           NEW l \in {"guard", "write"},
           Goto(p, l, WithRow(job[p], u, row, duty, ends)), UNCHANGED unread,
           job[p].op # "change" /\ ~row.must => <<u, row.pw>> \in chosen,
           job[p].op = "change" => row.pw = job[p].pw /\ row.must = FALSE,
           job[p].op \in {"change", "reset"} => job[p].pw \in Passwords,
           job[p].op = "update" => job[p].role \in Roles
    PROVE  Sound'
<1>1. PICK k \in Job : /\ k = WithRow(job[p], u, row, duty, ends)
                       /\ k.user = u /\ k.row = row /\ k.op = job[p].op
                       /\ k.role = job[p].role /\ k.pw = job[p].pw
  <2>1. PICK j \in Job : j = job[p]
    OBVIOUS
  <2>. QED
    BY <2>1, WithRowType
<1>2. Prepared(k, chosen)
  BY <1>1 DEF Prepared
<1>3. JobOK(l, k, chosen) /\ l \in Labels
  BY <1>1, <1>2 DEF JobOK, Labels, Ops, Settling
<1>4. /\ UNCHANGED <<mode, clock, users, used, boot, chosen, decided>>
      /\ sessions' \in [Tokens -> Users \cup {NoUser}]
      /\ signedIn' \in Nat /\ requests' \in Nat
      /\ guesses' \in [Users -> Nat] /\ \A v \in Users \ used : guesses'[v] = 0
      /\ Goto(p, l, k)
  BY <1>1 DEF unread, ghosts, Sound, Types, Fresh
<1>. QED
  BY <1>3, <1>4, Moved

LEMMA ChangePasswordSound ==
    ASSUME Sound, NEW p \in Procs, ChangePassword(p)
    PROVE  Sound'
<1>. DEFINE j == job[p]  u == j.actor  row == SetPassword(users[u], j.pw, FALSE)
<1>1. Serving /\ j \in Job /\ Asked(j) /\ j.op = "change"
  BY ServedJob DEF ChangePassword, Ops
<1>2. CASE Refuse(p)
  BY <1>2, Refused
<1>3. CASE /\ Exists(u)
           /\ Goto(p, "write", WithRow(j, u, row, "none", TRUE)) /\ UNCHANGED unread
  <2>1. u \in Users /\ j.pw \in Passwords /\ clock \in Times
    BY <1>1 DEF Asked, Sound, Types
  <2>2. users[u] \in Row
    BY <1>3, <2>1, ExistingRow DEF Sound
  <2>3. row \in Row /\ row.pw = j.pw /\ row.must = FALSE
    BY <2>1, <2>2, SetPasswordType
  <2>. HIDE DEF row
  <2>4. PICK v \in Users : v = u
    BY <2>1
  <2>5. Goto(p, "write", WithRow(j, v, row, "none", TRUE))
    BY <1>3, <2>4
  <2>. QED
    BY <1>1, <1>3, <2>1, <2>3, <2>5, Goes
<1>. QED
  BY <1>2, <1>3 DEF ChangePassword

(* What Proceed needs of the row it is given. *)
LEMMA Proceeds ==
    ASSUME Sound, NEW p \in Procs, Serving, job[p] \in Job, Asked(job[p]),
           job[p].op \in Settling, Exists(job[p].user), NEW row \in Row,
           NEW guarded \in BOOLEAN, NEW ends \in BOOLEAN,
           Proceed(p, row, guarded, ends),
           ~row.must => ~users[job[p].user].must /\ row.pw = users[job[p].user].pw
    PROVE  Sound'
<1>1. PICK u \in Users : u = job[p].user
  BY DEF Asked, Settling, Ops
<1>2. users[u] \in Row
  BY <1>1, ExistingRow DEF Sound
<1>3. PICK duty \in Managers \cup {"none"} :
        /\ Goto(p, IF duty = "none" THEN "write" ELSE "guard",
                   WithRow(job[p], u, row, duty, ends))
        /\ UNCHANGED unread
  BY <1>1, <1>2 DEF Proceed
<1>4. PICK l \in {"guard", "write"} : l = IF duty = "none" THEN "write" ELSE "guard"
  OBVIOUS
<1>5. ~row.must => <<u, row.pw>> \in chosen
  BY <1>1 DEF Sound, TemporaryIsMarked
<1>6. /\ job[p].op # "change" /\ job[p].op \in Settling \cup {"change"}
      /\ job[p].op = "reset" => job[p].pw \in Passwords
      /\ job[p].op = "update" => job[p].role \in Roles
  BY DEF Asked, Settling, Ops
<1>7. Goto(p, l, WithRow(job[p], u, row, duty, ends))
  BY <1>3, <1>4
<1>. QED
  BY <1>3, <1>5, <1>6, <1>7, Goes

LEMMA UpdateUserSound ==
    ASSUME Sound, NEW p \in Procs, UpdateUser(p)
    PROVE  Sound'
<1>. DEFINE j == job[p]  old == users[j.user]
            row == [old EXCEPT !.role = j.role, !.expires = j.expires]
            changed == old.role # j.role
<1>1. Serving /\ j \in Job /\ Asked(j) /\ j.op = "update"
  BY ServedJob DEF UpdateUser, Ops
<1>2. CASE Refuse(p)
  BY <1>2, Refused
<1>3. CASE Exists(j.user) /\ Proceed(p, row, changed, changed)
  <2>1. old \in Row /\ j.role \in Roles /\ j.expires \in Nat
    BY <1>1, <1>3, ExistingRow DEF Asked, Job, Sound
  <2>2. row \in Row /\ row.must = old.must /\ row.pw = old.pw
    BY <2>1 DEF Row
  <2>3. changed \in BOOLEAN /\ j.op \in Settling
    BY <1>1 DEF Settling, Ops
  <2>. HIDE DEF row, changed
  <2>. QED
    BY <1>1, <1>3, <2>2, <2>3, Proceeds
<1>. QED
  BY <1>2, <1>3 DEF UpdateUser

LEMMA DisableSound ==
    ASSUME Sound, NEW p \in Procs, Disable(p)
    PROVE  Sound'
<1>. DEFINE j == job[p]  row == [users[j.user] EXCEPT !.status = "disabled"]
<1>1. Serving /\ j \in Job /\ Asked(j) /\ j.op = "disable" /\ j.op \in Settling
  BY ServedJob DEF Disable, Ops, Settling
<1>2. CASE Refuse(p)
  BY <1>2, Refused
<1>3. CASE Exists(j.user) /\ Proceed(p, row, TRUE, TRUE)
  <2>1. users[j.user] \in Row
    BY <1>1, <1>3, ExistingRow DEF Asked, Sound
  <2>2. row \in Row /\ row.must = users[j.user].must /\ row.pw = users[j.user].pw
    BY <2>1 DEF Row
  <2>. HIDE DEF row
  <2>. QED
    BY <1>1, <1>3, <2>2, Proceeds
<1>. QED
  BY <1>2, <1>3 DEF Disable

LEMMA EnableSound ==
    ASSUME Sound, NEW p \in Procs, Enable(p)
    PROVE  Sound'
<1>. DEFINE j == job[p]  row == [users[j.user] EXCEPT !.status = "active", !.seen = clock]
<1>1. Serving /\ j \in Job /\ Asked(j) /\ j.op = "enable" /\ j.op \in Settling
  BY ServedJob DEF Enable, Ops, Settling
<1>2. CASE Refuse(p)
  BY <1>2, Refused
<1>3. CASE Exists(j.user) /\ Proceed(p, row, FALSE, FALSE)
  <2>1. users[j.user] \in Row /\ clock \in Times
    BY <1>1, <1>3, ExistingRow DEF Asked, Sound, Types
  <2>2. row \in Row /\ row.must = users[j.user].must /\ row.pw = users[j.user].pw
    BY <2>1 DEF Row
  <2>. HIDE DEF row
  <2>. QED
    BY <1>1, <1>3, <2>2, Proceeds
<1>. QED
  BY <1>2, <1>3 DEF Enable

LEMMA UnlockSound ==
    ASSUME Sound, NEW p \in Procs, Unlock(p)
    PROVE  Sound'
<1>. DEFINE j == job[p]  row == Unlocked(users[j.user])
<1>1. Serving /\ j \in Job /\ Asked(j) /\ j.op = "unlock" /\ j.op \in Settling
  BY ServedJob DEF Unlock, Ops, Settling
<1>2. CASE Refuse(p)
  BY <1>2, Refused
<1>3. CASE Exists(j.user) /\ Proceed(p, row, FALSE, FALSE)
  <2>1. users[j.user] \in Row
    BY <1>1, <1>3, ExistingRow DEF Asked, Sound
  <2>2. row \in Row /\ row.must = users[j.user].must /\ row.pw = users[j.user].pw
    BY <2>1, Numbers DEF Row, Unlocked
  <2>. HIDE DEF row
  <2>. QED
    BY <1>1, <1>3, <2>2, Proceeds
<1>. QED
  BY <1>2, <1>3 DEF Unlock

LEMMA ResetPasswordSound ==
    ASSUME Sound, NEW p \in Procs, ResetPassword(p)
    PROVE  Sound'
<1>. DEFINE j == job[p]  row == SetPassword(users[j.user], j.pw, TRUE)
<1>1. Serving /\ j \in Job /\ Asked(j) /\ j.op = "reset" /\ j.op \in Settling
  BY ServedJob DEF ResetPassword, Ops, Settling
<1>2. CASE Refuse(p)
  BY <1>2, Refused
<1>3. CASE Exists(j.user) /\ Proceed(p, row, FALSE, TRUE)
  <2>1. users[j.user] \in Row /\ clock \in Times /\ j.pw \in Passwords
    BY <1>1, <1>3, ExistingRow DEF Asked, Sound, Types
  <2>2. row \in Row /\ row.must
    BY <2>1, SetPasswordType
  <2>. HIDE DEF row
  <2>. QED
    BY <1>1, <1>3, <2>2, Proceeds
<1>. QED
  BY <1>2, <1>3 DEF ResetPassword

LEMMA DeleteUserSound ==
    ASSUME Sound, NEW p \in Procs, DeleteUser(p)
    PROVE  Sound'
<1>. DEFINE j == job[p]  row == users[j.user]
<1>1. Serving /\ j \in Job /\ Asked(j) /\ j.op = "delete" /\ j.op \in Settling
  BY ServedJob DEF DeleteUser, Ops, Settling
<1>2. CASE Refuse(p)
  BY <1>2, Refused
<1>3. CASE Exists(j.user) /\ Proceed(p, row, TRUE, FALSE)
  <2>1. users[j.user] \in Row
    BY <1>1, <1>3, ExistingRow DEF Asked, Sound
  <2>2. row \in Row /\ row.must = users[j.user].must /\ row.pw = users[j.user].pw
    BY <2>1
  <2>. HIDE DEF row
  <2>. QED
    BY <1>1, <1>3, <2>2, Proceeds
<1>. QED
  BY <1>2, <1>3 DEF DeleteUser

LEMMA GuardLastManagerSound ==
    ASSUME Sound, NEW p \in Procs, GuardLastManager(p)
    PROVE  Sound'
<1>1. CASE Refuse(p)
  BY <1>1, Refused
<1>2. CASE Goto(p, "write", job[p]) /\ UNCHANGED unread
  <2>1. /\ Serving /\ JobOK("guard", job[p], chosen) /\ job[p] \in Job
    BY BusyServes DEF GuardLastManager, Sound, Jobs, Types
  <2>2. PICK j \in Job : j = job[p] /\ JobOK("write", j, chosen)
    BY <2>1 DEF JobOK, Ops
  <2>3. /\ UNCHANGED <<mode, clock, users, used, boot, chosen, decided>>
        /\ sessions' \in [Tokens -> Users \cup {NoUser}]
        /\ signedIn' \in Nat /\ requests' \in Nat
        /\ guesses' \in [Users -> Nat] /\ \A v \in Users \ used : guesses'[v] = 0
        /\ Goto(p, "write", j) /\ "write" \in Labels
    BY <1>2, <2>2 DEF unread, ghosts, Sound, Types, Fresh, Labels
  <2>. QED
    BY <2>1, <2>2, <2>3, Moved
<1>. QED
  BY <1>1, <1>2 DEF GuardLastManager

LEMMA SettledType ==
    ASSUME NEW row \in Row
    PROVE  Settled(row) \in Settlement
BY DEF Settled, Settlement, Row

LEMMA CreateUserSound ==
    ASSUME Sound, NEW p \in Procs, CreateUser(p)
    PROVE  Sound'
<1>. DEFINE j == job[p]  row == NewRow(j.role, j.pw)
<1>1. Serving /\ j \in Job /\ Asked(j) /\ j.op = "create"
  BY ServedJob DEF CreateUser, Ops
<1>2. CASE Refuse(p)
  BY <1>2, Refused
<1>3. CASE /\ j.user \notin used /\ Return(p) /\ StoreUpdateUser(j.user, row)
           /\ used' = used \cup {j.user}
           /\ decided' = [decided EXCEPT ![j.user] = Settled(row)]
           /\ UNCHANGED <<mode, clock, sessions, signedIn, boot, requests, chosen, guesses>>
  <2>1. PICK u \in Users : u = j.user
    BY <1>1 DEF Asked
  <2>2. row \in Row /\ row.must
    BY <1>1, NewRowType DEF Asked, Sound, Types
  <2>. HIDE DEF row
  <2>3. PICK new \in Row : new = row /\ new.must
    BY <2>2
  <2>4. /\ StoreUpdateUser(u, new) /\ used' = used \cup {u}
        /\ decided' \in [Users -> Settlement \cup {NoRow}]
        /\ decided'[u] # NoRow /\ \A w \in Users \ {u} : decided'[w] = decided[w]
    BY <1>3, <2>1, <2>3, SettledType, Blanks DEF Sound, Types
  <2>5. /\ Goto(p, "idle", NoJob) /\ JobOK("idle", NoJob, chosen') /\ NoJob \in Job
        /\ "idle" \in Labels
    BY <1>3, Idle
  <2>6. /\ chosen \subseteq chosen' /\ chosen' \in SUBSET (Users \X Passwords)
        /\ sessions' \in [Tokens -> Users \cup {NoUser}]
        /\ guesses' \in [Users -> Nat] /\ \A v \in Users \ used' : guesses'[v] = guesses[v]
        /\ UNCHANGED <<mode, clock, signedIn, boot, requests>>
    BY <1>3 DEF Sound, Types
  <2>. QED
    BY <1>1, <2>3, <2>4, <2>5, <2>6, Written
<1>. QED
  BY <1>2, <1>3 DEF CreateUser

LEMMA DecisionType ==
    ASSUME NEW old \in Settlement \cup {NoRow}, NEW j \in Job,
           old # NoRow,
           j.op \in {"change", "reset"} => j.pw \in Passwords,
           j.op = "update" => j.role \in Roles
    PROVE  Decision(old, j) \in Settlement
BY DEF Decision, Settlement

LEMMA WriteSound ==
    ASSUME Sound, NEW p \in Procs, Write(p)
    PROVE  Sound'
<1>1. CASE Refuse(p)
  BY <1>1, Refused
<1>2. ASSUME ~Refuse(p)
      PROVE  Sound'
  <2>. DEFINE u == job[p].user
  <2>1. /\ Serving /\ JobOK("write", job[p], chosen) /\ job[p] \in Job
    BY BusyServes DEF Write, Sound, Jobs, Types
  <2>2. PICK j \in Job : j = job[p]
    BY <2>1
  <2>3. PICK v \in Users, row \in Row : v = j.user /\ row = j.row
    BY <2>1, <2>2 DEF JobOK, Prepared
  <2>4. /\ Exists(v) /\ StoreUpdateUser(v, row)
        /\ decided' = [decided EXCEPT ![v] = Decision(@, j)]
        /\ chosen' = IF j.op = "change" THEN chosen \cup {<<v, j.pw>>} ELSE chosen
        /\ guesses' = IF j.op \in {"change", "reset", "unlock"}
                      THEN [guesses EXCEPT ![v] = 0] ELSE guesses
        /\ IF j.ends THEN Goto(p, "sign out", j) ELSE Return(p)
        /\ UNCHANGED <<mode, clock, used, sessions, signedIn, boot, requests>>
    BY <1>2, <2>2, <2>3 DEF Write, Found
  <2>5. /\ j.op \in {"change", "reset"} => j.pw \in Passwords
        /\ j.op = "update" => j.role \in Roles
        /\ Prepared(j, chosen)
        /\ j.op = "change" => j.row.pw = j.pw
    BY <2>1, <2>2 DEF JobOK
  <2>6. chosen \subseteq chosen' /\ chosen' \in SUBSET (Users \X Passwords)
    <3>1. CASE j.op = "change"
      <4>1. <<v, j.pw>> \in Users \X Passwords
        BY <2>5, <3>1
      <4>2. chosen' = chosen \cup {<<v, j.pw>>}
        BY <2>4, <3>1
      <4>. QED
        BY <4>1, <4>2 DEF Sound, Types
    <3>2. CASE j.op # "change"
      BY <2>4, <3>2 DEF Sound, Types
    <3>. QED
      BY <3>1, <3>2
  <2>7. ~row.must => <<v, row.pw>> \in chosen'
    BY <2>3, <2>4, <2>5 DEF Prepared
  <2>8. /\ decided' \in [Users -> Settlement \cup {NoRow}] /\ decided'[v] # NoRow
        /\ \A w \in Users \ {v} : decided'[w] = decided[w]
    <3>1. decided[v] \in Settlement /\ decided[v] # NoRow
      BY <2>4 DEF Sound, Types, Decided
    <3>2. PICK old \in Settlement : old = decided[v]
      BY <3>1
    <3>3. Decision(old, j) \in Settlement
      BY <2>5, Blanks, DecisionType
    <3>. QED
      BY <2>4, <3>2, <3>3, Blanks DEF Sound, Types
  <2>9. used' = used \cup {v}
    BY <2>4 DEF Sound, Fresh
  <2>10. guesses' \in [Users -> Nat] /\ \A w \in Users \ used' : guesses'[w] = guesses[w]
    BY <2>4, <2>9 DEF Sound, Types, Fresh
  <2>11. PICK l \in Labels, k \in Job : Goto(p, l, k) /\ JobOK(l, k, chosen')
    <3>1. CASE j.ends
      BY <2>3, <2>4, <3>1 DEF Labels, JobOK, Ops
    <3>2. CASE ~j.ends
      BY <2>4, <3>2, Idle
    <3>. QED
      BY <3>1, <3>2
  <2>12. /\ UNCHANGED <<mode, clock, signedIn, boot, requests>>
         /\ sessions' \in [Tokens -> Users \cup {NoUser}]
    BY <2>4 DEF Sound, Types
  <2>. QED
    BY <2>1, <2>4, <2>6, <2>7, <2>8, <2>9, <2>10, <2>11, <2>12, Written
<1>. QED
  BY <1>1, <1>2

LEMMA WriteDeletedSound ==
    ASSUME Sound, NEW p \in Procs, WriteDeleted(p)
    PROVE  Sound'
<1>1. CASE Refuse(p)
  BY <1>1, Refused
<1>2. ASSUME ~Refuse(p)
      PROVE  Sound'
  <2>1. /\ Serving /\ JobOK("write", job[p], chosen)
    BY BusyServes DEF WriteDeleted, Sound, Jobs
  <2>2. PICK v \in Users : v = job[p].user
    BY <2>1 DEF JobOK, Prepared
  <2>3. /\ Exists(v) /\ StoreUpdateUser(v, NoRow) /\ StoreDeleteUserSessions(v, None)
        /\ decided' = [decided EXCEPT ![v] = NoRow] /\ Return(p)
        /\ UNCHANGED <<mode, clock, used, signedIn, boot, requests, chosen, guesses>>
    BY <1>2, <2>2 DEF WriteDeleted
  <2>4. used' = used \cup {v}
    BY <2>3 DEF Sound, Fresh
  <2>5. /\ chosen \subseteq chosen' /\ chosen' \in SUBSET (Users \X Passwords)
        /\ sessions' \in [Tokens -> Users \cup {NoUser}]
        /\ decided' \in [Users -> Settlement \cup {NoRow}]
        /\ \A w \in Users \ {v} : decided'[w] = decided[w]
        /\ guesses' \in [Users -> Nat] /\ \A w \in Users \ used' : guesses'[w] = guesses[w]
        /\ UNCHANGED <<mode, clock, signedIn, boot, requests>>
    BY <2>3 DEF StoreDeleteUserSessions, Sound, Types
  <2>6. /\ Goto(p, "idle", NoJob) /\ JobOK("idle", NoJob, chosen') /\ NoJob \in Job
        /\ "idle" \in Labels
    BY <2>3, Idle
  <2>. QED
    BY <2>1, <2>3, <2>4, <2>5, <2>6, Written
<1>. QED
  BY <1>1, <1>2

-----------------------------------------------------------------------------
(* Bootstrap, the clock and the whole specification. *)

LEMMA TickSound ==
    ASSUME Sound, Tick
    PROVE  Sound'
<1>1. clock' \in Times
  BY Numbers DEF Tick, Times, Sound, Types
<1>. QED
  BY <1>1 DEF Tick, ghosts, Sound, Types, Fresh, Booting, Serving, TemporaryIsMarked, Jobs, Exists,
      Decided

LEMMA InitialType ==
    /\ Len(Initial) \in Nat
    /\ \A k \in 1 .. Len(Initial) :
         /\ Initial[k].id \in Users /\ Initial[k].role \in Roles
         /\ \A l \in 1 .. Len(Initial) : Initial[k].id = Initial[l].id => k = l
<1>. DEFINE S == [id : Users, role : Roles]
<1>1. /\ Initial \in Seq(S)
      /\ \A k, l \in DOMAIN Initial : Initial[k].id = Initial[l].id => k = l
  BY AccountsAssumption
<1>. HIDE DEF S
<1>2. Len(Initial) \in Nat /\ DOMAIN Initial = 1 .. Len(Initial)
  BY <1>1
<1>3. \A k \in 1 .. Len(Initial) : Initial[k] \in S
  BY <1>1
<1>. QED
  BY <1>1, <1>2, <1>3 DEF S

LEMMA BootstrapSound ==
    ASSUME Sound, Bootstrap
    PROVE  Sound'
<1>1. CASE UNCHANGED <<users, used, decided>> /\ boot' = IF boot = 0 THEN 0 ELSE -1
  <2>1. Types'
    BY <1>1, InitialType DEF Bootstrap, Sound, Types
  <2>2. Fresh' /\ TemporaryIsMarked' /\ Jobs' /\ Decided'
    BY <1>1 DEF Bootstrap, Sound, Fresh, TemporaryIsMarked, Jobs, Exists, Decided
  <2>3. Booting'
    <3>1. CASE boot = 0
      BY <3>1, <1>1 DEF Bootstrap, Sound, Booting, Serving, Exists
    <3>2. CASE boot # 0
      BY <3>2, <1>1 DEF Serving, Booting
    <3>. QED
      BY <3>1, <3>2
  <2>. QED
    BY <2>1, <2>2, <2>3 DEF Sound
<1>2. ASSUME NEW w \in Passwords,
             LET sd == Initial[boot + 1]
             IN  /\ StoreUpdateUser(sd.id, NewRow(sd.role, w))
                 /\ used' = used \cup {sd.id}
                 /\ decided' = [decided EXCEPT ![sd.id] = Settled(NewRow(sd.role, w))]
                 /\ boot' = boot + 1
      PROVE  Sound'
  <2>1. /\ boot \in Nat /\ boot + 1 \in 1 .. Len(Initial) /\ ~Serving
        /\ UNCHANGED <<mode, clock, sessions, signedIn, pc, job, requests, chosen, guesses>>
    BY InitialType DEF Bootstrap, Serving, Sound, Types
  <2>2. PICK u \in Users, r \in Roles : u = Initial[boot + 1].id /\ r = Initial[boot + 1].role
    BY <2>1, InitialType
  <2>3. PICK row \in Row : /\ row = NewRow(r, w) /\ row.must /\ row.role = r
                           /\ row.status = "active"
    <3>1. NewRow(r, w).role = r /\ NewRow(r, w).status = "active"
      BY DEF NewRow
    <3>. QED
      BY <3>1, NewRowType DEF Sound, Types
  <2>4. /\ users' \in [Users -> Row \cup {NoRow}] /\ users'[u] = row
        /\ \A v \in Users \ {u} : users'[v] = users[v]
        /\ used' = used \cup {u} /\ boot' = boot + 1
        /\ decided' \in [Users -> Settlement \cup {NoRow}]
        /\ decided'[u] # NoRow /\ \A v \in Users \ {u} : decided'[v] = decided[v]
    BY <1>2, <2>2, <2>3, SettledType, Blanks DEF StoreUpdateUser, Sound, Types
  <2>5. Types'
    BY <2>1, <2>4 DEF Sound, Types
  <2>6. Fresh'
    BY <2>1, <2>4 DEF Sound, Fresh, Exists
  <2>7. TemporaryIsMarked' /\ Decided'
    BY <2>1, <2>3, <2>4 DEF Sound, TemporaryIsMarked, Exists, Decided
  <2>8. Jobs'
    BY <2>1 DEF Sound, Jobs
  <2>9. Booting'
    <3>1. /\ used = {Initial[k].id : k \in 1 .. boot}
          /\ \A q \in Procs : pc[q] = "idle"
          /\ \A k \in 1 .. boot : LET v == Initial[k].id IN
               Exists(v) /\ users[v].role = Initial[k].role /\ users[v].status = "active"
      BY <2>1 DEF Sound, Booting
    <3>2. 1 .. boot + 1 = (1 .. boot) \cup {boot + 1}
      BY <2>1
    <3>3. used' = {Initial[k].id : k \in 1 .. boot + 1}
      BY <2>2, <2>4, <3>1, <3>2
    <3>4. ASSUME NEW k \in 1 .. boot + 1
          PROVE  LET v == Initial[k].id IN
                 /\ users'[v] # NoRow /\ users'[v].role = Initial[k].role
                 /\ users'[v].status = "active"
      <4>1. CASE k = boot + 1
        BY <4>1, <2>2, <2>3, <2>4, Blanks
      <4>2. CASE k \in 1 .. boot
        <5>1. Initial[k].id # u /\ Initial[k].id \in Users
          BY <4>2, <2>1, <2>2, InitialType
        <5>. QED
          BY <4>2, <5>1, <3>1, <2>4 DEF Exists
      <4>. QED
        BY <4>1, <4>2, <3>2
    <3>. QED
      BY <2>1, <2>4, <3>1, <3>3, <3>4 DEF Booting, Exists
  <2>. QED
    BY <2>5, <2>6, <2>7, <2>8, <2>9 DEF Sound
<1>. QED
  BY <1>1, <1>2 DEF Bootstrap

LEMMA InitSound == Init => Sound
<1>. SUFFICES ASSUME Init PROVE Sound
  OBVIOUS
<1>1. PICK i \in Installations :
        /\ users = i.users /\ signedIn = Len(i.signedIn)
        /\ sessions = [t \in Tokens |-> IF t <= signedIn THEN i.signedIn[t] ELSE NoUser]
  BY DEF Init
<1>2. /\ users \in [Users -> Row \cup {NoRow}] /\ i.signedIn \in Seq(Users)
      /\ mode \in Mode /\ MaxTokens \in Nat
  BY <1>1, AccountsAssumption DEF Init
<1>3. used \in SUBSET Users /\ \A u \in used : users[u] \in Row
  BY <1>2 DEF Init
<1>4. signedIn \in Nat /\ sessions \in [Tokens -> Users \cup {NoUser}]
  BY <1>1, <1>2 DEF Tokens
<1>5. decided \in [Users -> Settlement \cup {NoRow}]
  BY <1>3, SettledType DEF Init
<1>6. chosen \in SUBSET (Users \X Passwords)
  BY <1>3 DEF Init, Row
<1>7. boot \in -1 .. Len(Initial)
  BY InitialType DEF Init
<1>8. pc \in [Procs -> Labels] /\ job \in [Procs -> Job] /\ Jobs
  BY Idle DEF Init, Jobs
<1>9. clock \in Times /\ requests \in Nat /\ guesses \in [Users -> Nat]
  BY Numbers DEF Init, Times
<1>10. Types
  BY <1>2, <1>3, <1>4, <1>5, <1>6, <1>7, <1>8, <1>9 DEF Types
<1>11. Fresh /\ TemporaryIsMarked
  BY <1>2 DEF Init, Fresh, TemporaryIsMarked, Exists
<1>12. Booting
  BY InitialType DEF Init, Booting, Serving
<1>13. Decided
  BY <1>3, SettledType, Blanks DEF Init, Decided, Exists
<1>. QED
  BY <1>8, <1>10, <1>11, <1>12, <1>13 DEF Sound

LEMMA SoundStep == Sound /\ [Next]_vars => Sound'
<1>. SUFFICES ASSUME Sound, [Next]_vars PROVE Sound'
  OBVIOUS
<1>1. CASE UNCHANGED vars
  BY <1>1 DEF vars, Sound, Types, Fresh, Booting, Serving, TemporaryIsMarked, Jobs, Exists,
      Decided
<1>2. CASE Bootstrap \/ Tick
  BY <1>2, BootstrapSound, TickSound
<1>3. ASSUME NEW p \in Procs,
             \/ LoginRead(p) \/ LoginWrite(p) \/ LoginSession(p)
             \/ ReadSession(p) \/ Authenticate(p) \/ Logout(p)
             \/ ChangePassword(p) \/ CreateUser(p) \/ UpdateUser(p) \/ Disable(p) \/ Enable(p)
             \/ Unlock(p) \/ ResetPassword(p) \/ DeleteUser(p)
             \/ GuardLastManager(p) \/ Write(p) \/ WriteDeleted(p) \/ SignOut(p)
      PROVE  Sound'
  BY <1>3, LoginReadSound, LoginWriteSound, LoginSessionSound, ReadSessionSound,
     AuthenticateSound, LogoutSound, ChangePasswordSound, CreateUserSound, UpdateUserSound,
     DisableSound, EnableSound, UnlockSound, ResetPasswordSound, DeleteUserSound,
     GuardLastManagerSound, WriteSound, WriteDeletedSound, SignOutSound
<1>. QED
  BY <1>1, <1>2, <1>3 DEF Next

LEMMA SoundAlways == Spec => []Sound
BY InitSound, SoundStep, PTL DEF Spec

(* The account table, the sessions and the requests keep their types, *)
(* whatever requests overlap.                                         *)
THEOREM TypeCorrect == Spec => []TypeOK
<1>1. Sound => TypeOK
  BY DEF Sound, Types, TypeOK, Job
<1>. QED
  BY <1>1, SoundAlways, PTL

(* In every interleaving of logins, changes, resets and creations, an     *)
(* account whose password its owner did not choose is marked to change it *)
(* (SetPassword, CreateUser, Bootstrap and the whole-row writes).         *)
THEOREM TemporaryCorrect == Spec => []TemporaryIsMarked
BY SoundAlways, PTL DEF Sound

-----------------------------------------------------------------------------
(* Deleted accounts. *)

LEMMA DeletedStep ==
    ASSUME Sound, [Next]_vars, NEW u \in used, users[u] = NoRow
    PROVE  users'[u] = NoRow
<1>1. u \in Users /\ users \in [Users -> Row \cup {NoRow}]
  BY DEF Sound, Types
<1>2. CASE UNCHANGED users
  BY <1>2
<1>3. ASSUME NEW v \in Users, NEW row, v # u, StoreUpdateUser(v, row)
      PROVE  users'[u] = NoRow
  BY <1>1, <1>3 DEF StoreUpdateUser
<1>4. CASE Bootstrap
  <2>1. /\ boot \in Nat /\ boot + 1 \in 1 .. Len(Initial) /\ ~Serving
    BY <1>4, InitialType DEF Bootstrap, Serving, Sound, Types
  <2>2. PICK k \in 1 .. boot : u = Initial[k].id
    BY <2>1 DEF Sound, Booting
  <2>3. users[Initial[k].id] # NoRow
    BY <2>1, <2>2 DEF Sound, Booting, Exists
  <2>. QED
    BY <2>2, <2>3
<1>5. ASSUME NEW p \in Procs, LoginWrite(p), ~UNCHANGED users
      PROVE  users'[u] = NoRow
  <2>1. job[p].user \in Users
    BY <1>5 DEF LoginWrite, Sound, Jobs, JobOK, Prepared
  <2>2. Exists(job[p].user) /\ StoreUpdateUser(job[p].user, job[p].row)
    BY <1>5 DEF LoginWrite, Found
  <2>. QED
    BY <1>3, <2>1, <2>2 DEF Exists
<1>6. ASSUME NEW p \in Procs, Write(p) \/ WriteDeleted(p), ~UNCHANGED users
      PROVE  users'[u] = NoRow
  <2>1. job[p].user \in Users
    BY <1>6 DEF Write, WriteDeleted, Sound, Jobs, JobOK, Prepared
  <2>2. /\ Exists(job[p].user)
        /\ \E row : StoreUpdateUser(job[p].user, row)
    BY <1>6 DEF Write, WriteDeleted, Found, Refuse, unread
  <2>. QED
    BY <1>3, <2>1, <2>2 DEF Exists
<1>7. ASSUME NEW p \in Procs, CreateUser(p), ~UNCHANGED users
      PROVE  users'[u] = NoRow
  <2>1. job[p].user \in Users
    <3>1. Asked(job[p]) /\ job[p].op = "create"
      BY <1>7, ServedJob DEF CreateUser, Ops
    <3>. QED
      BY <3>1 DEF Asked
  <2>2. job[p].user \notin used /\ \E row : StoreUpdateUser(job[p].user, row)
    BY <1>7 DEF CreateUser, Refuse, unread
  <2>. QED
    BY <1>3, <2>1, <2>2
<1>8. ASSUME NEW p \in Procs,
             \/ LoginRead(p) \/ LoginSession(p) \/ ReadSession(p) \/ Authenticate(p)
             \/ Logout(p) \/ SignOut(p) \/ GuardLastManager(p) \/ ChangePassword(p)
      PROVE  UNCHANGED users
  BY <1>8 DEF LoginRead, LoginSession, ReadSession, Authenticate, Logout, SignOut,
     GuardLastManager, ChangePassword, Refuse, unread
<1>9. ASSUME NEW p \in Procs,
             \/ UpdateUser(p) \/ Disable(p) \/ Enable(p) \/ Unlock(p)
             \/ ResetPassword(p) \/ DeleteUser(p)
      PROVE  UNCHANGED users
  <2>1. Refuse(p) \/ \E row, g, e : Proceed(p, row, g, e)
    BY <1>9 DEF UpdateUser, Disable, Enable, Unlock, ResetPassword, DeleteUser
  <2>. QED
    BY <2>1 DEF Refuse, Proceed, unread
<1>10. CASE Tick \/ UNCHANGED vars
  BY <1>10 DEF Tick, vars
<1>. QED
  BY <1>2, <1>4, <1>5, <1>6, <1>7, <1>8, <1>9, <1>10 DEF Next

(* No step of any request brings a deleted account back: the store writes    *)
(* a row only where there is one, and an id is never given out twice (Found, *)
(* CreateUser, Bootstrap).                                                   *)
THEOREM DeletedStays == Spec => DeletedStaysDeleted
<1>1. Sound /\ [Next]_vars => [\A u \in used : users[u] = NoRow => users'[u] = NoRow]_vars
  BY DeletedStep
<1>. QED
  BY <1>1, SoundAlways, PTL DEF DeletedStaysDeleted, Spec

-----------------------------------------------------------------------------
(* While requests take turns, nothing changes the row between a request's  *)
(* read and its write.                                                     *)

Holds(row, r) == row # NoRow /\ row.role = r /\ row.status = "active"

InStep(l, j) ==
    LET u == j.user  old == users[u]  row == j.row
    IN  /\ l = "login" =>
             /\ Exists(u) /\ row.role = old.role /\ row.pw = old.pw
             /\ j.op # "disable" => row.status = old.status
             /\ j.op = "disable" => /\ row.status = "disabled" /\ mode.dormant
                                    /\ row.failed = old.failed
             /\ j.op = "refuse" => /\ row.failed \in {0, old.failed + 1}
                                   /\ ~mode.fails => guesses[u] <= old.failed + 1
        /\ l \in {"guard", "write"} =>
             /\ Exists(u)
             /\ row.role = Decision(old, j).role
             /\ row.status = Decision(old, j).status
             /\ row.pw = Decision(old, j).pw
             /\ j.op \in {"change", "reset", "unlock"} \/ row.failed = old.failed
        /\ l = "guard" => j.duty = old.role
        /\ l = "write" => \A r \in Managers : Holds(old, r) =>
             (j.op # "delete" /\ Holds(row, r)) \/ OtherManager(u, r)

InTurn ==
    mode.serial =>
        /\ \A p, q \in Procs : pc[p] # "idle" /\ pc[q] # "idle" => p = q
        /\ \A p \in Procs : InStep(pc[p], job[p])

(* A wrong password is counted in the row, or about to be. *)
Refusing(u) == \E p \in Procs : pc[p] = "login" /\ job[p].op = "refuse" /\ job[p].user = u

Counted ==
    mode.serial /\ ~mode.fails =>
        \A u \in Users :
            /\ ~Exists(u) => guesses[u] <= LockoutThreshold
            /\ Exists(u) /\ ~Refusing(u) => guesses[u] <= users[u].failed

Turns == Sound /\ InTurn /\ Counted /\ DecisionKept /\ DutyIsHeld

LEMMA OthersIdle ==
    ASSUME InTurn, mode.serial, NEW p \in Procs, pc[p] # "idle" \/ Begin(p),
           NEW q \in Procs, q # p
    PROVE  pc[q] = "idle"
BY DEF InTurn, Begin

LEMMA InTurnKept ==
    ASSUME Sound, InTurn, mode.serial, NEW p \in Procs, pc[p] # "idle" \/ Begin(p),
           NEW l \in Labels, NEW j \in Job, Goto(p, l, j), InStep(l, j)', mode' = mode
    PROVE  /\ InTurn'
           /\ \A u : Refusing(u)' => l = "login" /\ j.op = "refuse" /\ j.user = u
<1>1. /\ pc'[p] = l /\ job'[p] = j
      /\ \A q \in Procs \ {p} : pc'[q] = "idle"
  BY OthersIdle DEF Goto, Sound, Types
<1>2. ASSUME NEW q \in Procs \ {p}
      PROVE  InStep(pc[q], job[q])'
  BY <1>1, <1>2 DEF InStep
<1>3. ASSUME NEW q \in Procs
      PROVE  InStep(pc[q], job[q])'
  <2>1. CASE q = p
    <3>1. pc[q]' = l /\ job[q]' = j
      BY <1>1, <2>1
    <3>. QED
      BY <3>1
  <2>. QED
    BY <2>1, <1>2
<1>4. \A a, b \in Procs : pc'[a] # "idle" /\ pc'[b] # "idle" => a = b
  BY <1>1
<1>5. InTurn'
  BY <1>3, <1>4 DEF InTurn
<1>. QED
  BY <1>1, <1>5 DEF Refusing

(* A step that leaves the rows and the count of guesses alone. *)
LEMMA Quiet ==
    ASSUME Turns, Sound', mode.serial, NEW p \in Procs, pc[p] # "idle" \/ Begin(p),
           pc[p] # "login" \/ mode.fails,
           NEW l \in Labels, NEW j \in Job, Goto(p, l, j), InStep(l, j), l # "login",
           UNCHANGED <<mode, users, boot, decided, guesses>>
    PROVE  Turns'
<1>1. InStep(l, j)'
  BY DEF InStep, Exists, OtherManager, Holds
<1>2. InTurn' /\ \A u : ~Refusing(u)'
  BY <1>1, InTurnKept DEF Turns
<1>3. DecisionKept' /\ DutyIsHeld'
  BY DEF Turns, DecisionKept, DutyIsHeld, Exists
<1>4. Counted'
  <2>1. ASSUME NEW u \in Users, Refusing(u), ~mode.fails
        PROVE  FALSE
    BY <2>1, OthersIdle DEF Turns, Refusing
  <2>. QED
    BY <1>2, <2>1 DEF Turns, Counted, Exists
<1>. QED
  BY <1>2, <1>3, <1>4 DEF Turns

LEMMA QuietReturn ==
    ASSUME Turns, Sound', mode.serial, NEW p \in Procs, pc[p] # "idle" \/ Begin(p),
           pc[p] # "login" \/ mode.fails, Return(p),
           UNCHANGED <<mode, users, boot, decided, guesses>>
    PROVE  Turns'
<1>1. InStep("idle", NoJob)
  BY DEF InStep
<1>. QED
  BY <1>1, Idle, Quiet

LEMMA QuietRefuse ==
    ASSUME Turns, Sound', mode.serial, NEW p \in Procs, pc[p] \notin {"idle", "login"}, Refuse(p)
    PROVE  Turns'
BY QuietReturn DEF Refuse, unread, ghosts

(* A step that writes account u. *)
LEMMA Wrote ==
    ASSUME Turns, Sound', mode.serial, NEW p \in Procs, pc[p] # "idle",
           NEW l \in Labels, NEW j \in Job, Goto(p, l, j), l \in {"idle", "session", "sign out"},
           NEW u \in Users, NEW row \in Row \cup {NoRow}, StoreUpdateUser(u, row),
           UNCHANGED <<mode, boot>>,
           \A r \in Managers : ~mode.dormant /\ Holds(users[u], r) =>
               Holds(row, r) \/ OtherManager(u, r),
           \A v \in Users \ {u} : decided'[v] = decided[v] /\ guesses'[v] = guesses[v],
           row # NoRow =>
               /\ row.role = decided'[u].role /\ row.pw = decided'[u].pw
               /\ row.status = "active" => decided'[u].status = "active"
               /\ ~mode.fails => guesses'[u] <= row.failed,
           row = NoRow /\ ~mode.fails => guesses'[u] <= LockoutThreshold,
           ~mode.fails => \A v \in Users \ {u} : ~Refusing(v)
    PROVE  Turns'
<1>1. /\ users'[u] = row /\ \A v \in Users \ {u} : users'[v] = users[v]
  BY DEF StoreUpdateUser, Turns, Sound, Types
<1>2. InStep(l, j)'
  BY DEF InStep
<1>3. InTurn' /\ \A v : ~Refusing(v)'
  BY <1>2, InTurnKept DEF Turns
<1>4. DecisionKept'
  <2>1. decided'[u] # NoRow \/ row = NoRow
    BY <1>1 DEF Sound, Decided, Exists
  <2>. QED
    BY <1>1, <2>1 DEF Turns, DecisionKept, Exists
<1>5. Counted'
  BY <1>1, <1>3 DEF Turns, Counted, Exists
<1>6. DutyIsHeld'
  <2>. SUFFICES ASSUME ~mode.dormant, boot = Len(Initial), NEW r \in Managers
                PROVE  \E v \in Users : Holds(users'[v], r)
    BY DEF DutyIsHeld, Exists, Holds
  <2>1. PICK v \in Users : Holds(users[v], r)
    BY DEF Turns, DutyIsHeld, Exists, Holds
  <2>2. CASE v # u
    BY <2>1, <2>2, <1>1
  <2>3. CASE v = u
    <3>1. Holds(row, r) \/ OtherManager(u, r)
      BY <2>1, <2>3
    <3>2. CASE Holds(row, r)
      BY <3>2, <1>1
    <3>3. CASE OtherManager(u, r)
      BY <3>3, <1>1 DEF OtherManager, Holds, Exists
    <3>. QED
      BY <3>1, <3>2, <3>3
  <2>. QED
    BY <2>2, <2>3
<1>. QED
  BY <1>3, <1>4, <1>5, <1>6 DEF Turns

LEMMA LoginReadTurn ==
    ASSUME Turns, Sound', mode.serial, NEW p \in Procs, LoginRead(p)
    PROVE  Turns'
<1>1. PICK u \in Users, w \in Passwords, op \in {"disable", "refuse", "enter"} :
        LET next == IF op = "disable" THEN [users[u] EXCEPT !.status = "disabled"]
                    ELSE IF op = "refuse" THEN CountFailure(users[u]) ELSE Enter(users[u])
        IN  /\ Begin(p) /\ Exists(u) /\ (op = "disable" => mode.dormant)
            /\ Goto(p, "login", Entering(op, u, next))
            /\ guesses' = IF op = "refuse" THEN [guesses EXCEPT ![u] = @ + 1] ELSE guesses
            /\ UNCHANGED <<mode, clock, users, used, sessions, signedIn, boot, chosen, decided>>
  BY DEF LoginRead, IsDormant
<1>. DEFINE next == IF op = "disable" THEN [users[u] EXCEPT !.status = "disabled"]
                    ELSE IF op = "refuse" THEN CountFailure(users[u]) ELSE Enter(users[u])
            old == users[u]
<1>2. old \in Row /\ clock \in Times
  BY <1>1, ExistingRow DEF Turns, Sound, Types
<1>3. /\ next \in Row /\ next.role = old.role /\ next.pw = old.pw
      /\ op # "disable" => next.status = old.status
      /\ op = "disable" => next.status = "disabled" /\ next.failed = old.failed
      /\ op = "refuse" => next.failed \in {0, old.failed + 1}
  <2>1. CASE op = "disable"
    BY <2>1, <1>2 DEF Row
  <2>2. CASE op = "refuse"
    <3>1. CountFailure(old).failed \in {0, old.failed + 1}
      BY <1>2 DEF CountFailure, Row
    <3>. QED
      BY <2>2, <3>1, <1>2, CountFailureType
  <2>3. CASE op = "enter"
    BY <2>3, <1>2, EnterType
  <2>. QED
    BY <2>1, <2>2, <2>3
<1>. HIDE DEF next
<1>4. PICK j \in Job : j = Entering(op, u, next) /\ j.op = op /\ j.user = u /\ j.row = next
  BY <1>3, EnteringType
<1>5. /\ guesses' \in [Users -> Nat]
      /\ \A v \in Users \ {u} : guesses'[v] = guesses[v]
      /\ op = "refuse" => guesses'[u] = guesses[u] + 1
      /\ op # "refuse" => guesses'[u] = guesses[u]
      /\ UNCHANGED <<mode, users, boot, decided>> /\ Goto(p, "login", j)
  BY <1>1, <1>4 DEF next, Turns, Sound, Types
<1>6. \A v \in Users : ~Refusing(v)
  <2>1. \A q \in Procs : pc[q] = "idle"
    BY <1>1, OthersIdle DEF Begin, Turns
  <2>. QED
    BY <2>1 DEF Refusing
<1>7. ~mode.fails => guesses[u] <= old.failed
  BY <1>1, <1>6 DEF Turns, Counted
<1>8. InStep("login", j)'
  <2>1. op = "refuse" /\ ~mode.fails => guesses'[u] <= old.failed + 1
    BY <1>2, <1>5, <1>7 DEF Row, Turns, Sound, Types
  <2>. QED
    BY <1>1, <1>3, <1>4, <1>5, <2>1 DEF InStep, Exists
<1>9. InTurn' /\ \A v : Refusing(v)' => op = "refuse" /\ v = u
  <2>1. "login" \in Labels /\ Sound /\ InTurn /\ Begin(p)
    BY <1>1 DEF Labels, Turns
  <2>2. InTurn' /\ \A v : Refusing(v)' => "login" = "login" /\ j.op = "refuse" /\ j.user = v
    BY <1>5, <1>8, <2>1, InTurnKept
  <2>. QED
    BY <1>4, <2>2
<1>10. Refusing(u)' \/ op # "refuse"
  BY <1>4, <1>5 DEF Refusing, Goto, Turns, Sound, Types
<1>11. DecisionKept' /\ DutyIsHeld'
  BY <1>5 DEF Turns, DecisionKept, DutyIsHeld, Exists
<1>12. Counted'
  BY <1>1, <1>5, <1>6, <1>9, <1>10 DEF Turns, Counted, Exists
<1>. QED
  BY <1>9, <1>11, <1>12 DEF Turns

LEMMA LoginWriteTurn ==
    ASSUME Turns, Sound', mode.serial, NEW p \in Procs, LoginWrite(p)
    PROVE  Turns'
<1>1. /\ pc[p] = "login" /\ InStep("login", job[p]) /\ JobOK("login", job[p], chosen)
      /\ job[p] \in Job
  BY DEF LoginWrite, Turns, InTurn, Sound, Jobs, Types
<1>2. PICK j \in Job, u \in Users, row \in Row :
        j = job[p] /\ u = j.user /\ row = j.row /\ j.op \in {"enter", "refuse", "disable"}
  BY <1>1 DEF JobOK, Prepared
<1>3. CASE Return(p) /\ UNCHANGED <<users, guesses>> /\ (~Found(u) \/ mode.fails)
  <2>1. mode.fails
    BY <1>1, <1>2, <1>3 DEF Found, InStep
  <2>2. UNCHANGED <<mode, users, boot, decided, guesses>>
    BY <1>3 DEF LoginWrite
  <2>. QED
    BY <1>1, <1>3, <2>1, <2>2, QuietReturn
<1>4. CASE /\ StoreUpdateUser(u, row)
           /\ IF j.op = "enter" THEN Goto(p, "session", j) ELSE Return(p)
           /\ guesses' = IF j.op = "enter" \/ row.failed = 0
                         THEN [guesses EXCEPT ![u] = 0] ELSE guesses
  <2>1. PICK l \in {"idle", "session"}, k \in Job : Goto(p, l, k) /\ l \in Labels
    <3>1. {"idle", "session"} \subseteq Labels
      BY DEF Labels
    <3>2. CASE j.op = "enter"
      BY <1>4, <3>1, <3>2
    <3>3. CASE j.op # "enter"
      BY <1>4, <3>1, <3>3, Idle
    <3>. QED
      BY <3>2, <3>3
  <2>2. users[u] \in Row /\ Exists(u)
    BY <1>1, <1>2, ExistingRow DEF InStep, Turns, Sound
  <2>3. UNCHANGED <<mode, boot, decided>>
    BY DEF LoginWrite
  <2>4. \A r \in Managers : ~mode.dormant /\ Holds(users[u], r) => Holds(row, r)
    BY <1>1, <1>2, Blanks DEF InStep, Holds
  <2>5. /\ row.role = decided[u].role /\ row.pw = decided[u].pw
        /\ row.status = "active" => decided[u].status = "active"
    BY <1>1, <1>2, <2>2 DEF InStep, Turns, DecisionKept
  <2>6. /\ guesses' \in [Users -> Nat] /\ \A v \in Users \ {u} : guesses'[v] = guesses[v]
        /\ guesses'[u] = IF j.op = "enter" \/ row.failed = 0 THEN 0 ELSE guesses[u]
    BY <1>4 DEF Turns, Sound, Types
  <2>7. ~mode.fails => guesses'[u] <= row.failed
    <3>. SUFFICES ASSUME ~mode.fails PROVE guesses'[u] <= row.failed
      OBVIOUS
    <3>1. row.failed \in Nat
      BY Numbers DEF Row
    <3>2. CASE j.op = "refuse"
      BY <3>1, <3>2, <2>6, <1>1, <1>2 DEF InStep
    <3>3. CASE j.op = "enter"
      BY <3>1, <3>3, <2>6
    <3>4. CASE j.op = "disable"
      <4>1. ~Refusing(u)
        BY <1>1, <1>2, <3>4, OthersIdle DEF Refusing, Turns
      <4>2. guesses[u] <= users[u].failed /\ row.failed = users[u].failed
        BY <4>1, <2>2, <3>4, <1>1, <1>2 DEF Turns, Counted, InStep
      <4>. QED
        BY <3>1, <4>2, <2>6
    <3>. QED
      BY <1>2, <3>2, <3>3, <3>4
  <2>8. ~mode.fails => \A v \in Users \ {u} : ~Refusing(v)
    BY <1>1, <1>2, OthersIdle DEF Refusing, Turns
  <2>. QED
    BY <1>1, <1>4, <2>1, <2>3, <2>4, <2>5, <2>6, <2>7, <2>8, Blanks, Wrote
<1>. QED
  BY <1>2, <1>3, <1>4 DEF LoginWrite

(* Steps that touch no account. *)
LEMMA SessionsTurn ==
    ASSUME Turns, Sound', mode.serial, NEW p \in Procs,
           \/ LoginSession(p) \/ ReadSession(p) \/ Authenticate(p)
           \/ Logout(p) \/ SignOut(p)
    PROVE  Turns'
<1>1. UNCHANGED <<mode, users, boot, decided, guesses>>
  BY DEF LoginSession, ReadSession, Authenticate, Logout, SignOut, ghosts
<1>2. pc[p] # "login" /\ (pc[p] # "idle" \/ Begin(p))
  BY DEF LoginSession, ReadSession, Authenticate, Logout, SignOut, Begin
<1>3. CASE Return(p)
  BY <1>1, <1>2, <1>3, QuietReturn
<1>4. CASE \E l, j : Goto(p, l, j) /\ l \in {"read"} \cup Ops
  <2>1. PICK l, j : Goto(p, l, j) /\ l \in {"read"} \cup Ops
    BY <1>4
  <2>2. l \in Labels /\ l \notin {"login", "guard", "write"}
    BY <2>1 DEF Labels, Ops
  <2>3. j \in Job
    BY <2>1 DEF Goto, Sound, Types
  <2>4. InStep(l, j)
    BY <2>2 DEF InStep
  <2>. QED
    BY <1>1, <1>2, <2>1, <2>2, <2>3, <2>4, Quiet
<1>5. Return(p) \/ \E l, j : Goto(p, l, j) /\ l \in {"read"} \cup Ops
  <2>1. CASE ReadSession(p)
    BY <2>1 DEF ReadSession
  <2>2. CASE Authenticate(p)
    <3>1. job[p].op \in Ops
      BY <2>2 DEF Authenticate, Turns, Sound, Jobs, JobOK, Asked
    <3>. QED
      BY <2>2, <3>1 DEF Authenticate
  <2>. QED
    BY <2>1, <2>2 DEF LoginSession, Logout, SignOut
<1>. QED
  BY <1>3, <1>4, <1>5

(* A change goes on with the row it made: the decision is in it, and a duty *)
(* the change takes away is guarded.                                        *)
LEMMA GoesTurn ==
    ASSUME Turns, Sound', mode.serial, NEW p \in Procs, pc[p] \notin {"idle", "login"},
           job[p] \in Job, NEW u \in Users, NEW row \in Row, Exists(u),
           NEW duty \in Managers \cup {"none"}, NEW ends \in BOOLEAN,
           NEW l \in {"guard", "write"},
           Goto(p, l, WithRow(job[p], u, row, duty, ends)), UNCHANGED unread,
           row.role = Decision(users[u], job[p]).role,
           row.status = Decision(users[u], job[p]).status,
           row.pw = Decision(users[u], job[p]).pw,
           job[p].op \in {"change", "reset", "unlock"} \/ row.failed = users[u].failed,
           l = "guard" => duty = users[u].role,
           l = "write" => \A r \in Managers : Holds(users[u], r) =>
               job[p].op # "delete" /\ Holds(row, r)
    PROVE  Turns'
<1>1. PICK k \in Job : /\ k = WithRow(job[p], u, row, duty, ends)
                       /\ k.user = u /\ k.row = row /\ k.duty = duty /\ k.op = job[p].op
                       /\ k.role = job[p].role /\ k.pw = job[p].pw
  <2>1. PICK j \in Job : j = job[p]
    OBVIOUS
  <2>. DEFINE k == WithRow(j, u, row, duty, ends)
  <2>2. /\ k \in Job /\ k.user = u /\ k.row = row /\ k.duty = duty
        /\ k.op = j.op /\ k.role = j.role /\ k.pw = j.pw
    BY WithRowType
  <2>. HIDE DEF k
  <2>3. k = WithRow(job[p], u, row, duty, ends)
    BY <2>1 DEF k
  <2>. QED
    BY <2>1, <2>2, <2>3
<1>2. Decision(users[u], k) = Decision(users[u], job[p])
  BY <1>1 DEF Decision
<1>3. InStep(l, k)
  BY <1>1, <1>2 DEF InStep
<1>4. UNCHANGED <<mode, users, boot, decided, guesses>> /\ l \in Labels /\ l # "login"
  BY DEF unread, ghosts, Labels
<1>. QED
  BY <1>1, <1>3, <1>4, Quiet

LEMMA ProceedsTurn ==
    ASSUME Turns, Sound', mode.serial, NEW p \in Procs, pc[p] \in Settling,
           job[p] \in Job, job[p].op \in Settling,
           job[p].user \in Users, Exists(job[p].user), NEW row \in Row,
           NEW guarded \in BOOLEAN, NEW ends \in BOOLEAN,
           Proceed(p, row, guarded, ends),
           row.role = Decision(users[job[p].user], job[p]).role,
           row.status = Decision(users[job[p].user], job[p]).status,
           row.pw = Decision(users[job[p].user], job[p]).pw,
           job[p].op \in {"reset", "unlock"} \/ row.failed = users[job[p].user].failed,
           ~guarded => \A r \in Managers : Holds(users[job[p].user], r) =>
               job[p].op # "delete" /\ Holds(row, r)
    PROVE  Turns'
<1>1. PICK u \in Users : u = job[p].user
  OBVIOUS
<1>2. users[u] \in Row
  BY <1>1, ExistingRow DEF Turns, Sound
<1>. DEFINE old == users[u]
            d == IF guarded /\ old.status = "active" /\ old.role \in Managers
                 THEN old.role ELSE "none"
<1>3. PICK duty \in Managers \cup {"none"}, l \in {"guard", "write"} :
        /\ duty = d /\ l = IF duty = "none" THEN "write" ELSE "guard"
        /\ Goto(p, l, WithRow(job[p], u, row, duty, ends)) /\ UNCHANGED unread
  BY <1>1, <1>2 DEF Proceed
<1>4. l = "guard" => duty = old.role
  BY <1>3
<1>5. l = "write" => \A r \in Managers : Holds(old, r) => job[p].op # "delete" /\ Holds(row, r)
  <2>1. "none" \notin Managers
    BY DEF Managers
  <2>. QED
    BY <1>1, <1>3, <2>1 DEF Holds
<1>6. pc[p] \notin {"idle", "login"}
  BY DEF Settling, Ops
<1>7. job[p].op \in {"change", "reset", "unlock"} \/ row.failed = old.failed
  BY <1>1
<1>. HIDE DEF d
<1>. QED
  BY <1>1, <1>3, <1>4, <1>5, <1>6, <1>7, GoesTurn

LEMMA UpdateUserTurn ==
    ASSUME Turns, Sound', mode.serial, NEW p \in Procs, UpdateUser(p)
    PROVE  Turns'
<1>. DEFINE j == job[p]  old == users[j.user]  row == [old EXCEPT !.role = j.role, !.expires = j.expires]
<1>1. pc[p] = "update" /\ Sound
  BY DEF UpdateUser, Turns
<1>2. Serving /\ j \in Job /\ Asked(j) /\ j.op = "update" /\ j.op \in Settling
  BY <1>1, ServedJob DEF Ops, Settling
<1>3. CASE Refuse(p)
  BY <1>1, <1>3, QuietRefuse
<1>4. CASE Exists(j.user) /\ Proceed(p, row, old.role # j.role, old.role # j.role)
  <2>1. old \in Row /\ j.user \in Users
    BY <1>1, <1>2, <1>4, ExistingRow DEF Asked, Sound
  <2>2. row \in Row /\ row.role = j.role /\ row.status = old.status /\ row.pw = old.pw
        /\ row.failed = old.failed
    BY <1>2, <2>1 DEF Asked, Job, Row
  <2>3. /\ row.role = Decision(old, j).role /\ row.status = Decision(old, j).status
        /\ row.pw = Decision(old, j).pw
        /\ old.role = j.role => \A r \in Managers : Holds(old, r) => Holds(row, r)
    BY <1>2, <2>2, Blanks DEF Decision, Holds
  <2>. HIDE DEF row
  <2>. QED
    BY <1>1, <1>2, <1>4, <2>1, <2>2, <2>3, ProceedsTurn
<1>. QED
  BY <1>3, <1>4 DEF UpdateUser

LEMMA DisableTurn ==
    ASSUME Turns, Sound', mode.serial, NEW p \in Procs, Disable(p)
    PROVE  Turns'
<1>. DEFINE j == job[p]  old == users[j.user]  row == [old EXCEPT !.status = "disabled"]
<1>1. pc[p] = "disable" /\ Sound
  BY DEF Disable, Turns
<1>2. Serving /\ j \in Job /\ Asked(j) /\ j.op = "disable" /\ j.op \in Settling
  BY <1>1, ServedJob DEF Ops, Settling
<1>3. CASE Refuse(p)
  BY <1>1, <1>3, QuietRefuse
<1>4. CASE Exists(j.user) /\ Proceed(p, row, TRUE, TRUE)
  <2>1. old \in Row /\ j.user \in Users
    BY <1>1, <1>2, <1>4, ExistingRow DEF Asked, Sound
  <2>2. row \in Row /\ row.role = old.role /\ row.status = "disabled" /\ row.pw = old.pw
        /\ row.failed = old.failed
    BY <2>1 DEF Row
  <2>3. /\ row.role = Decision(old, j).role /\ row.status = Decision(old, j).status
        /\ row.pw = Decision(old, j).pw
    BY <1>2, <2>2 DEF Decision
  <2>. HIDE DEF row
  <2>. QED
    BY <1>1, <1>2, <1>4, <2>1, <2>2, <2>3, ProceedsTurn
<1>. QED
  BY <1>3, <1>4 DEF Disable

LEMMA EnableTurn ==
    ASSUME Turns, Sound', mode.serial, NEW p \in Procs, Enable(p)
    PROVE  Turns'
<1>. DEFINE j == job[p]  old == users[j.user]  row == [old EXCEPT !.status = "active", !.seen = clock]
<1>1. pc[p] = "enable" /\ Sound
  BY DEF Enable, Turns
<1>2. Serving /\ j \in Job /\ Asked(j) /\ j.op = "enable" /\ j.op \in Settling
  BY <1>1, ServedJob DEF Ops, Settling
<1>3. CASE Refuse(p)
  BY <1>1, <1>3, QuietRefuse
<1>4. CASE Exists(j.user) /\ Proceed(p, row, FALSE, FALSE)
  <2>1. old \in Row /\ j.user \in Users
    BY <1>1, <1>2, <1>4, ExistingRow DEF Asked, Sound
  <2>2. row \in Row /\ row.role = old.role /\ row.status = "active" /\ row.pw = old.pw
        /\ row.failed = old.failed
    BY <1>1, <2>1 DEF Row, Sound, Types
  <2>3. /\ row.role = Decision(old, j).role /\ row.status = Decision(old, j).status
        /\ row.pw = Decision(old, j).pw
        /\ \A r \in Managers : Holds(old, r) => j.op # "delete" /\ Holds(row, r)
    BY <1>2, <2>2, Blanks DEF Decision, Holds
  <2>. HIDE DEF row
  <2>. QED
    BY <1>1, <1>2, <1>4, <2>1, <2>2, <2>3, ProceedsTurn
<1>. QED
  BY <1>3, <1>4 DEF Enable

LEMMA UnlockTurn ==
    ASSUME Turns, Sound', mode.serial, NEW p \in Procs, Unlock(p)
    PROVE  Turns'
<1>. DEFINE j == job[p]  old == users[j.user]  row == Unlocked(old)
<1>1. pc[p] = "unlock" /\ Sound
  BY DEF Unlock, Turns
<1>2. Serving /\ j \in Job /\ Asked(j) /\ j.op = "unlock" /\ j.op \in Settling
  BY <1>1, ServedJob DEF Ops, Settling
<1>3. CASE Refuse(p)
  BY <1>1, <1>3, QuietRefuse
<1>4. CASE Exists(j.user) /\ Proceed(p, row, FALSE, FALSE)
  <2>1. old \in Row /\ j.user \in Users
    BY <1>1, <1>2, <1>4, ExistingRow DEF Asked, Sound
  <2>2. row \in Row /\ row.role = old.role /\ row.status = old.status /\ row.pw = old.pw
    BY <2>1, Numbers DEF Row, Unlocked
  <2>3. /\ row.role = Decision(old, j).role /\ row.status = Decision(old, j).status
        /\ row.pw = Decision(old, j).pw
        /\ \A r \in Managers : Holds(old, r) => j.op # "delete" /\ Holds(row, r)
    BY <1>2, <2>2, Blanks DEF Decision, Holds
  <2>. HIDE DEF row
  <2>. QED
    BY <1>1, <1>2, <1>4, <2>1, <2>2, <2>3, ProceedsTurn
<1>. QED
  BY <1>3, <1>4 DEF Unlock

LEMMA ResetPasswordTurn ==
    ASSUME Turns, Sound', mode.serial, NEW p \in Procs, ResetPassword(p)
    PROVE  Turns'
<1>. DEFINE j == job[p]  old == users[j.user]  row == SetPassword(old, j.pw, TRUE)
<1>1. pc[p] = "reset" /\ Sound
  BY DEF ResetPassword, Turns
<1>2. Serving /\ j \in Job /\ Asked(j) /\ j.op = "reset" /\ j.op \in Settling
  BY <1>1, ServedJob DEF Ops, Settling
<1>3. CASE Refuse(p)
  BY <1>1, <1>3, QuietRefuse
<1>4. CASE Exists(j.user) /\ Proceed(p, row, FALSE, TRUE)
  <2>1. old \in Row /\ j.user \in Users
    BY <1>1, <1>2, <1>4, ExistingRow DEF Asked, Sound
  <2>2. row \in Row /\ row.role = old.role /\ row.status = old.status /\ row.pw = j.pw
    BY <1>1, <1>2, <2>1, SetPasswordType DEF Asked, Sound, Types
  <2>3. /\ row.role = Decision(old, j).role /\ row.status = Decision(old, j).status
        /\ row.pw = Decision(old, j).pw
        /\ \A r \in Managers : Holds(old, r) => j.op # "delete" /\ Holds(row, r)
    BY <1>2, <2>2, Blanks DEF Decision, Holds
  <2>. HIDE DEF row
  <2>. QED
    BY <1>1, <1>2, <1>4, <2>1, <2>2, <2>3, ProceedsTurn
<1>. QED
  BY <1>3, <1>4 DEF ResetPassword

LEMMA DeleteUserTurn ==
    ASSUME Turns, Sound', mode.serial, NEW p \in Procs, DeleteUser(p)
    PROVE  Turns'
<1>. DEFINE j == job[p]  old == users[j.user]  row == old
<1>1. pc[p] = "delete" /\ Sound
  BY DEF DeleteUser, Turns
<1>2. Serving /\ j \in Job /\ Asked(j) /\ j.op = "delete" /\ j.op \in Settling
  BY <1>1, ServedJob DEF Ops, Settling
<1>3. CASE Refuse(p)
  BY <1>1, <1>3, QuietRefuse
<1>4. CASE Exists(j.user) /\ Proceed(p, row, TRUE, FALSE)
  <2>1. old \in Row /\ j.user \in Users
    BY <1>1, <1>2, <1>4, ExistingRow DEF Asked, Sound
  <2>2. row \in Row /\ row.failed = old.failed
    BY <2>1
  <2>3. /\ row.role = Decision(old, j).role /\ row.status = Decision(old, j).status
        /\ row.pw = Decision(old, j).pw
    BY <1>2 DEF Decision
  <2>. HIDE DEF row
  <2>. QED
    BY <1>1, <1>2, <1>4, <2>1, <2>2, <2>3, ProceedsTurn
<1>. QED
  BY <1>3, <1>4 DEF DeleteUser

LEMMA ChangePasswordTurn ==
    ASSUME Turns, Sound', mode.serial, NEW p \in Procs, ChangePassword(p)
    PROVE  Turns'
<1>. DEFINE j == job[p]  row == SetPassword(users[j.actor], j.pw, FALSE)
<1>1. pc[p] = "change" /\ Sound
  BY DEF ChangePassword, Turns
<1>2. j \in Job /\ Asked(j) /\ j.op = "change"
  BY <1>1, ServedJob DEF Ops
<1>3. CASE Refuse(p)
  BY <1>1, <1>3, QuietRefuse
<1>4. CASE /\ Exists(j.actor)
           /\ Goto(p, "write", WithRow(j, j.actor, row, "none", TRUE)) /\ UNCHANGED unread
  <2>1. PICK u \in Users : u = j.actor
    BY <1>2 DEF Asked
  <2>2. users[u] \in Row
    BY <1>1, <1>4, <2>1, ExistingRow DEF Sound
  <2>3. /\ row \in Row /\ row.role = users[u].role /\ row.status = users[u].status
        /\ row.pw = j.pw
    BY <1>1, <1>2, <2>1, <2>2, SetPasswordType DEF Asked, Sound, Types
  <2>4. /\ row.role = Decision(users[u], j).role /\ row.status = Decision(users[u], j).status
        /\ row.pw = Decision(users[u], j).pw
        /\ \A r \in Managers : Holds(users[u], r) => j.op # "delete" /\ Holds(row, r)
    BY <1>2, <2>3, Blanks DEF Decision, Holds
  <2>5. Exists(u) /\ Goto(p, "write", WithRow(j, u, row, "none", TRUE)) /\ UNCHANGED unread
    BY <1>4, <2>1
  <2>. HIDE DEF row
  <2>. QED
    BY <1>1, <1>2, <2>3, <2>4, <2>5, GoesTurn
<1>. QED
  BY <1>3, <1>4 DEF ChangePassword

LEMMA GuardLastManagerTurn ==
    ASSUME Turns, Sound', mode.serial, NEW p \in Procs, GuardLastManager(p)
    PROVE  Turns'
<1>1. pc[p] = "guard" /\ InStep("guard", job[p]) /\ job[p] \in Job
  BY DEF GuardLastManager, Turns, InTurn, Sound, Types
<1>2. CASE Refuse(p)
  BY <1>1, <1>2, QuietRefuse
<1>3. CASE /\ OtherManager(job[p].user, job[p].duty)
           /\ Goto(p, "write", job[p]) /\ UNCHANGED unread
  <2>1. InStep("write", job[p])
    BY <1>1, <1>3 DEF InStep, Holds
  <2>2. UNCHANGED <<mode, users, boot, decided, guesses>> /\ "write" \in Labels
    BY <1>3 DEF unread, ghosts, Labels
  <2>. QED
    BY <1>1, <1>3, <2>1, <2>2, Quiet
<1>. QED
  BY <1>2, <1>3 DEF GuardLastManager

LEMMA CreateUserTurn ==
    ASSUME Turns, Sound', mode.serial, NEW p \in Procs, CreateUser(p)
    PROVE  Turns'
<1>. DEFINE j == job[p]  row == NewRow(j.role, j.pw)
<1>1. pc[p] = "create" /\ Sound
  BY DEF CreateUser, Turns
<1>2. j \in Job /\ Asked(j) /\ j.op = "create"
  BY <1>1, ServedJob DEF Ops
<1>3. CASE Refuse(p)
  BY <1>1, <1>3, QuietRefuse
<1>4. CASE /\ j.user \notin used /\ Return(p) /\ StoreUpdateUser(j.user, row)
           /\ decided' = [decided EXCEPT ![j.user] = Settled(row)]
           /\ UNCHANGED <<mode, boot, guesses>>
  <2>1. PICK u \in Users : u = j.user
    BY <1>2 DEF Asked
  <2>2. users[u] = NoRow /\ guesses[u] = 0
    BY <1>1, <1>4, <2>1 DEF Sound, Fresh, Exists
  <2>3. row \in Row
    BY <1>1, <1>2, NewRowType DEF Asked, Sound, Types
  <2>. HIDE DEF row
  <2>4. PICK new \in Row : new = row
    BY <2>3
  <2>5. /\ StoreUpdateUser(u, new) /\ decided'[u] = Settled(new)
        /\ \A v \in Users \ {u} : decided'[v] = decided[v] /\ guesses'[v] = guesses[v]
        /\ guesses'[u] = 0 /\ new.failed \in Nat
    BY <1>1, <1>4, <2>1, <2>2, <2>4, Numbers DEF Sound, Types, Row
  <2>6. /\ new.role = decided'[u].role /\ new.pw = decided'[u].pw
        /\ new.status = decided'[u].status
    BY <2>5 DEF Settled
  <2>7. /\ \A r \in Managers : ~Holds(users[u], r)
        /\ \A v \in Users \ {u} : ~Refusing(v)
    BY <1>1, <2>2, OthersIdle DEF Holds, Refusing, Turns
  <2>8. Goto(p, "idle", NoJob) /\ NoJob \in Job /\ "idle" \in Labels /\ pc[p] # "idle"
    BY <1>1, <1>4, Idle
  <2>9. ~mode.fails => guesses'[u] <= new.failed
    BY <2>5
  <2>. QED
    BY <1>4, <2>5, <2>6, <2>7, <2>8, <2>9, Blanks, Wrote
<1>. QED
  BY <1>3, <1>4 DEF CreateUser

LEMMA WriteTurn ==
    ASSUME Turns, Sound', mode.serial, NEW p \in Procs, Write(p)
    PROVE  Turns'
<1>1. /\ pc[p] = "write" /\ InStep("write", job[p]) /\ JobOK("write", job[p], chosen)
      /\ job[p] \in Job /\ job[p].op # "delete" /\ Sound
  BY DEF Write, Turns, InTurn, Sound, Jobs, Types
<1>2. CASE Refuse(p)
  BY <1>1, <1>2, QuietRefuse
<1>3. ASSUME ~Refuse(p)
      PROVE  Turns'
  <2>1. PICK j \in Job, u \in Users, row \in Row : j = job[p] /\ u = j.user /\ row = j.row
    BY <1>1 DEF JobOK, Prepared
  <2>2. /\ StoreUpdateUser(u, row)
        /\ decided' = [decided EXCEPT ![u] = Decision(@, j)]
        /\ guesses' = IF j.op \in {"change", "reset", "unlock"}
                      THEN [guesses EXCEPT ![u] = 0] ELSE guesses
        /\ IF j.ends THEN Goto(p, "sign out", j) ELSE Return(p)
        /\ UNCHANGED <<mode, boot>>
    BY <1>3, <2>1 DEF Write
  <2>3. /\ users[u] \in Row /\ Exists(u) /\ row.failed \in Nat
        /\ guesses \in [Users -> Nat] /\ decided \in [Users -> Settlement \cup {NoRow}]
    <3>1. Exists(u)
      BY <1>1, <2>1 DEF InStep
    <3>2. users[u] \in Row
      BY <1>1, <3>1, ExistingRow DEF Sound
    <3>3. row.failed \in Nat
      BY Numbers DEF Row
    <3>. QED
      BY <1>1, <3>1, <3>2, <3>3 DEF Sound, Types
  <2>5. /\ row.role = Decision(users[u], j).role /\ row.status = Decision(users[u], j).status
        /\ row.pw = Decision(users[u], j).pw
        /\ j.op \in {"change", "reset", "unlock"} \/ row.failed = users[u].failed
        /\ \A r \in Managers : Holds(users[u], r) => Holds(row, r) \/ OtherManager(u, r)
    BY <1>1, <2>1 DEF InStep
  <2>6. /\ users[u].role = decided[u].role /\ users[u].pw = decided[u].pw
        /\ users[u].status = "active" => decided[u].status = "active"
    BY <2>3 DEF Turns, DecisionKept
  <2>7. /\ decided'[u] = Decision(decided[u], j)
        /\ \A v \in Users \ {u} : decided'[v] = decided[v]
    BY <2>2, <2>3
  <2>8. /\ row.role = decided'[u].role /\ row.pw = decided'[u].pw
        /\ row.status = "active" => decided'[u].status = "active"
    <3>. DEFINE old == users[u]  was == decided[u]
    <3>1. /\ Decision(old, j).role = Decision(was, j).role
          /\ Decision(old, j).pw = Decision(was, j).pw
      BY <2>6 DEF Decision
    <3>2. /\ Decision(old, j).status = IF j.op = "enable" THEN "active"
                                       ELSE IF j.op = "disable" THEN "disabled" ELSE old.status
          /\ Decision(was, j).status = IF j.op = "enable" THEN "active"
                                       ELSE IF j.op = "disable" THEN "disabled" ELSE was.status
      BY DEF Decision
    <3>3. row.status = "active" => Decision(was, j).status = "active"
      BY <2>5, <2>6, <3>2
    <3>. QED
      BY <2>5, <2>7, <3>1, <3>3
  <2>9. /\ \A v \in Users \ {u} : guesses'[v] = guesses[v]
        /\ guesses'[u] = IF j.op \in {"change", "reset", "unlock"} THEN 0 ELSE guesses[u]
    BY <2>2, <2>3
  <2>10. \A v \in Users : ~Refusing(v)
    BY <1>1, OthersIdle DEF Refusing, Turns
  <2>11. ~mode.fails => guesses'[u] <= row.failed
    <3>1. CASE j.op \in {"change", "reset", "unlock"}
      <4>1. guesses'[u] = 0
        BY <2>9, <3>1
      <4>2. row.failed \in Nat
        BY <2>3
      <4>. QED
        BY <4>1, <4>2
    <3>2. CASE j.op \notin {"change", "reset", "unlock"}
      <4>1. ~mode.fails => guesses[u] <= users[u].failed
        BY <2>3, <2>10 DEF Turns, Counted
      <4>2. row.failed = users[u].failed
        BY <2>5, <3>2
      <4>3. guesses'[u] = guesses[u]
        BY <2>9, <3>2
      <4>. QED
        BY <4>1, <4>2, <4>3
    <3>. QED
      BY <3>1, <3>2
  <2>12. PICK l \in {"idle", "sign out"}, k \in Job : Goto(p, l, k) /\ l \in Labels
    <3>1. {"idle", "sign out"} \subseteq Labels
      BY DEF Labels
    <3>2. CASE j.ends
      BY <2>2, <3>1, <3>2
    <3>3. CASE ~j.ends
      BY <2>2, <3>1, <3>3, Idle
    <3>. QED
      BY <3>2, <3>3
  <2>. QED
    BY <1>1, <2>2, <2>5, <2>7, <2>8, <2>9, <2>10, <2>11, <2>12, Blanks, Wrote
<1>. QED
  BY <1>2, <1>3

LEMMA WriteDeletedTurn ==
    ASSUME Turns, Sound', mode.serial, NEW p \in Procs, WriteDeleted(p)
    PROVE  Turns'
<1>1. /\ pc[p] = "write" /\ InStep("write", job[p]) /\ JobOK("write", job[p], chosen)
      /\ job[p].op = "delete" /\ Sound
  BY DEF WriteDeleted, Turns, InTurn, Sound, Jobs
<1>2. CASE Refuse(p)
  BY <1>1, <1>2, QuietRefuse
<1>3. ASSUME ~Refuse(p)
      PROVE  Turns'
  <2>1. PICK u \in Users : u = job[p].user
    BY <1>1 DEF JobOK, Prepared
  <2>2. /\ StoreUpdateUser(u, NoRow) /\ decided' = [decided EXCEPT ![u] = NoRow] /\ Return(p)
        /\ UNCHANGED <<mode, boot, guesses>>
    BY <1>3, <2>1 DEF WriteDeleted
  <2>3. users[u] \in Row /\ Exists(u)
    BY <1>1, <2>1, ExistingRow DEF InStep, Sound
  <2>4. \A v \in Users : ~Refusing(v)
    BY <1>1, OthersIdle DEF Refusing, Turns
  <2>5. ~mode.fails => guesses'[u] <= LockoutThreshold
    BY <1>1, <2>2, <2>3, <2>4, Numbers DEF Turns, Counted, Row, Sound, Types
  <2>6. \A r \in Managers : Holds(users[u], r) => OtherManager(u, r)
    BY <1>1, <2>1 DEF InStep
  <2>7. Goto(p, "idle", NoJob) /\ NoJob \in Job /\ "idle" \in Labels /\ pc[p] # "idle"
    BY <1>1, <2>2, Idle
  <2>8. \A v \in Users \ {u} : decided'[v] = decided[v] /\ guesses'[v] = guesses[v]
    BY <1>1, <2>2 DEF Sound, Types
  <2>. QED
    BY <2>2, <2>4, <2>5, <2>6, <2>7, <2>8, Wrote
<1>. QED
  BY <1>2, <1>3

(* The accounts Bootstrap made, as soon as it has made the last. *)
LEMMA BootstrapTurn ==
    ASSUME Turns, Sound', mode.serial, Bootstrap
    PROVE  Turns'
<1>1. /\ boot \in Nat /\ boot + 1 \in 1 .. Len(Initial) /\ ~Serving /\ boot # Len(Initial)
      /\ UNCHANGED <<mode, pc, job, guesses>> /\ Len(Initial) \in Nat
  BY InitialType DEF Bootstrap, Serving, Turns, Sound, Types
<1>2. \A p \in Procs : pc[p] = "idle"
  BY <1>1 DEF Turns, Sound, Booting
<1>3. InTurn' /\ \A u : ~Refusing(u) /\ ~Refusing(u)'
  BY <1>1, <1>2 DEF InTurn, InStep, Refusing
<1>4. CASE UNCHANGED <<users, used, decided>> /\ boot' = IF boot = 0 THEN 0 ELSE -1
  BY <1>1, <1>3, <1>4 DEF Turns, Counted, DecisionKept, DutyIsHeld, Exists
<1>5. ASSUME NEW w \in Passwords,
             LET sd == Initial[boot + 1]
             IN  /\ StoreUpdateUser(sd.id, NewRow(sd.role, w))
                 /\ decided' = [decided EXCEPT ![sd.id] = Settled(NewRow(sd.role, w))]
                 /\ boot' = boot + 1
      PROVE  Turns'
  <2>1. PICK u \in Users, r \in Roles : u = Initial[boot + 1].id /\ r = Initial[boot + 1].role
    BY <1>1, InitialType
  <2>2. PICK row \in Row : /\ row = NewRow(r, w) /\ row.role = r /\ row.status = "active"
                           /\ row.failed = 0
    <3>1. /\ NewRow(r, w).role = r /\ NewRow(r, w).status = "active"
          /\ NewRow(r, w).failed = 0
      BY DEF NewRow
    <3>. QED
      BY <3>1, NewRowType DEF Turns, Sound, Types
  <2>3. /\ users'[u] = row /\ \A v \in Users \ {u} : users'[v] = users[v]
        /\ decided'[u] = Settled(row)
        /\ \A v \in Users \ {u} : decided'[v] = decided[v]
    BY <1>5, <2>1, <2>2 DEF StoreUpdateUser, Turns, Sound, Types
  <2>4. guesses[u] = 0
    <3>1. u \notin used
      BY <1>1, <2>1, InitialType DEF Turns, Sound, Booting
    <3>. QED
      BY <3>1 DEF Turns, Sound, Fresh
  <2>5. Counted'
    BY <1>1, <1>3, <2>2, <2>3, <2>4, Blanks DEF Turns, Counted, Exists
  <2>6. DecisionKept'
    <3>1. /\ row.role = Settled(row).role /\ row.pw = Settled(row).pw
          /\ row.status = Settled(row).status /\ Settled(row) # NoRow
      BY SettledType, Blanks DEF Settled
    <3>. QED
      BY <2>3, <3>1 DEF Turns, DecisionKept, Exists
  <2>7. DutyIsHeld'
    <3>. SUFFICES ASSUME boot + 1 = Len(Initial), NEW d \in Managers
                  PROVE  \E v \in Users : users'[v] # NoRow /\ users'[v].role = d
                                        /\ users'[v].status = "active"
      BY <1>5 DEF DutyIsHeld, Exists
    <3>1. PICK k \in 1 .. Len(Initial) : Initial[k].role = d
      <4>1. PICK k \in DOMAIN Initial : Initial[k].role = d
        BY AccountsAssumption
      <4>2. DOMAIN Initial = 1 .. Len(Initial)
        BY InitialType
      <4>. QED
        BY <4>1, <4>2
    <3>2. CASE k = boot + 1
      BY <2>1, <2>2, <2>3, <3>1, <3>2, Blanks
    <3>3. CASE k \in 1 .. boot
      <4>1. Initial[k].id # u /\ Initial[k].id \in Users
        BY <3>3, <1>1, <2>1, InitialType
      <4>2. /\ users[Initial[k].id] # NoRow /\ users[Initial[k].id].role = d
            /\ users[Initial[k].id].status = "active"
        BY <1>1, <3>1, <3>3 DEF Turns, Sound, Booting, Exists
      <4>. QED
        BY <4>1, <4>2, <2>3
    <3>. QED
      BY <1>1, <3>2, <3>3
  <2>. QED
    BY <1>3, <2>5, <2>6, <2>7 DEF Turns
<1>. QED
  BY <1>4, <1>5 DEF Bootstrap

LEMMA InitTurn == Init => Turns
<1>. SUFFICES ASSUME Init PROVE Turns
  OBVIOUS
<1>1. Sound
  BY InitSound
<1>2. InTurn /\ \A u : ~Refusing(u)
  BY DEF Init, InTurn, InStep, Refusing
<1>3. Counted
  <2>1. \A u \in Users : Exists(u) => users[u].failed \in Nat
    BY <1>1, ExistingRow, Numbers DEF Sound, Row
  <2>. QED
    BY <2>1, Numbers DEF Init, Counted
<1>4. DecisionKept
  <2>. SUFFICES ASSUME NEW u \in Users, Exists(u)
                PROVE  /\ decided[u] # NoRow
                       /\ users[u].role = decided[u].role /\ users[u].pw = decided[u].pw
                       /\ users[u].status = "active" => decided[u].status = "active"
    BY DEF DecisionKept
  <2>1. users[u] \in Row /\ decided[u] = Settled(users[u])
    BY <1>1, ExistingRow DEF Init, Exists, Sound
  <2>2. Settled(users[u]) # NoRow
    BY <2>1, SettledType, Blanks
  <2>. QED
    BY <2>1, <2>2 DEF Settled
<1>5. DutyIsHeld
  <2>. SUFFICES ASSUME boot = Len(Initial), NEW r \in Managers
                PROVE  \E u \in Users : Exists(u) /\ users[u].role = r /\ users[u].status = "active"
    BY DEF DutyIsHeld
  <2>1. Len(Initial) # 0
    <3>1. DOMAIN Initial # {}
      BY AccountsAssumption
    <3>2. DOMAIN Initial = 1 .. Len(Initial)
      BY InitialType
    <3>. QED
      BY <3>1, <3>2
  <2>2. PICK i \in Installations : users = i.users
    BY DEF Init
  <2>3. ~ \A u \in Users : i.users[u] = NoRow
    BY <2>1, <2>2 DEF Init
  <2>4. PICK u \in Users : i.users[u].status = "active" /\ i.users[u].role = r
    BY <2>3, AccountsAssumption
  <2>. QED
    BY <2>2, <2>4 DEF Exists, NoRow
<1>. QED
  BY <1>1, <1>2, <1>3, <1>4, <1>5 DEF Turns

LEMMA SerialStays ==
    ASSUME Sound, [Next]_vars
    PROVE  mode' = mode
<1>1. ASSUME NEW p \in Procs, \/ LoginRead(p) \/ LoginWrite(p) \/ LoginSession(p)
                              \/ ReadSession(p) \/ Authenticate(p) \/ Logout(p) \/ SignOut(p)
      PROVE  mode' = mode
  BY <1>1 DEF LoginRead, LoginWrite, LoginSession, ReadSession, Authenticate, Logout, SignOut
<1>2. ASSUME NEW p \in Procs, \/ ChangePassword(p) \/ CreateUser(p) \/ GuardLastManager(p)
                              \/ Write(p) \/ WriteDeleted(p)
      PROVE  mode' = mode
  BY <1>2 DEF ChangePassword, CreateUser, GuardLastManager, Write, WriteDeleted, Refuse, unread
<1>3. ASSUME NEW p \in Procs, \/ UpdateUser(p) \/ Disable(p) \/ Enable(p)
                              \/ Unlock(p) \/ ResetPassword(p) \/ DeleteUser(p)
      PROVE  mode' = mode
  BY <1>3 DEF UpdateUser, Disable, Enable, Unlock, ResetPassword, DeleteUser, Proceed, Refuse, unread
<1>. QED
  BY <1>1, <1>2, <1>3 DEF Next, Bootstrap, Tick, vars

LEMMA TurnsStep == Turns /\ [Next]_vars => Turns'
<1>. SUFFICES ASSUME Turns, [Next]_vars PROVE Turns'
  OBVIOUS
<1>1. Sound /\ Sound' /\ mode' = mode
  BY SoundStep, SerialStays DEF Turns
<1>2. CASE ~mode.serial
  BY <1>1, <1>2 DEF Turns, InTurn, Counted, DecisionKept, DutyIsHeld
<1>3. CASE mode.serial /\ (Tick \/ UNCHANGED vars)
  <2>1. UNCHANGED <<mode, users, boot, pc, job, guesses, decided>>
    BY <1>3 DEF Tick, vars, ghosts
  <2>2. InTurn' /\ \A u : Refusing(u)' = Refusing(u)
    BY <2>1 DEF Turns, InTurn, InStep, Refusing, Exists, OtherManager, Holds
  <2>. QED
    BY <1>1, <2>1, <2>2 DEF Turns, Counted, DecisionKept, DutyIsHeld, Exists
<1>4. CASE mode.serial /\ Bootstrap
  BY <1>1, <1>4, BootstrapTurn
<1>5. ASSUME mode.serial, NEW p \in Procs,
             \/ LoginRead(p) \/ LoginWrite(p) \/ LoginSession(p)
             \/ ReadSession(p) \/ Authenticate(p) \/ Logout(p)
             \/ ChangePassword(p) \/ CreateUser(p) \/ UpdateUser(p) \/ Disable(p) \/ Enable(p)
             \/ Unlock(p) \/ ResetPassword(p) \/ DeleteUser(p)
             \/ GuardLastManager(p) \/ Write(p) \/ WriteDeleted(p) \/ SignOut(p)
      PROVE  Turns'
  BY <1>1, <1>5, LoginReadTurn, LoginWriteTurn, SessionsTurn, ChangePasswordTurn,
     CreateUserTurn, UpdateUserTurn, DisableTurn, EnableTurn, UnlockTurn, ResetPasswordTurn,
     DeleteUserTurn, GuardLastManagerTurn, WriteTurn, WriteDeletedTurn
<1>. QED
  BY <1>2, <1>3, <1>4, <1>5 DEF Next

LEMMA TurnsAlways == Spec => []Turns
BY InitTurn, TurnsStep, PTL DEF Spec

(* While requests take turns and nobody is disabled for inactivity, no      *)
(* sequence of disabling, deleting and changing roles, whatever is refused  *)
(* or fails in it, leaves the system or the audit duty without an enabled   *)
(* account (guardLastManager).                                              *)
THEOREM DutyCorrect == Spec => []DutyIsHeld
BY TurnsAlways, PTL DEF Turns

(* While requests take turns, the whole rows that logins and other changes *)
(* write carry what administrators last settled for the account.           *)
THEOREM DecisionCorrect == Spec => []DecisionKept
BY TurnsAlways, PTL DEF Turns

(* While requests take turns and the store takes the writes, an account is *)
(* locked before logins tried more wrong passwords than the policy allows. *)
(* It says nothing of old passwords given to ChangePassword.               *)
THEOREM GuessesCorrect == Spec => []LoginGuessesAreBounded
<1>1. Turns => LoginGuessesAreBounded
  <2>. SUFFICES ASSUME Turns, mode.serial, ~mode.fails, NEW u \in Users
                PROVE  guesses[u] <= LockoutThreshold
    BY DEF LoginGuessesAreBounded
  <2>1. guesses[u] \in Nat /\ Sound
    BY DEF Turns, Sound, Types
  <2>2. CASE ~Exists(u)
    BY <2>2 DEF Turns, Counted
  <2>3. CASE Exists(u) /\ ~Refusing(u)
    <3>1. users[u].failed \in 0 .. LockoutThreshold - 1 /\ guesses[u] <= users[u].failed
      BY <2>1, <2>3, ExistingRow DEF Turns, Counted, Sound, Row
    <3>. QED
      BY <2>1, <3>1, Numbers
  <2>4. CASE Exists(u) /\ Refusing(u)
    <3>1. users[u].failed \in 0 .. LockoutThreshold - 1
      BY <2>1, <2>4, ExistingRow DEF Sound, Row
    <3>2. guesses[u] <= users[u].failed + 1
      BY <2>4 DEF Refusing, Turns, InTurn, InStep
    <3>. QED
      BY <2>1, <3>1, <3>2, Numbers
  <2>. QED
    BY <2>2, <2>3, <2>4
<1>. QED
  BY <1>1, TurnsAlways, PTL

=============================================================================
