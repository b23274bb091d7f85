------------------------------ MODULE DenyList ------------------------------
(***************************************************************************)
(* The connectors that keep a whole list of blocked addresses in the       *)
(* system they drive (platform/internal/soar/{kong,apisix,nginx}.go).      *)
(*                                                                         *)
(* Block and Unblock read the list, return if there is nothing to change,  *)
(* and write all of it back: Kong to a plugin it creates for the first     *)
(* address and deletes after the last, APISIX to a rule, nginx to an       *)
(* include file that a reload then puts in force.  nginx's reload command  *)
(* is optional: without one the file is all that changes, and it comes     *)
(* into force when somebody else reloads nginx.  A mutex serialises the    *)
(* calls of one platform process (a replica); nothing serialises replicas. *)
(***************************************************************************)
EXTENDS Integers, FiniteSets

CONSTANTS
    Kinds,         \* connectors to consider, some of "kong", "apisix", "nginx"
    Callers, Home, \* calling goroutines, and the replica each runs in
    IPs,           \* the addresses that are listed
    Cut,           \* kinds whose calls may be cut short: the answer of a write
                   \* or reload lost to the timeout, or the platform stopped
    RestoreFails,  \* TRUE: the nginx file may not be restorable
    ListCalls      \* bound on the calls made

NoPlugin == 0

ASSUME DenyListAssumption ==
    /\ Kinds \subseteq {"kong", "apisix", "nginx"} /\ Cut \subseteq Kinds
    /\ RestoreFails \in BOOLEAN /\ ListCalls \in Nat

VARIABLES
    kind,      \* the connector this is
    reloads,   \* nginx has a reload command
    listed,    \* the list: in the gateway, or in nginx's include file
    plugin,    \* Kong's plugin: the number of the call that created it
    enforced,  \* the addresses really denied
    call,      \* each caller's call, and how it ended
    step,      \* how far the call got
    seen, seenPlugin,  \* the list and the plugin it read
    made       \* number of calls made

listVars == <<kind, reloads, listed, plugin, enforced, call, step, seen, seenPlugin, made>>

(* What a connector answers for: what is denied, or only the file if it    *)
(* has no reload command.                                                  *)
InCharge == IF kind = "nginx" /\ ~reloads THEN listed ELSE enforced

(* What callers are promised. *)
C == INSTANCE Connector WITH Addrs <- IPs, enforced <- InCharge

-----------------------------------------------------------------------------
(* Mutant of Free: the mutex is missing. *)
FreeAlways(t) == TRUE

(* The mutex of t's replica is free. *)
Free(t) == \A u \in Callers : Home[u] = Home[t] => step[u] \notin {"write", "reload"}

(* The list t writes. *)
Wanted(t) == C!Effect(call[t], seen[t])

(* Kong: the write creates the plugin, deletes it, or changes its list.    *)
PluginFor(t) ==
    IF kind # "kong" \/ Wanted(t) = {} THEN NoPlugin
    ELSE IF seenPlugin[t] = NoPlugin THEN made ELSE seenPlugin[t]

(* The gateway takes the write: a plugin can be created only once (its     *)
(* instance name is fixed), and changed only while it exists.              *)
Accepted(t) == kind = "kong" => seenPlugin[t] = plugin
Gone(t) == Wanted(t) = {} /\ ~Accepted(t)

(* Mutant of Restored: a failed reload leaves the new file. *)
NotRestored(t) == {listed}

(* The file after a failed reload.  The restore's own error is ignored. *)
Restored(t) == {seen[t]} \cup (IF RestoreFails THEN {listed} ELSE {})

-----------------------------------------------------------------------------
ListInit ==
    /\ kind \in Kinds /\ reloads \in BOOLEAN
    /\ listed = {} /\ plugin = NoPlugin /\ enforced = {} /\ made = 0
    /\ call = [t \in Callers |-> C!NoCall]
    /\ step = [t \in Callers |-> "idle"]
    /\ seen = [t \in Callers |-> {}]
    /\ seenPlugin = [t \in Callers |-> NoPlugin]

StepTo(t, l) == step' = [step EXCEPT ![t] = l]

Finish(t, st) == StepTo(t, "idle") /\ C!Answer(t, st)

Begin(t) ==
    /\ step[t] = "idle" /\ made < ListCalls
    /\ StepTo(t, "want")
    /\ made' = made + 1
    /\ UNCHANGED <<kind, reloads, listed, plugin, enforced, seen, seenPlugin>>
    /\ C!Begin(t)

(* Take the mutex and read the list; done if the address is there (gone)   *)
(* already or the list cannot be read.                                     *)
Read(t) ==
    /\ step[t] = "want" /\ Free(t)
    /\ \/ Finish(t, "failed") /\ UNCHANGED <<seen, seenPlugin>>
       \/ /\ C!Effect(call[t], listed) = listed
          /\ Finish(t, "ok")
          /\ UNCHANGED <<seen, seenPlugin>>
       \/ /\ C!Effect(call[t], listed) # listed
          /\ seen' = [seen EXCEPT ![t] = listed]
          /\ seenPlugin' = [seenPlugin EXCEPT ![t] = plugin]
          /\ StepTo(t, "write") /\ UNCHANGED call
    /\ UNCHANGED <<kind, reloads, listed, plugin, enforced, made>>

(* Kong and APISIX: the write puts the list in force. *)
Write(t) ==
    /\ step[t] = "write" /\ kind # "nginx"
    /\ Accepted(t)
    /\ listed' = Wanted(t) /\ enforced' = Wanted(t)
    /\ plugin' = PluginFor(t)
    /\ Finish(t, "ok") \/ (kind \in Cut /\ Finish(t, "failed"))
    /\ UNCHANGED <<kind, reloads, seen, seenPlugin, made>>

(* The write is refused or never arrives.  Deleting the plugin it read     *)
(* when that is gone already is not an error.                              *)
WriteFails(t) ==
    /\ step[t] = "write"
    /\ \E st \in {"failed"} \cup (IF Gone(t) THEN {"ok"} ELSE {}) : Finish(t, st)
    /\ UNCHANGED <<kind, reloads, listed, plugin, enforced, seen, seenPlugin, made>>

(* nginx: replace the file, which is all there is to do without a reload   *)
(* command (the platform may stop before it says so) ...                   *)
WriteFile(t) ==
    /\ step[t] = "write" /\ kind = "nginx"
    /\ listed' = Wanted(t)
    /\ IF reloads THEN StepTo(t, "reload") /\ UNCHANGED call
       ELSE Finish(t, "ok") \/ (kind \in Cut /\ Finish(t, "failed"))
    /\ UNCHANGED <<kind, reloads, plugin, enforced, seen, seenPlugin, made>>

(* ... and reload; *)
Reload(t) ==
    /\ step[t] = "reload"
    /\ enforced' = listed
    /\ Finish(t, "ok")
    /\ UNCHANGED <<kind, reloads, listed, plugin, seen, seenPlugin, made>>

(* an error (or the timeout, which cuts a reload that may have taken       *)
(* effect) puts the old file back.                                         *)
ReloadFails(t) ==
    /\ step[t] = "reload"
    /\ listed' \in Restored(t)
    /\ enforced' \in {enforced} \cup (IF kind \in Cut THEN {listed} ELSE {})
    /\ Finish(t, "failed")
    /\ UNCHANGED <<kind, reloads, plugin, seen, seenPlugin, made>>

(* Somebody else reloads an nginx that the platform does not reload.       *)
OthersReload ==
    /\ kind = "nginx" /\ ~reloads
    /\ enforced' = listed
    /\ UNCHANGED <<kind, reloads, listed, plugin, call, step, seen, seenPlugin, made>>

(* A platform process stops: its calls end where they are. *)
Crash(t) ==
    LET P == {u \in Callers : Home[u] = Home[t] /\ step[u] # "idle"}
    IN  /\ kind \in Cut /\ step[t] # "idle"
        /\ step' = [u \in Callers |-> IF u \in P THEN "idle" ELSE step[u]]
        /\ call' = [u \in Callers |-> IF u \in P THEN [call[u] EXCEPT !.st = "failed"]
                                      ELSE call[u]]
        /\ UNCHANGED <<kind, reloads, listed, plugin, enforced, seen, seenPlugin, made>>

ListNext ==
    \/ OthersReload
    \/ \E t \in Callers :
         \/ Begin(t) \/ Read(t) \/ Write(t) \/ WriteFails(t)
         \/ WriteFile(t) \/ Reload(t) \/ ReloadFails(t) \/ Crash(t)

ListSpec == ListInit /\ [][ListNext]_listVars

-----------------------------------------------------------------------------
(* Properties.                                                             *)

(* Every variable has its type; a call is pending exactly while it runs,   *)
(* and only nginx with a command reloads.                                  *)
ListTypeOK ==
    /\ kind \in Kinds /\ reloads \in BOOLEAN
    /\ listed \subseteq IPs /\ enforced \subseteq IPs
    /\ made \in 0 .. ListCalls /\ plugin \in 0 .. made
    /\ call \in [Callers -> C!Call \cup {C!NoCall}]
    /\ step \in [Callers -> {"idle", "want", "write", "reload"}]
    /\ seen \in [Callers -> SUBSET IPs] /\ seenPlugin \in [Callers -> 0 .. made]
    /\ \A t \in Callers : /\ (step[t] # "idle") <=> C!Pending(t)
                          /\ step[t] = "reload" => kind = "nginx" /\ reloads

(* The calls of one replica keep the promise of a connector: a call that   *)
(* succeeds has had its effect and none undoes the effect of another.  The *)
(* effect of nginx without a reload command is on its file.                *)
KeepsPromise == C!CSpec

(* "leaving the running configuration and the file in agreement"           *)
(* (nginx.go:19-20), whenever no reload is under way: of an nginx that the *)
(* platform reloads, and of the gateways.                                  *)
FileAgrees ==
    /\ kind = "nginx" => reloads
    /\ \A t \in Callers : step[t] # "reload"
    => enforced = listed
=============================================================================
