------------------------------- MODULE Assets -------------------------------
(***************************************************************************)
(* The statistics of the asset inventory (service/asset_service.go): the   *)
(* calls of each address, the addresses with the most calls, and the       *)
(* recent latencies, kept in memory and saved with the asset as a whole.   *)
(* When they are saved, and what a crash loses, is Persister's subject;    *)
(* here a restart finds what was saved last.                               *)
(***************************************************************************)
EXTENDS Integers, Sequences, FiniteSets, Tables, Slices

CONSTANTS
    TopCallerCount, MaxTrackedCallers,  \* 5, 10000
    LatencyWindowSize                   \* 512

ASSUME AssetsAssumption ==
    {TopCallerCount, MaxTrackedCallers, LatencyWindowSize} \subseteq Nat \ {0}

VARIABLES
    assets,   \* the statistics of each asset; "recent", a ghost, is every
              \* latency it ever counted
    saved

assetVars == <<assets, saved>>

NewStats == [callers |-> Nothing, top |-> <<>>, window |-> <<>>, next |-> 0, recent |-> <<>>]

AssetsInit == assets = Nothing /\ saved = Nothing

(* The first of the entries with the fewest calls. *)
MinIndex(top) ==
    CHOOSE i \in DOMAIN top : \A j \in DOMAIN top :
        top[i].calls < top[j].calls \/ (top[i].calls = top[j].calls /\ i <= j)

(* Mutant of Entered: the newest entry gives way instead of the least. *)
EnteredLast(top, info) == [top EXCEPT ![Len(top)] = info]

(* A newcomer has to overtake the least of a full list. *)
Entered(top, info) ==
    IF Len(top) < TopCallerCount THEN Append(top, info)
    ELSE IF info.calls > top[MinIndex(top)].calls THEN [top EXCEPT ![MinIndex(top)] = info] ELSE top

InOrder(top) == Sorted(top, LAMBDA a, b : a.calls > b.calls)

(* updateCallerStats: past the limit a new address is not tracked.         *)
Called(st, ip) ==
    IF ip \notin DOMAIN st.callers /\ Cardinality(DOMAIN st.callers) >= MaxTrackedCallers THEN st
    ELSE LET calls == Get(st.callers, ip, 0) + 1
             info == [ip |-> ip, calls |-> calls]
             here == {i \in DOMAIN st.top : st.top[i].ip = ip}
             top == IF here # {} THEN [st.top EXCEPT ![CHOOSE i \in here : TRUE] = info]
                    ELSE Entered(st.top, info)
         IN  [st EXCEPT !.callers = Put(@, ip, calls), !.top = InOrder(top)]

(* recordLatency: a ring once it is full; durations of zero are not        *)
(* counted.                                                                *)
Timed(st, ms) ==
    IF ms = 0 THEN st
    ELSE IF Len(st.window) < LatencyWindowSize
    THEN [st EXCEPT !.window = Append(@, ms), !.recent = Append(@, ms)]
    ELSE [st EXCEPT !.window[st.next + 1] = ms, !.next = (@ + 1) % LatencyWindowSize,
                    !.recent = Append(@, ms)]

(* Nearest rank over the window in order: ceil(0.95 n). *)
P95(window) ==
    LET rank == (95 * Len(window) + 99) \div 100
    IN  Sorted(window, <)[rank]

(* ObserveEvent *)
Count(o) ==
    /\ assets' = Put(assets, o.path, Timed(Called(Get(assets, o.path, NewStats), o.src), o.ms))
    /\ UNCHANGED saved

(* Mutant of Stored: the place of the oldest latency is not saved. *)
StoredWithoutNext(st) == [st EXCEPT !.next = 0]

(* toDoc and back: all of the statistics. *)
Stored(st) == st

SaveAssets ==
    /\ saved' = [a \in DOMAIN assets |-> Stored(assets[a])]
    /\ UNCHANGED assets

Load == assets' = saved /\ UNCHANGED saved
=============================================================================
