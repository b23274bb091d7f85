----------------------------- MODULE MCDelivery -----------------------------
(***************************************************************************)
(* Values of Delivery's constants for TLC.                                 *)
(***************************************************************************)
EXTENDS Delivery, TLC

CONSTANTS x1, x2, x3, x4

MCEvents == {1, 2, x1, x2, x3, x4}

Quiet == [rotate |-> "none", lines |-> 0, backlog |-> 0, reachable |-> FALSE,
          requests |-> 0, batches |-> {}, time |-> 0, stops |-> FALSE, leaves |-> FALSE, sinks |-> {}]

(* The log, while the platform cannot be reached. *)
Tailing == {[Quiet EXCEPT !.lines = 3, !.rotate = r] : r \in {"rename", "truncate"}}

(* The agent sends what it has, beside another sender. *)
Sending == {[Quiet EXCEPT !.lines = 2, !.backlog = 2, !.reachable = TRUE, !.requests = 1, !.leaves = TRUE,
                           !.batches = {<<x1>>}]}

(* The others repeat events while time passes. *)
Repeating == {[Quiet EXCEPT !.requests = 3, !.time = 2, !.batches = {<<x1>>, <<x1, x2>>}]}

(* More events than the table has room for. *)
Crowding == {[Quiet EXCEPT !.requests = 1, !.time = 2, !.batches = {<<x1, x2, x3, x4, x4>>}]}

(* The platform stops with records on their way to the sinks. *)
Stopping == {[Quiet EXCEPT !.requests = 1, !.stops = TRUE, !.batches = {<<x1, x2, x3>>},
                            !.sinks = {"kafka", "clickhouse"}]}

MCModes == Tailing \union Sending \union Repeating \union Crowding \union Stopping
=============================================================================
