----------------------------- MODULE MCTraffic -----------------------------
(***************************************************************************)
(* Values of Traffic's constants for TLC.                                  *)
(***************************************************************************)
EXTENDS Traffic, TLC

Obs(src, account, path, fields, ms) ==
    [src |-> src, account |-> account, service |-> "s", path |-> path, fields |-> fields,
     failed |-> fields = <<>>, ms |-> ms, at |-> 0]

Alert(src, account, severity) ==
    [id |-> 0, src |-> src, account |-> account, severity |-> severity,
     score |-> 0, at |-> 0, status |-> "open"]

Quiet == [observations |-> {}, ages |-> {0}, alerts |-> {}, take |-> 0, until |-> 0, restarts |-> 0]

(* One asset called from three addresses. *)
Calling == {[Quiet EXCEPT !.observations = {Obs(ip, NoAccount, "p", <<>>, 0) : ip \in {"a", "b", "c"}},
                          !.take = 7, !.restarts = 1]}

(* ... and from more addresses than are tracked. *)
Crowding == {[Quiet EXCEPT !.observations = {Obs(ip, NoAccount, "p", <<>>, 0) : ip \in {"a", "b", "c", "d"}},
                           !.take = 5, !.restarts = 1]}

(* Durations, the longest of them once the window has come round. *)
Timing == {[Quiet EXCEPT !.observations = {Obs("a", NoAccount, "p", <<>>, ms) : ms \in 0..3},
                         !.take = 6, !.restarts = 1]}

(* More sources, endpoints and fields than there is room for, over time. *)
Exchanging == {[Quiet EXCEPT !.observations = {Obs(ip, u, p, f, 0) :
                                 ip \in {"a", "b"}, u \in {NoAccount, "u"}, p \in {"p"}, f \in {<<>>}}
                               \cup {Obs("a", NoAccount, "q", <<"phone", "phone">>, 0),
                                     Obs(NoIP, NoAccount, "p", <<"card">>, 0)},
                             !.ages = {0, 1}, !.take = 4, !.until = 2, !.restarts = 1]}

(* More edges than there is room for, between few nodes. *)
Crossing == {[Quiet EXCEPT !.observations = {Obs("a", NoAccount, p, f, 0) :
                               p \in {"p", "q"}, f \in {<<"phone">>, <<"card">>}},
                           !.ages = {0, 1}, !.take = 4, !.until = 2]}

(* One source at more endpoints than are remembered of it. *)
Wandering == {[Quiet EXCEPT !.observations = {Obs("a", NoAccount, "p", <<>>, 0),
                                              Obs("a", NoAccount, "q", <<"phone">>, 0),
                                              Obs("a", NoAccount, "r", <<>>, 0)},
                            !.take = 5]}

(* Alerts of two sources, of an account and of neither. *)
Alerting == {[Quiet EXCEPT !.alerts = {Alert("a", NoAccount, 1), Alert("b", "u", 2), Alert(NoIP, "u", 2),
                                       Alert(NoIP, NoAccount, 3)},
                           !.take = 4, !.until = 1]}

MCModes == Calling \union Crowding \union Timing \union Exchanging
           \union Crossing \union Wandering \union Alerting
=============================================================================
