---------------------------- MODULE MCDetection ----------------------------
EXTENDS Detection, TLC

CONSTANTS w1, w2

Plain == [ip |-> "i1", account |-> "u1", role |-> "user", endpoint |-> "plain", object |-> "o1",
          failed |-> FALSE, data |-> "none", client |-> "c1", script |-> FALSE, browser |-> TRUE]

(* Wrong passwords from one address, under two names. *)
Failures == {[Plain EXCEPT !.account = a, !.failed = TRUE] : a \in {"u1", "u2"}}

(* One account that walks through objects, once in answers that export. *)
Walk == {[Plain EXCEPT !.object = o] : o \in {"o1", "o2", "o3"}}
Export == {[Plain EXCEPT !.endpoint = "export", !.data = d] : d \in {"none", "masked"}}

(* Answers with sensitive values, on two endpoints. *)
Leaks == {[Plain EXCEPT !.endpoint = e, !.data = d] : e \in {"plain", "export"}, d \in {"bulk", "open"}}

(* Two roles at the management endpoint, one of them not alone in it. *)
Managers == {[Plain EXCEPT !.role = r, !.endpoint = "admin", !.failed = f] :
               r \in {"admin", "user"}, f \in BOOLEAN}

(* A scripting client on the deny list and another one. *)
Bots == {[Plain EXCEPT !.client = "c2", !.script = s, !.browser = ~s] : s \in BOOLEAN} \cup {Plain}

(* Two such clients, whose keys outgrow the cooldown's table. *)
Pair == {[Plain EXCEPT !.client = c, !.script = TRUE, !.browser = FALSE] : c \in {"c1", "c2"}}

Quiet == [events |-> {Plain}, take |-> 1, until |-> 1, listed |-> {}, ml |-> FALSE, room |-> 0]

AllModes ==
    {[Quiet EXCEPT !.events = Failures, !.take = 3, !.until = 3],
     [Quiet EXCEPT !.events = Walk \cup Export, !.take = 3, !.until = 3],
     [Quiet EXCEPT !.events = Leaks, !.take = 4, !.until = 2],
     [Quiet EXCEPT !.events = Managers, !.take = 3, !.until = 2],
     [Quiet EXCEPT !.events = Bots, !.take = 3, !.until = 3, !.room = 1, !.listed = {"c2"}],
     [Quiet EXCEPT !.events = Pair, !.take = 4, !.until = 2, !.room = 2, !.listed = {"c1", "c2"}],
     [Quiet EXCEPT !.events = {[Plain EXCEPT !.account = a] : a \in {"u1", "u2"}},
                   !.take = 3, !.until = 2, !.ml = TRUE]}

Symmetric == Permutations(Workers)
=============================================================================
