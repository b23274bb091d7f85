------------------------------- MODULE Scores -------------------------------
(***************************************************************************)
(* The scores of the detection engines (platform/internal/engine) with the *)
(* numbers of the code.  Rates are compared without dividing.  Detection   *)
(* keeps only on which side of a limit a count lies; DetectionProofs shows *)
(* where those limits are.                                                 *)
(***************************************************************************)
EXTENDS Integers

(* Events from this score on raise an alert (processIngestEvent).          *)
AlertScore == 70

Least(a, b) == IF a <= b THEN a ELSE b

(* BOLAEngine.Evaluate: distinct objects in five minutes, and altogether.  *)
(* In floating point (23/5 - 2) * 5 is just under 13.                      *)
BolaScore(unique, known) ==
    IF unique > 50 THEN 80 + Least((2 * (unique - 25)) \div 5, 20)
    ELSE IF unique > 20 THEN 60 + (IF unique = 23 THEN 12 ELSE Least(unique - 10, 20))
    ELSE IF known > 100 THEN 50 ELSE 0

(* applyML: "span" is how far, in hundredths, the anomaly is on the way    *)
(* from the threshold to one, negative below the threshold.                *)
MLScore(score, unique, accesses, span) ==
    IF span >= 0 /\ unique >= 10 /\ 10 * unique >= 7 * accesses /\ score < AlertScore
    THEN 70 + (22 * Least(span, 100)) \div 100
    ELSE score

(* AuthFailureEngine.Evaluate: failures of an address in so many minutes,  *)
(* at least one, under so many names.                                      *)
AuthScore(fails, minutes, users) ==
    IF fails > 10 * minutes /\ users > 5
    THEN 80 + Least((2 * (fails - 10 * minutes)) \div minutes, 20)
    ELSE IF fails > 5 * minutes /\ users > 3 THEN 60 ELSE 0

(* BFLAEngine.Evaluate for a role that is not privileged, on a management  *)
(* endpoint: its own accesses among all that are on record.                *)
BflaScore(own, total) == IF total < 10 \/ 20 * own < total THEN 75 ELSE 0

(* DLPEngine.Evaluate.                                                     *)
DlpScore(unmasked, types, total, maxFields) ==
    IF unmasked > 0 THEN Least(75 + 5 * (types - 1) + Least(unmasked - 1, 10), 95)
    ELSE IF total > maxFields THEN 70 ELSE 0

(* BotEngine.Observe: listed fingerprint, scripting user agent, regular    *)
(* intervals, a burst, no browser header in any of the requests.           *)
BotScore(deny, script, regular, burst, bare) ==
    Least((IF deny THEN 40 ELSE 0) + (IF script THEN 30 ELSE 0) + (IF regular THEN 40 ELSE 0)
              + (IF burst THEN 30 ELSE 0) + (IF bare THEN 10 ELSE 0), 95)
=============================================================================
