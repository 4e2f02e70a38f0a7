---------------------------- MODULE MCIntentLanes ----------------------------
(* Two lanes; two intents on a key that a resize moves between the lanes; a   *)
(* classic UPDATE of the same key that is a retry of the first intent.        *)
EXTENDS IntentLanes

CONSTANTS i1, i2, w1

MCKeyOf == [r \in {i1, i2, w1} |-> "k"]
MCTxnOf == [r \in {i1, i2, w1} |-> IF r = i2 THEN "t2" ELSE "t1"]
MCHash == [k \in {"k"} |-> 1]
=============================================================================
