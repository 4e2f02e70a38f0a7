---------------------------- MODULE MCDurableLog -----------------------------
(* The durable log of one engine with few records and few transactions.      *)
EXTENDS DurableLog
=============================================================================
