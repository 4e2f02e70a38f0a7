---------------------------- MODULE MCTxnManager ----------------------------
(***************************************************************************)
(* TxnManager on five ids and a retention window of two, with the plausible *)
(* faults of its operations that each property must notice.                *)
(***************************************************************************)
EXTENDS TxnManager
=============================================================================
