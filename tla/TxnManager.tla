----------------------------- MODULE TxnManager -----------------------------
(***************************************************************************)
(* The in-memory transaction table, crates/txn/src/lib.rs: allocation of   *)
(* transaction ids, the active/terminal state of each, and the bounded     *)
(* window of terminal transactions whose verdict can still be asked for.   *)
(*                                                                         *)
(* `states` is a total function here: "none" stands for an id with no      *)
(* entry in the map.                                                       *)
(***************************************************************************)
EXTENDS Integers, FiniteSets, Sequences

CONSTANTS MaxTxnId,             \* the largest TxnId (u64::MAX in the code)
          MAX_RETAINED_TERMINAL \* size of the terminal retention window

ASSUME TxnAssumption == /\ MaxTxnId \in Nat
                        /\ MAX_RETAINED_TERMINAL \in Nat \ {0}

VARIABLES next_id, states, active_count, terminal_order

vars == <<next_id, states, active_count, terminal_order>>

TxnIds == 0..MaxTxnId
Terminal == {"committed", "aborted"}

ActiveIds == {id \in TxnIds : states[id] = "active"}
TerminalIds == {id \in TxnIds : states[id] \in Terminal}

Init ==
  /\ next_id = 0
  /\ states = [id \in TxnIds |-> "none"]
  /\ active_count = 0
  /\ terminal_order = <<>>

SaturatingDec(n) == IF n = 0 THEN 0 ELSE n - 1

-----------------------------------------------------------------------------
\* Fault: begin without its checked_add.
BeginUnchecked ==
  /\ next_id <= MaxTxnId
  /\ next_id' = next_id + 1
  /\ states' = [states EXCEPT ![next_id + 1] = "active"]
  /\ active_count' = active_count + 1
  /\ UNCHANGED terminal_order

\* begin: an exhausted id space is the only error, and changes nothing.
Begin ==
  /\ next_id < MaxTxnId
  /\ next_id' = next_id + 1
  /\ states' = [states EXCEPT ![next_id + 1] = "active"]
  /\ active_count' = active_count + 1
  /\ UNCHANGED terminal_order

\* Fault: begin_with_id that leaves next_id behind the id it was given.
BeginWithIdNoAdvance(id) ==
  /\ states[id] = "none"
  /\ states' = [states EXCEPT ![id] = "active"]
  /\ active_count' = active_count + 1
  /\ UNCHANGED <<next_id, terminal_order>>

\* begin_with_id: refused while the id still has an entry (AlreadyExists).
BeginWithId(id) ==
  /\ states[id] = "none"
  /\ next_id' = IF id > next_id THEN id ELSE next_id
  /\ states' = [states EXCEPT ![id] = "active"]
  /\ active_count' = active_count + 1
  /\ UNCHANGED terminal_order

\* Faults of the eviction: a window one too wide; a queue that is trimmed while
\* the map keeps the entries.
OverflowLate(order) ==
  IF Len(order) > MAX_RETAINED_TERMINAL + 1
  THEN Len(order) - MAX_RETAINED_TERMINAL ELSE 0

EvictNothing(st, order) == st

\* evict_stale_terminal, applied to a table and its terminal queue: ids beyond
\* the window are popped oldest first; a popped id keeps its entry unless the
\* entry is still terminal.
Overflow(order) ==
  IF Len(order) > MAX_RETAINED_TERMINAL
  THEN Len(order) - MAX_RETAINED_TERMINAL ELSE 0

RetainedOrder(order) ==
  [i \in 1 .. Len(order) - Overflow(order) |-> order[i + Overflow(order)]]

EvictStates(st, order) ==
  [id \in TxnIds |->
     IF /\ \E i \in 1..Overflow(order) : order[i] = id
        /\ st[id] \in Terminal
     THEN "none" ELSE st[id]]

\* Fault: a terminal transition that does not insist on an active transaction.
TransitionAny(id, to) ==
  /\ states[id] # "none"
  /\ active_count' = SaturatingDec(active_count)
  /\ LET order == Append(terminal_order, id)
     IN /\ terminal_order' = RetainedOrder(order)
        /\ states' = EvictStates([states EXCEPT ![id] = to], order)
  /\ UNCHANGED next_id

\* transition_terminal, with the eviction it ends in (commit and rollback).
TransitionTerminal(id, to) ==
  /\ states[id] = "active"
  /\ active_count' = SaturatingDec(active_count)
  /\ LET order == Append(terminal_order, id)
     IN /\ terminal_order' = RetainedOrder(order)
        /\ states' = EvictStates([states EXCEPT ![id] = to], order)
  /\ UNCHANGED next_id

Commit(id) == TransitionTerminal(id, "committed")
Rollback(id) == TransitionTerminal(id, "aborted")

\* Fault: cancel that forgets the counter.
CancelNoCount(id) ==
  /\ states[id] = "active"
  /\ states' = [states EXCEPT ![id] = "none"]
  /\ UNCHANGED <<next_id, active_count, terminal_order>>

\* cancel: a clean pre-durable transaction leaves no trace of its id.
Cancel(id) ==
  /\ states[id] = "active"
  /\ states' = [states EXCEPT ![id] = "none"]
  /\ active_count' = SaturatingDec(active_count)
  /\ UNCHANGED <<next_id, terminal_order>>

Next ==
  \/ Begin
  \/ \E id \in TxnIds : \/ BeginWithId(id)
                        \/ Commit(id)
                        \/ Rollback(id)
                        \/ Cancel(id)

Spec == Init /\ [][Next]_vars

-----------------------------------------------------------------------------
\* Type correctness of the four fields of TxnManager.
TypeOK ==
  /\ next_id \in TxnIds
  /\ states \in [TxnIds -> {"none", "active"} \cup Terminal]
  /\ active_count \in Nat
  /\ terminal_order \in Seq(TxnIds)

\* The counter behind active_count() is exact: every path that activates,
\* terminates or cancels an id moves it by one, and the saturating subtraction
\* never hides a miscount.
ActiveCountExact == active_count = Cardinality(ActiveIds)

\* terminal_order holds each terminal id once and nothing else. This is what
\* makes eviction exact; in particular the "stale queue slot" that
\* evict_stale_terminal says it skips (an evicted id that was begun again while
\* still queued) never arises, because popping and forgetting go together.
TerminalQueueExact ==
  /\ \A i \in 1..Len(terminal_order) : terminal_order[i] \in TerminalIds
  /\ \A id \in TerminalIds : \E i \in 1..Len(terminal_order) : terminal_order[i] = id
  /\ \A i, j \in 1..Len(terminal_order) :
       terminal_order[i] = terminal_order[j] => i = j

\* The retention window is a bound, whatever the sequence of commits, rollbacks
\* and reused ids.
RetentionBounded == Len(terminal_order) <= MAX_RETAINED_TERMINAL

\* begin() overwrites the entry of next_id + 1 without looking: no id above
\* next_id may have an entry, whatever ids callers brought to begin_with_id.
BeginIsFresh == \A id \in TxnIds : states[id] # "none" => id <= next_id

\* A verdict is final while it is remembered, as state() reports it: a terminal id keeps its verdict or
\* is forgotten, and it is forgotten only when it is the oldest of a full window.
VerdictStep ==
  \A id \in TerminalIds :
    \/ states'[id] = states[id]
    \/ /\ states'[id] = "none"
       /\ Len(terminal_order) = MAX_RETAINED_TERMINAL
       /\ terminal_order[1] = id

VerdictIsFinal == [][VerdictStep]_vars
=============================================================================
