-------------------------- MODULE TxnManagerProofs --------------------------
(***************************************************************************)
(* The transaction table keeps exact books for every id space and every    *)
(* retention window: TxnInv is inductive, and the action property follows  *)
(* from it.                                                                *)
(***************************************************************************)
EXTENDS TxnManager, SequenceTheorems, FiniteSetTheorems, TLAPS

\* The inductive invariant: the invariants of the run, together. Each needs the
\* others: the eviction is exact because the queue is, and the queue overflows
\* by at most one because it was within its bound.
TxnInv ==
  /\ TypeOK
  /\ ActiveCountExact
  /\ TerminalQueueExact
  /\ RetentionBounded
  /\ BeginIsFresh

\* There are finitely many ids, so the number of active ones is a number.
LEMMA ActiveFinite ==
  ASSUME NEW S \in SUBSET TxnIds
  PROVE  IsFiniteSet(S) /\ Cardinality(S) \in Nat
<1>1. IsFiniteSet(TxnIds)
  BY FS_Interval, TxnAssumption DEF TxnIds
<1>2. IsFiniteSet(S)
  BY <1>1, FS_Subset
<1> QED
  BY <1>2, FS_CardinalityType

\* What transition_terminal's push and eviction leave in the queue: everything
\* when the window had room, everything but the oldest id when it was full.
LEMMA RetainedAfterPush ==
  ASSUME NEW order \in Seq(TxnIds), NEW id \in TxnIds,
         Len(order) <= MAX_RETAINED_TERMINAL,
         NEW new, new = Append(order, id)
  PROVE  /\ Overflow(new) = IF Len(order) = MAX_RETAINED_TERMINAL THEN 1 ELSE 0
         /\ RetainedOrder(new) \in Seq(TxnIds)
         /\ Len(RetainedOrder(new)) = Len(order) + 1 - Overflow(new)
         /\ \A i \in 1..Len(RetainedOrder(new)) :
              RetainedOrder(new)[i] = new[i + Overflow(new)]
<1>1. /\ new \in Seq(TxnIds)
      /\ Len(new) = Len(order) + 1
      /\ \A i \in 1..Len(new) : new[i] \in TxnIds
  OBVIOUS
<1>2. Overflow(new) = IF Len(order) = MAX_RETAINED_TERMINAL THEN 1 ELSE 0
  BY <1>1, TxnAssumption DEF Overflow
<1>3. RetainedOrder(new) \in [1 .. Len(order) + 1 - Overflow(new) -> TxnIds]
  BY <1>1, <1>2, TxnAssumption DEF RetainedOrder
<1>4. Len(order) + 1 - Overflow(new) \in Nat
  BY <1>2
<1>5. /\ RetainedOrder(new) \in Seq(TxnIds)
      /\ Len(RetainedOrder(new)) = Len(order) + 1 - Overflow(new)
  BY <1>3, <1>4
<1> QED
  BY <1>1, <1>2, <1>5 DEF RetainedOrder

\* begin and begin_with_id both activate an id that had no entry.
LEMMA ActivateKeeps ==
  ASSUME TxnInv, NEW id \in TxnIds, states[id] = "none",
         states' = [states EXCEPT ![id] = "active"],
         active_count' = active_count + 1,
         next_id' \in TxnIds, next_id <= next_id', id <= next_id',
         terminal_order' = terminal_order
  PROVE  TxnInv'
<1> USE DEF TxnInv
<1>1. ActiveIds' = ActiveIds \cup {id} /\ id \notin ActiveIds
  BY DEF TypeOK, ActiveIds, Terminal
<1>2. TerminalIds' = TerminalIds
  BY DEF TypeOK, TerminalIds, Terminal
<1>3. IsFiniteSet(ActiveIds) /\ Cardinality(ActiveIds) \in Nat
  BY ActiveFinite DEF ActiveIds
<1>4. Cardinality(ActiveIds \cup {id}) = Cardinality(ActiveIds) + 1
  BY <1>1, <1>3, FS_AddElement
<1>5. TypeOK'
  BY DEF TypeOK
<1>6. ActiveCountExact'
  BY <1>1, <1>4 DEF ActiveCountExact
<1>7. TerminalQueueExact'
  BY <1>2 DEF TerminalQueueExact
<1>8. RetentionBounded' /\ BeginIsFresh'
  BY TxnAssumption DEF RetentionBounded, BeginIsFresh, TypeOK, TxnIds
<1> QED
  BY <1>5, <1>6, <1>7, <1>8

\* An id that stops being active leaves a table whose active ids are the others,
\* and the saturating decrement is then an exact one.
LEMMA DeactivateCounts ==
  ASSUME TypeOK, ActiveCountExact, NEW id \in TxnIds, states[id] = "active",
         active_count' = SaturatingDec(active_count),
         ActiveIds' = ActiveIds \ {id}
  PROVE  active_count' \in Nat /\ ActiveCountExact'
<1>1. id \in ActiveIds
  BY DEF ActiveIds
<1>2. IsFiniteSet(ActiveIds) /\ Cardinality(ActiveIds) \in Nat
  BY ActiveFinite DEF ActiveIds
<1>3. Cardinality(ActiveIds \ {id}) = Cardinality(ActiveIds) - 1
  BY <1>1, <1>2, FS_RemoveElement
<1>4. Cardinality(ActiveIds) # 0
  BY <1>1, <1>2, FS_EmptySet
<1> QED
  BY <1>2, <1>3, <1>4 DEF ActiveCountExact, SaturatingDec

\* commit and rollback: the id joins the queue, and the oldest id leaves queue and
\* table together when the window was full.
LEMMA TerminalKeeps ==
  ASSUME TxnInv, NEW id \in TxnIds, NEW to \in Terminal,
         TransitionTerminal(id, to)
  PROVE  TxnInv'
<1> USE DEF TxnInv
<1> DEFINE order == Append(terminal_order, id)
           L == Len(terminal_order)
           cut == Overflow(order)
<1>1. /\ L \in Nat
      /\ L <= MAX_RETAINED_TERMINAL
      /\ order \in Seq(TxnIds)
      /\ Len(order) = L + 1
      /\ order[L + 1] = id
      /\ \A i \in 1..L : order[i] = terminal_order[i]
      /\ \A i \in 1..L : terminal_order[i] \in TxnIds
  BY DEF TypeOK, RetentionBounded
<1>2. /\ cut = IF L = MAX_RETAINED_TERMINAL THEN 1 ELSE 0
      /\ terminal_order' \in Seq(TxnIds)
      /\ Len(terminal_order') = L + 1 - cut
      /\ \A i \in 1..Len(terminal_order') : terminal_order'[i] = order[i + cut]
  <2>1. terminal_order' = RetainedOrder(order)
    BY DEF TransitionTerminal
  <2>2. order = Append(terminal_order, id) /\ terminal_order \in Seq(TxnIds)
    BY DEF TypeOK
  <2> HIDE DEF order
  <2>3. /\ cut = IF L = MAX_RETAINED_TERMINAL THEN 1 ELSE 0
        /\ RetainedOrder(order) \in Seq(TxnIds)
        /\ Len(RetainedOrder(order)) = L + 1 - cut
        /\ \A i \in 1..Len(RetainedOrder(order)) : RetainedOrder(order)[i] = order[i + cut]
    <3> HIDE DEF cut, L
    <3>1. Len(terminal_order) <= MAX_RETAINED_TERMINAL
      BY <1>1 DEF L
    <3>2. cut = Overflow(Append(terminal_order, id)) /\ L = Len(terminal_order)
      BY <2>2 DEF cut, L
    <3>3. /\ Overflow(Append(terminal_order, id)) = IF L = MAX_RETAINED_TERMINAL THEN 1 ELSE 0
          /\ RetainedOrder(Append(terminal_order, id)) \in Seq(TxnIds)
          /\ Len(RetainedOrder(Append(terminal_order, id))) = L + 1 - cut
          /\ \A i \in 1..Len(RetainedOrder(Append(terminal_order, id))) :
               RetainedOrder(Append(terminal_order, id))[i]
                 = Append(terminal_order, id)[i + cut]
      BY <2>2, <3>1, <3>2, RetainedAfterPush, ZenonT(60)
    <3> QED
      BY <2>2, <3>2, <3>3, Zenon
  <2> QED
    BY <2>1, <2>3
<1>3. states' = EvictStates([states EXCEPT ![id] = to], order)
  BY DEF TransitionTerminal
<1>4. states[id] = "active"
  BY DEF TransitionTerminal
<1> HIDE DEF order, cut, L
<1>5. \A i \in 1..L : order[i] \in TerminalIds /\ order[i] # id
  BY <1>1, <1>4 DEF TerminalQueueExact, TerminalIds, Terminal, L
<1>6. cut = 1 => L \in Nat \ {0}
  BY <1>1, <1>2, TxnAssumption
<1>7. states' = [x \in TxnIds |-> IF cut = 1 /\ x = order[1] THEN "none"
                                ELSE IF x = id THEN to ELSE states[x]]
  <2>1. ASSUME NEW x \in TxnIds
        PROVE  (\E i \in 1..Overflow(order) : order[i] = x) <=> cut = 1 /\ x = order[1]
    BY <1>1, <1>2 DEF cut
  <2>2. cut = 1 => order[1] \in TerminalIds /\ order[1] # id
    BY <1>5, <1>6
  <2> QED
    BY <2>1, <2>2, <1>3 DEF EvictStates, TypeOK, TerminalIds
<1>8. cut = 1 => order[1] \in TerminalIds /\ order[1] # id
  BY <1>5, <1>6
<1>9. TypeOK'
  <2>1. active_count' \in Nat
    BY DEF TypeOK, TransitionTerminal, SaturatingDec
  <2>2. states' \in [TxnIds -> {"none", "active"} \cup Terminal]
    BY <1>7 DEF TypeOK
  <2> QED
    BY <2>1, <2>2, <1>2 DEF TypeOK, TransitionTerminal
<1>10. ActiveCountExact'
  <2>1. ActiveIds' = ActiveIds \ {id}
    BY <1>7, <1>8 DEF ActiveIds, TerminalIds, Terminal
  <2> QED
    BY <2>1, <1>4, DeactivateCounts DEF TransitionTerminal
<1>11. TerminalIds' = (TerminalIds \cup {id}) \ {x \in TxnIds : cut = 1 /\ x = order[1]}
  BY <1>7, <1>8 DEF TerminalIds, Terminal
<1>12. TerminalQueueExact'
  <2>1. \A i, j \in 1..(L + 1) : order[i] = order[j] => i = j
    <3> SUFFICES ASSUME NEW i \in 1..(L + 1), NEW j \in 1..(L + 1), order[i] = order[j]
                 PROVE  i = j
      OBVIOUS
    <3>1. CASE i \in 1..L /\ j \in 1..L
      BY <1>1, <3>1 DEF TerminalQueueExact, L
    <3>2. CASE i = L + 1 \/ j = L + 1
      BY <1>1, <1>5, <3>2
    <3> QED
      BY <1>1, <3>1, <3>2
  <2>2. \A i \in 1..Len(terminal_order') :
          i + cut \in 1..(L + 1) /\ terminal_order'[i] = order[i + cut]
    BY <1>1, <1>2
  <2>3. \A i \in 1..Len(terminal_order') : terminal_order'[i] \in TerminalIds'
    <3> SUFFICES ASSUME NEW i \in 1..Len(terminal_order')
                 PROVE  terminal_order'[i] \in TerminalIds'
      OBVIOUS
    <3>1. order[i + cut] \in TerminalIds \cup {id}
      BY <2>2, <1>1, <1>5
    <3>2. cut = 1 => order[i + cut] # order[1]
      BY <2>1, <2>2, <1>1
    <3> QED
      BY <3>1, <3>2, <2>2, <1>11
  <2>4. ASSUME NEW x \in TerminalIds'
        PROVE  \E i \in 1..Len(terminal_order') : terminal_order'[i] = x
    <3>1. PICK k \in 1..(L + 1) : order[k] = x
      BY <1>1, <1>11 DEF TerminalQueueExact, L
    <3>2. cut = 1 => k # 1
      BY <3>1, <1>11 DEF TerminalIds
    <3>3. k - cut \in 1..Len(terminal_order')
      BY <3>2, <1>1, <1>2
    <3>4. terminal_order'[k - cut] = x
      BY <3>1, <3>3, <1>1, <1>2
    <3> QED
      BY <3>3, <3>4
  <2>5. \A i, j \in 1..Len(terminal_order') :
          terminal_order'[i] = terminal_order'[j] => i = j
    BY <2>1, <2>2, <1>1, <1>2
  <2> QED
    BY <2>3, <2>4, <2>5 DEF TerminalQueueExact
<1>13. RetentionBounded'
  BY <1>1, <1>2, TxnAssumption DEF RetentionBounded
<1>14. BeginIsFresh'
  BY <1>4, <1>7 DEF BeginIsFresh, TransitionTerminal
<1> QED
  BY <1>9, <1>10, <1>12, <1>13, <1>14

\* cancel: the queue and the window do not notice.
LEMMA CancelKeeps ==
  ASSUME TxnInv, NEW id \in TxnIds, Cancel(id)
  PROVE  TxnInv'
<1> USE DEF TxnInv, Cancel
<1>1. ActiveIds' = ActiveIds \ {id} /\ TerminalIds' = TerminalIds
  BY DEF TypeOK, ActiveIds, TerminalIds, Terminal
<1>2. active_count' \in Nat /\ ActiveCountExact'
  BY <1>1, DeactivateCounts
<1>3. TypeOK'
  BY <1>2 DEF TypeOK
<1>4. TerminalQueueExact' /\ RetentionBounded' /\ BeginIsFresh'
  BY <1>1 DEF TerminalQueueExact, RetentionBounded, BeginIsFresh, TypeOK
<1> QED
  BY <1>2, <1>3, <1>4
-----------------------------------------------------------------------------
\* In every reachable state the table keeps exact books (all the state invariants
\* of TxnManager, for every id space and window).
THEOREM TxnSafety == Spec => []TxnInv
<1>1. Init => TxnInv
  <2> SUFFICES ASSUME Init PROVE TxnInv
    OBVIOUS
  <2>1. ActiveIds = {} /\ TerminalIds = {}
    BY DEF Init, ActiveIds, TerminalIds, Terminal
  <2>2. TypeOK /\ RetentionBounded /\ BeginIsFresh
    BY TxnAssumption DEF Init, TypeOK, TxnIds, RetentionBounded, BeginIsFresh
  <2>3. ActiveCountExact
    BY <2>1, FS_EmptySet DEF Init, ActiveCountExact
  <2>4. TerminalQueueExact
    BY <2>1 DEF Init, TerminalQueueExact
  <2> QED
    BY <2>2, <2>3, <2>4 DEF TxnInv
<1>2. TxnInv /\ [Next]_vars => TxnInv'
  <2> SUFFICES ASSUME TxnInv, [Next]_vars PROVE TxnInv'
    OBVIOUS
  <2>1. CASE Begin
    <3>1. next_id + 1 \in TxnIds /\ next_id \in Nat
      BY <2>1, TxnAssumption DEF TxnInv, TypeOK, TxnIds, Begin
    <3>2. states[next_id + 1] = "none"
      BY <3>1 DEF TxnInv, BeginIsFresh
    <3>3. PICK id \in TxnIds : id = next_id + 1
      BY <3>1
    <3>4. /\ states[id] = "none"
          /\ states' = [states EXCEPT ![id] = "active"]
          /\ active_count' = active_count + 1
          /\ next_id' \in TxnIds /\ next_id <= next_id' /\ id <= next_id'
          /\ terminal_order' = terminal_order
      BY <2>1, <3>1, <3>2, <3>3 DEF Begin
    <3> QED
      BY <3>4, ActivateKeeps
  <2>2. ASSUME NEW id \in TxnIds, BeginWithId(id) PROVE TxnInv'
    <3>1. next_id' \in TxnIds /\ next_id <= next_id' /\ id <= next_id'
      BY <2>2, TxnAssumption DEF TxnInv, TypeOK, TxnIds, BeginWithId
    <3> QED
      BY <2>2, <3>1, ActivateKeeps DEF BeginWithId
  <2>3. ASSUME NEW id \in TxnIds, Commit(id) PROVE TxnInv'
    BY <2>3, TerminalKeeps DEF Commit, Terminal
  <2>4. ASSUME NEW id \in TxnIds, Rollback(id) PROVE TxnInv'
    BY <2>4, TerminalKeeps DEF Rollback, Terminal
  <2>5. ASSUME NEW id \in TxnIds, Cancel(id) PROVE TxnInv'
    BY <2>5, CancelKeeps
  <2>6. CASE UNCHANGED vars
    BY <2>6 DEF TxnInv, TypeOK, ActiveCountExact, ActiveIds, TerminalQueueExact,
       TerminalIds, RetentionBounded, BeginIsFresh, vars
  <2> QED
    BY <2>1, <2>2, <2>3, <2>4, <2>5, <2>6 DEF Next
<1> QED
  BY <1>1, <1>2, PTL DEF Spec

\* The four state invariants by name, for every id space and window: the counter
\* and the terminal queue are exact, the window is a bound, and begin() never
\* overwrites an entry.
THEOREM TxnBooksExact ==
  Spec => [](ActiveCountExact /\ TerminalQueueExact /\ RetentionBounded /\ BeginIsFresh)
<1>1. TxnInv => ActiveCountExact /\ TerminalQueueExact /\ RetentionBounded /\ BeginIsFresh
  BY DEF TxnInv
<1> QED
  BY <1>1, TxnSafety, PTL

\* state() never contradicts an answer it gave: no operation changes a remembered
\* verdict, and only the oldest verdict of a full window is forgotten.
THEOREM TxnVerdictIsFinal == Spec => VerdictIsFinal
<1>1. ASSUME TxnInv, [Next]_vars
      PROVE  [VerdictStep]_vars
  <2> SUFFICES ASSUME NEW x \in TerminalIds, Next
               PROVE  \/ states'[x] = states[x]
                      \/ /\ states'[x] = "none"
                         /\ Len(terminal_order) = MAX_RETAINED_TERMINAL
                         /\ terminal_order[1] = x
    BY <1>1 DEF VerdictStep
  <2>1. x \in TxnIds /\ states[x] \in Terminal
    BY DEF TerminalIds
  <2>2. CASE Begin
    <3>1. states[next_id + 1] = "none" \/ next_id + 1 \notin TxnIds
      BY <1>1 DEF TxnInv, TypeOK, BeginIsFresh, TxnIds
    <3> QED
      BY <2>1, <2>2, <3>1, <1>1 DEF Begin, TxnInv, TypeOK, Terminal
  <2>3. ASSUME NEW id \in TxnIds, BeginWithId(id) \/ Cancel(id)
        PROVE  states'[x] = states[x]
    BY <1>1, <2>1, <2>3 DEF BeginWithId, Cancel, TxnInv, TypeOK, Terminal
  <2>4. ASSUME NEW id \in TxnIds, NEW to \in Terminal, TransitionTerminal(id, to)
        PROVE  \/ states'[x] = states[x]
               \/ /\ states'[x] = "none"
                  /\ Len(terminal_order) = MAX_RETAINED_TERMINAL
                  /\ terminal_order[1] = x
    <3> DEFINE order == Append(terminal_order, id)
    <3>1. /\ terminal_order \in Seq(TxnIds)
          /\ Len(terminal_order) <= MAX_RETAINED_TERMINAL
          /\ states \in [TxnIds -> {"none", "active"} \cup Terminal]
      BY <1>1 DEF TxnInv, TypeOK, RetentionBounded
    <3>2. x # id
      BY <2>1, <2>4 DEF TransitionTerminal, Terminal
    <3>3. states'[x] = IF \E i \in 1..Overflow(order) : order[i] = x
                       THEN "none" ELSE states[x]
      BY <2>1, <2>4, <3>1, <3>2 DEF TransitionTerminal, EvictStates
    <3>4. Overflow(order) = IF Len(terminal_order) = MAX_RETAINED_TERMINAL THEN 1 ELSE 0
      BY <3>1, RetainedAfterPush
    <3>5. Len(terminal_order) = MAX_RETAINED_TERMINAL => order[1] = terminal_order[1]
      BY <3>1, TxnAssumption
    <3> QED
      BY <3>3, <3>4, <3>5
  <2> QED
    BY <2>2, <2>3, <2>4 DEF Next, Commit, Rollback, Terminal
<1> QED
  BY <1>1, TxnSafety, PTL DEF Spec, VerdictIsFinal
=============================================================================
