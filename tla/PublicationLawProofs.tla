------------------------ MODULE PublicationLawProofs ------------------------
(***************************************************************************)
(* The publication law for every number of indices, crashes included.  The *)
(* only thing asked of the constant is that it is a number.                *)
(* LawInv is inductive as it stands: acked stays inside the visible prefix *)
(* across a restart only because the visible prefix is durable, and the    *)
(* visible prefix stays durable only because what waits in the join is.    *)
(***************************************************************************)
EXTENDS PublicationLaw, TLAPS

LawInv == TypeOK /\ VisibleIsDurable /\ AckedStaysVisible

\* What lies above v but is not next to it starts two above.
LEMMA AboveGap ==
  ASSUME NEW i \in Int, NEW v \in Nat, NEW d \in Nat, i > v, i # v + 1, i <= d
  PROVE  i \in (v + 2) .. d
  OBVIOUS

\* A longer prefix holds what a shorter one held.
LEMMA LongerPrefix ==
  ASSUME NEW v \in Nat, NEW w \in Nat, v <= w, NEW a, a \subseteq 1..v
  PROVE  a \subseteq 1..w
  OBVIOUS

\* Everything in the join lies above v and inside the durable prefix d.
LEMMA JoinRange ==
  ASSUME NEW v \in Nat, NEW d \in Nat, NEW r, r \subseteq (v + 2) .. d,
         NEW x, x \subseteq 1..d, NEW i \in r \cup {j \in x : j > v}
  PROVE  i \in Int /\ i > v /\ i <= d
  OBVIOUS

\* What is held above a gap is an index in range.
LEMMA JoinIndices ==
  ASSUME NEW v \in Nat, NEW d \in Nat, NEW m \in Nat, d <= m, NEW r,
         r \subseteq (v + 2) .. d
  PROVE  r \subseteq 1..m
  OBVIOUS

\* publish_ready_indices, given durable indices, publishes a longer durable prefix and
\* keeps back exactly what lies above the next gap.
LEMMA JoinKeeps ==
  ASSUME MaxIndex \in Nat, LawInv, NEW indices, indices \subseteq 1..durable, Join(indices)
  PROVE  /\ visible' \in visible .. durable
         /\ ready' \subseteq (visible' + 2) .. durable
<1> DEFINE all == ready \cup {i \in indices : i > visible}
<1>1. /\ durable \in Nat /\ visible \in Nat /\ visible <= durable
  BY DEF LawInv, TypeOK, VisibleIsDurable
<1>2. \A i \in all : i \in Int /\ i > visible /\ i <= durable
  <2>1. ready \subseteq (visible + 2) .. durable
    BY DEF LawInv, VisibleIsDurable
  <2> QED
    BY <1>1, <2>1, JoinRange
<1>3. /\ visible' \in visible .. MaxIndex
      /\ (visible + 1) .. visible' \subseteq all
      /\ visible' + 1 \notin all
      /\ ready' = {i \in all : i > visible'}
  BY DEF Join
<1> HIDE DEF all
<1>4. visible' \in Nat
  BY <1>1, <1>3
<1>5. visible' <= durable
  <2>1. CASE visible' = visible
    BY <2>1, <1>1
  <2>2. CASE visible' > visible
    <3>1. visible' \in (visible + 1) .. visible'
      BY <2>2, <1>1, <1>4
    <3> QED
      BY <3>1, <1>2, <1>3, <1>1, <1>4
  <2> QED
    BY <2>1, <2>2, <1>1, <1>3, <1>4
<1>6. ready' \subseteq (visible' + 2) .. durable
  <2> SUFFICES ASSUME NEW i \in ready' PROVE i \in (visible' + 2) .. durable
    OBVIOUS
  <2>1. i \in all /\ i > visible' /\ i # visible' + 1
    BY <1>3
  <2>2. i \in Int /\ i <= durable
    BY <2>1, <1>2
  <2> QED
    BY <2>1, <2>2, <1>1, <1>4, AboveGap
<1> QED
  BY <1>1, <1>3, <1>4, <1>5, <1>6

\* An engine that has committed nothing satisfies the invariant.
LEMMA LawInit ==
  ASSUME MaxIndex \in Nat
  PROVE  Init => LawInv
<1> SUFFICES ASSUME Init PROVE LawInv
  OBVIOUS
<1>1. gated \in BOOLEAN
  BY Zenon DEF Init
<1>2. /\ sequenced \in 0..MaxIndex /\ durable \in 0..sequenced /\ visible \in 0..MaxIndex
      /\ visible <= durable
  BY DEF Init
<1>3. ready = {} /\ acked = {}
  BY DEF Init
<1> QED
  BY <1>1, <1>2, <1>3, Zenon DEF LawInv, TypeOK, VisibleIsDurable, AckedStaysVisible

\* The arithmetic of a step that keeps the invariant.
Frontiers(s, d, r, v, a) ==
  /\ s \in Nat /\ d \in Nat /\ v \in Nat
  /\ v <= d /\ d <= s /\ s <= MaxIndex
  /\ a \subseteq 1..v /\ r \subseteq (v + 2) .. d

\* The invariant says no more and no less than that the frontiers are ordered.
LEMMA FrontiersAreTheInvariant ==
  ASSUME MaxIndex \in Nat
  PROVE  LawInv <=> Frontiers(sequenced, durable, ready, visible, acked) /\ gated \in BOOLEAN
<1>1. ASSUME LawInv PROVE Frontiers(sequenced, durable, ready, visible, acked)
  BY <1>1
     DEF LawInv, TypeOK, VisibleIsDurable, AckedStaysVisible, Frontiers
<1>2. ASSUME LawInv PROVE gated \in BOOLEAN
  BY <1>2, Zenon DEF LawInv, TypeOK
<1>3. ASSUME Frontiers(sequenced, durable, ready, visible, acked), gated \in BOOLEAN
      PROVE  LawInv
  <2>1. /\ sequenced \in 0..MaxIndex /\ durable \in 0..sequenced
        /\ visible \in 0..MaxIndex /\ ready \subseteq Indices /\ acked \subseteq Indices
        /\ visible <= durable
    BY <1>3 DEF Frontiers, Indices
  <2> QED
    BY <1>3, <2>1, Zenon
       DEF LawInv, TypeOK, VisibleIsDurable, AckedStaysVisible, Frontiers
<1> QED
  BY <1>1, <1>2, <1>3

\* Every step of the law keeps the invariant, a restart at any moment included.
LEMMA LawStep ==
  ASSUME MaxIndex \in Nat
  PROVE  LawInv /\ [Next]_vars => LawInv' /\ visible' >= visible
<1> SUFFICES ASSUME LawInv, [Next]_vars PROVE LawInv' /\ visible' >= visible
  OBVIOUS
<1> DEFINE Kept == Frontiers(sequenced', durable', ready', visible', acked')
<1>f. Frontiers(sequenced, durable, ready, visible, acked) /\ gated \in BOOLEAN
  BY FrontiersAreTheInvariant
<1>g. gated' \in BOOLEAN
  BY <1>f, Zenon DEF Next, Live, Sequence, Flush, Report, Acknowledge, GatePath,
                     SerializedCommit, Recover, vars
<1>1. ASSUME Sequence PROVE Kept /\ visible' >= visible
  BY <1>f, <1>1 DEF Sequence, Frontiers
<1>2. ASSUME Flush PROVE Kept /\ visible' >= visible
  BY <1>f, <1>2 DEF Flush, Frontiers
<1>3. ASSUME Report PROVE Kept /\ visible' >= visible
  <2>1. PICK indices \in SUBSET (1..durable) : Join(indices)
    BY <1>3 DEF Report
  <2>2. /\ visible' \in visible .. durable
        /\ ready' \subseteq (visible' + 2) .. durable
    BY <2>1, JoinKeeps, indices \subseteq 1..durable
  <2>3. UNCHANGED <<sequenced, durable, acked>>
    BY <1>3 DEF Report
  <2>4. visible \in Nat /\ visible' \in Nat /\ visible <= visible' /\ visible' <= durable
    BY <1>f, <2>2 DEF Frontiers
  <2>5. acked' \subseteq 1..visible'
    BY <1>f, <2>3, <2>4, LongerPrefix DEF Frontiers
  <2> QED
    BY <1>f, <2>2, <2>3, <2>4, <2>5 DEF Frontiers
<1>4. ASSUME Acknowledge PROVE Kept /\ visible' >= visible
  BY <1>f, <1>4 DEF Acknowledge, Frontiers
<1>5. ASSUME GatePath PROVE Kept /\ visible' >= visible
  BY <1>f, <1>5 DEF GatePath, Frontiers
<1>6. ASSUME SerializedCommit PROVE Kept /\ visible' >= visible
  <2>1. ready' = {}
    BY <1>f, <1>6 DEF SerializedCommit, Frontiers
  <2>2. /\ sequenced' \in Nat /\ durable' \in Nat /\ visible' \in Nat
        /\ visible' <= durable' /\ durable' <= sequenced' /\ sequenced' <= MaxIndex
        /\ visible' >= visible
    BY <1>f, <1>6 DEF SerializedCommit, Frontiers
  <2>3. acked' \subseteq 1..visible'
    <3>1. acked \subseteq 1..visible'
      BY <1>f, <2>2, LongerPrefix DEF Frontiers
    <3>2. CASE acked' = acked
      BY <3>1, <3>2
    <3>3. CASE acked' = acked \cup {visible'} /\ visible' = sequenced + 1
      <4>1. visible' \in 1..visible'
        BY <1>f, <3>3 DEF Frontiers
      <4> QED
        BY <3>1, <3>3, <4>1
    <3> QED
      BY <1>6, <3>2, <3>3 DEF SerializedCommit
  <2> QED
    BY <2>1, <2>2, <2>3 DEF Frontiers
<1>7. ASSUME Recover PROVE Kept /\ visible' >= visible
  <2>1. /\ sequenced' \in Nat /\ sequenced' <= MaxIndex /\ visible <= sequenced'
        /\ durable' = sequenced' /\ visible' = sequenced' /\ ready' = {} /\ acked' = acked
    BY <1>f, <1>7 DEF Recover, Frontiers
  <2>2. acked' \subseteq 1..visible'
    BY <1>f, <2>1, LongerPrefix DEF Frontiers
  <2> QED
    BY <1>f, <2>1, <2>2 DEF Frontiers
<1>8. ASSUME UNCHANGED vars PROVE Kept /\ visible' >= visible
  BY <1>f, <1>8 DEF vars, Frontiers
<1>9. Kept /\ visible' >= visible
  BY <1>1, <1>2, <1>3, <1>4, <1>5, <1>6, <1>7, <1>8 DEF Next, Live
<1>10. /\ sequenced' \in 0..MaxIndex /\ durable' \in 0..sequenced'
       /\ visible' \in 0..MaxIndex /\ ready' \subseteq Indices /\ acked' \subseteq Indices
       /\ visible' <= durable'
  <2>1. /\ sequenced' \in 0..MaxIndex /\ durable' \in 0..sequenced'
        /\ visible' \in 0..MaxIndex /\ visible' <= durable' /\ durable' <= MaxIndex
    BY <1>9 DEF Frontiers
  <2>2. ready' \subseteq Indices
    BY <1>9, <2>1, JoinIndices DEF Frontiers, Indices
  <2>3. acked' \subseteq Indices
    BY <1>9, <2>1 DEF Frontiers, Indices
  <2> QED
    BY <2>1, <2>2, <2>3
<1> QED
  BY <1>9, <1>10, <1>g, Zenon
     DEF LawInv, TypeOK, VisibleIsDurable, AckedStaysVisible, Frontiers

\* WAL before visibility and no lost acknowledgement, over any number of commits,
\* failures and restarts.
THEOREM LawSafety ==
  ASSUME MaxIndex \in Nat
  PROVE  Spec => [](TypeOK /\ VisibleIsDurable /\ AckedStaysVisible)
<1>1. Init => LawInv
  BY LawInit
<1>2. LawInv /\ [Next]_vars => LawInv'
  BY LawStep
<1> QED
  BY <1>1, <1>2, PTL DEF Spec, LawInv

\* The reader watermark never moves back, across restarts too.
THEOREM LawWatermark ==
  ASSUME MaxIndex \in Nat
  PROVE  Spec => WatermarkNeverRegresses
<1>1. LawInv /\ [Next]_vars => [WatermarkStep]_vars
  BY LawStep DEF WatermarkStep
<1>2. Spec => []LawInv
  BY LawSafety, PTL DEF LawInv
<1> QED
  BY <1>1, <1>2, PTL DEF Spec, WatermarkNeverRegresses
=============================================================================
