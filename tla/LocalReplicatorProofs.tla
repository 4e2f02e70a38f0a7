------------------------ MODULE LocalReplicatorProofs ------------------------
(***************************************************************************)
(* Proofs about the single-node replicator, for every index space, every   *)
(* number of terms and every number of outstanding tokens.                 *)
(***************************************************************************)
EXTENDS LocalReplicator, FiniteSetTheorems, TLAPS

\* The retained log is the interval from f to the commit index.
RetainedFrom(f) == DOMAIN entries = f..commit_index

\* A token that is still current names the next slot; and a token this replicator
\* issued names a slot below the reserved maximum, which propose_reserved relies on.
TokensHold ==
  /\ GenerationCoversDrift
  /\ \A r \in reservations : r.owner = "own" => r.next < MaxIndex

\* The inductive invariant: the log is one interval up to the commit index that reaches
\* down to the applied index, and current tokens name the next slot.
IInv ==
  /\ TypeOK
  /\ next_index = commit_index + 1
  /\ applied_index <= commit_index
  /\ \E f \in 0..(applied_index + 1) : RetainedFrom(f)
  /\ TokensHold

-----------------------------------------------------------------------------
\* invalidate_proposal_reservations: every token stays a token, and none is current.
LEMMA InvalidatedTokens ==
  ASSUME NEW R \in SUBSET Reservation
  PROVE  /\ Invalidated(R) \subseteq Reservation
         /\ \A r \in Invalidated(R) :
              ~r.current /\ \E q \in R : r.owner = q.owner /\ r.next = q.next
  BY Zenon DEF Invalidated, Reservation

\* The number of retained entries is a natural number.
LEMMA RetainedCount ==
  ASSUME TypeOK
  PROVE  Cardinality(DOMAIN entries) \in Nat
  <1>1. IsFiniteSet(Indices)
    BY LocalReplicatorAssumption, FS_Interval DEF Indices
  <1>2. IsFiniteSet(DOMAIN entries)
    BY <1>1, FS_Subset DEF TypeOK
  <1> QED BY <1>2, FS_CardinalityType

\* saturating_add does not saturate below the reserved maximum.
LEMMA SuccIsExact ==
  ASSUME NEW i \in Nat, i < MaxIndex
  PROVE  SaturatingSucc(i) = i + 1 /\ i + 1 \in Indices
  BY LocalReplicatorAssumption DEF SaturatingSucc, Min2, Indices

\* entries.last() of an interval is its upper end.
LEMMA LastOfInterval ==
  ASSUME NEW a \in Nat, NEW b \in Nat, NEW d
  PROVE  LastOr(a..b, d) = IF a <= b THEN b ELSE d
  <1>1. CASE a <= b
    <2>1. b \in a..b /\ \A j \in a..b : j <= b
      BY <1>1
    <2>2. \A i \in a..b : (\A j \in a..b : j <= i) => i = b
      BY <2>1
    <2> QED BY <1>1, <2>1, <2>2 DEF LastOr
  <1>2. CASE ~(a <= b)
    BY <1>2 DEF LastOr
  <1> QED BY <1>1, <1>2

\* In an interval, the position of an index is its distance from the lower end.
LEMMA PositionInInterval ==
  ASSUME NEW a \in Nat, NEW b \in Nat, NEW k \in a..b
  PROVE  Cardinality({j \in a..b : j < k}) = k - a
  <1>1. {j \in a..b : j < k} = a..(k - 1)
    OBVIOUS
  <1>2. Cardinality(a..(k - 1)) = IF a > k - 1 THEN 0 ELSE (k - 1) - a + 1
    <2>1. k - 1 \in Int
      OBVIOUS
    <2> QED BY <2>1, FS_Interval
  <1>3. (IF a > k - 1 THEN 0 ELSE (k - 1) - a + 1) = k - a
    OBVIOUS
  <1> QED BY Zenon, <1>1, <1>2, <1>3

\* entry_at computes a position and never compares indices.  On a log that is one
\* interval it returns the entry of that index, and nothing when there is none.
LEMMA EntryAtOfInterval ==
  ASSUME NEW f \in Nat, NEW c \in Nat, DOMAIN entries = f..c, NEW i \in Nat
  PROVE  EntryAt(i) = {i} \cap DOMAIN entries
  <1> DEFINE first == CHOOSE g \in DOMAIN entries : \A j \in DOMAIN entries : g <= j
             At(pos) == CHOOSE k \in DOMAIN entries :
                          Cardinality({j \in DOMAIN entries : j < k}) = pos
  <1>1. CASE f > c
    <2>1. DOMAIN entries = {}
      BY <1>1
    <2> QED BY Zenon, <2>1 DEF EntryAt
  <1>2. CASE f <= c
    <2>1. first = f
      <3>1. f \in f..c /\ \A j \in f..c : f <= j
        BY <1>2
      <3>2. \A g \in f..c : (\A j \in f..c : g <= j) => g = f
        BY <3>1
      <3> QED BY <3>1, <3>2
    <2>2. Cardinality(DOMAIN entries) = c - f + 1
      BY <1>2, FS_Interval
    <2>3. DOMAIN entries # {}
      <3>1. f \in f..c
        BY <1>2
      <3> QED BY Zenon, <3>1
    <2>4. \A k \in DOMAIN entries :
            Cardinality({j \in DOMAIN entries : j < k}) = k - f
      BY PositionInInterval
    <2>5. ASSUME i \in f..c
          PROVE  At(i - f) = i
      <3>1. \A k \in f..c : k - f = i - f => k = i
        BY <2>5
      <3> HIDE DEF At
      <3>2. /\ At(i - f) \in DOMAIN entries
            /\ Cardinality({j \in DOMAIN entries : j < At(i - f)}) = i - f
        BY Zenon, <2>4, <2>5 DEF At
      <3> QED BY <3>1, <3>2, <2>4
    <2>6. CASE i \in f..c
      <3> HIDE DEF first, At
      <3>1. ~(i < first) /\ ~(i - first >= Cardinality(DOMAIN entries))
        <4>1. ~(i < f) /\ ~(i - f >= c - f + 1)
          BY <2>6
        <4> QED BY ONLY <2>1, <2>2, <4>1
      <3>2. EntryAt(i) = {At(i - first)}
        BY Zenon, <2>3, <3>1 DEF EntryAt, first, At
      <3> QED BY <2>1, <2>5, <2>6, <3>2
    <2>7. CASE i \notin f..c
      <3> HIDE DEF first
      <3>1. i < first \/ i - first >= Cardinality(DOMAIN entries)
        <4>1. i < f \/ i - f >= c - f + 1
          BY <1>2, <2>7
        <4> QED BY ONLY <2>1, <2>2, <4>1
      <3>2. EntryAt(i) = {}
        BY Zenon, <3>1 DEF EntryAt, first
      <3> QED BY <2>7, <3>2
    <2> QED BY <2>6, <2>7
  <1> QED BY <1>1, <1>2

\* drain_committed_from computes the bounds of a slice.  On a log that is one interval up
\* to the commit index the slice holds the indices after start, and no other.
LEMMA DrainOfInterval ==
  ASSUME NEW f \in Nat, commit_index \in Nat, DOMAIN entries = f..commit_index,
         NEW start \in Nat
  PROVE  DrainCommittedFrom(start) = {i \in DOMAIN entries : i > start}
  <1> DEFINE first == CHOOSE g \in DOMAIN entries : \A j \in DOMAIN entries : g <= j
             end == Min2(commit_index - first + 1, Cardinality(DOMAIN entries))
             begin == Min2(Max2(start + 1, first) - first, end)
  <1>1. CASE f > commit_index
    <2>1. DOMAIN entries = {}
      BY <1>1
    <2> QED BY Zenon, <2>1 DEF DrainCommittedFrom
  <1>2. CASE f <= commit_index
    <2>1. first = f
      <3>1. f \in f..commit_index /\ \A j \in f..commit_index : f <= j
        BY <1>2
      <3>2. \A g \in f..commit_index : (\A j \in f..commit_index : g <= j) => g = f
        BY <3>1
      <3> QED BY Zenon, <3>1, <3>2
    <2>2. Cardinality(DOMAIN entries) = commit_index - f + 1
      BY <1>2, FS_Interval
    <2>3. \A k \in DOMAIN entries : Position(k) = k - f
      BY Zenon, PositionInInterval DEF Position
    <2>4. DOMAIN entries # {} /\ ~(commit_index < first)
      <3>1. f \in f..commit_index
        BY <1>2
      <3>2. ~(commit_index < f)
        BY <1>2
      <3> QED BY Zenon, <2>1, <3>1, <3>2
    <2>5. DrainCommittedFrom(start) =
            {i \in DOMAIN entries : begin <= Position(i) /\ Position(i) < end}
      BY Zenon, <2>4 DEF DrainCommittedFrom
    <2> HIDE DEF first
    <2>6. end = commit_index - f + 1
      BY <1>2, <2>1, <2>2 DEF Min2
    <2> HIDE DEF end
    <2>7. \A i \in f..commit_index : begin <= i - f /\ i - f < end <=> i > start
      BY <1>2, <2>1, <2>6 DEF Min2, Max2
    <2> HIDE DEF begin
    <2>8. \A i \in DOMAIN entries :
            begin <= Position(i) /\ Position(i) < end <=> i > start
      BY Zenon, <2>3, <2>7
    <2> QED BY Zenon, <2>5, <2>8
  <1> QED BY <1>1, <1>2

-----------------------------------------------------------------------------
\* What the invariant says about the counters.
LEMMA Counters ==
  ASSUME IInv
  PROVE  /\ MaxIndex \in Nat /\ MaxTerm \in Nat
         /\ commit_index \in Nat /\ applied_index \in Nat /\ term \in 1..MaxTerm
         /\ applied_index <= commit_index /\ commit_index < MaxIndex
         /\ next_index = commit_index + 1
  BY LocalReplicatorAssumption DEF IInv, TypeOK, Indices

\* A step that moves the generation needs no token to be looked at.
LEMMA InvalidateKeeps ==
  ASSUME IInv, Invalidate
  PROVE  reservations' \subseteq Reservation /\ TokensHold'
  <1>1. reservations \in SUBSET Reservation
    BY DEF IInv, TypeOK
  <1>2. /\ reservations' \subseteq Reservation
        /\ \A r \in reservations' :
             ~r.current /\ \E q \in reservations : r.owner = q.owner /\ r.next = q.next
    BY <1>1, InvalidatedTokens DEF Invalidate
  <1> QED BY <1>2 DEF IInv, TokensHold, GenerationCoversDrift

\* What is kept of the log keeps its terms.
LEMMA RetainTypes ==
  ASSUME IInv, NEW keep \in SUBSET DOMAIN entries, entries' = Retain(keep)
  PROVE  /\ DOMAIN entries' = keep
         /\ DOMAIN entries' \subseteq Indices
         /\ \A i \in DOMAIN entries' : entries'[i] \in Terms
  <1>1. DOMAIN entries' = keep /\ \A i \in keep : entries'[i] = entries[i]
    BY DEF Retain
  <1> QED BY <1>1 DEF IInv, TypeOK

\* become_follower, become_leader and become_candidate only raise the term.
LEMMA BecomeKeeps ==
  ASSUME IInv, NEW r \in Roles, NEW t \in 1..MaxTerm, Become(r, t)
  PROVE  IInv'
  <1>1. Invalidate
    BY DEF Become
  <1>2. reservations' \subseteq Reservation /\ TokensHold'
    BY <1>1, InvalidateKeeps
  <1>3. term' \in 1..MaxTerm
    BY Counters DEF Become, Max2
  <1>4. TypeOK'
    BY <1>2, <1>3 DEF Become, IInv, TypeOK
  <1> QED BY <1>2, <1>4 DEF Become, IInv, RetainedFrom

\* mark_applied moves the applied frontier up to the commit index at most, and finds
\* the entry whose term it records.
LEMMA MarkAppliedKeeps ==
  ASSUME IInv, NEW i \in Indices, MarkApplied(i)
  PROVE  IInv'
  <1> DEFINE bounded == Min2(i, commit_index)
  <1>1. Invalidate
    BY DEF MarkApplied
  <1>2. reservations' \subseteq Reservation /\ TokensHold'
    BY <1>1, InvalidateKeeps
  <1>3. bounded \in Indices /\ bounded <= commit_index
    BY Counters DEF Min2, Indices
  <1>4. PICK f \in 0..(applied_index + 1) : RetainedFrom(f)
    BY DEF IInv
  <1>5. EntryAt(bounded) \subseteq DOMAIN entries
    <2>1. f \in Nat /\ commit_index \in Nat /\ bounded \in Nat
      BY <1>3, Counters DEF Indices
    <2> HIDE DEF bounded
    <2> QED BY <1>4, <2>1, EntryAtOfInterval DEF RetainedFrom
  <1>6. applied_term' \in Terms
    BY <1>5 DEF MarkApplied, IInv, TypeOK
  <1>7. TypeOK'
    BY <1>2, <1>3, <1>6 DEF MarkApplied, IInv, TypeOK
  <1>8. f \in 0..(applied_index' + 1)
    BY <1>3, <1>4, Counters DEF MarkApplied, Indices
  <1>9. RetainedFrom(f)'
    BY <1>4 DEF MarkApplied, RetainedFrom
  <1>10. next_index' = commit_index' + 1 /\ applied_index' <= commit_index'
    BY <1>3 DEF MarkApplied, IInv
  <1> QED BY <1>2, <1>7, <1>8, <1>9, <1>10 DEF IInv

\* compact_applied_prefix keeps exactly what is not applied.
LEMMA CompactKeeps ==
  ASSUME IInv, CompactAppliedPrefix
  PROVE  IInv'
  <1> DEFINE keep == {i \in DOMAIN entries : i > applied_index}
  <1>1. Invalidate
    BY DEF CompactAppliedPrefix
  <1>2. reservations' \subseteq Reservation /\ TokensHold'
    BY <1>1, InvalidateKeeps
  <1>3. PICK f \in 0..(applied_index + 1) : RetainedFrom(f)
    BY DEF IInv
  <1>4. keep = (applied_index + 1)..commit_index
    BY <1>3, Counters DEF RetainedFrom
  <1>5. /\ DOMAIN entries' = keep
        /\ DOMAIN entries' \subseteq Indices
        /\ \A i \in DOMAIN entries' : entries'[i] \in Terms
    BY RetainTypes DEF CompactAppliedPrefix
  <1>6. TypeOK'
    BY <1>2, <1>5 DEF CompactAppliedPrefix, IInv, TypeOK
  <1>7. RetainedFrom(applied_index + 1)'
    BY Zenon, <1>4, <1>5 DEF CompactAppliedPrefix, RetainedFrom
  <1>8. applied_index + 1 \in 0..(applied_index' + 1) /\ applied_index' = applied_index
    BY Counters DEF CompactAppliedPrefix
  <1>9. next_index' = commit_index' + 1 /\ applied_index' <= commit_index'
    BY DEF CompactAppliedPrefix, IInv
  <1> QED BY <1>2, <1>6, <1>7, <1>8, <1>9 DEF IInv, RetainedFrom

\* A push of n entries extends the interval by n indices.
LEMMA PushExtends ==
  ASSUME IInv, NEW n \in Nat \ {0}, next_index + n <= MaxIndex, Push(n),
         commit_index' = next_index + n - 1, applied_index' = applied_index
  PROVE  /\ DOMAIN entries' \subseteq Indices
         /\ \A i \in DOMAIN entries' : entries'[i] \in Terms
         /\ commit_index' \in Indices
         /\ applied_index' <= commit_index'
         /\ \E f \in 0..(applied_index' + 1) : RetainedFrom(f)'
  <1>1. PICK f \in 0..(applied_index + 1) : RetainedFrom(f)
    BY DEF IInv
  <1>2. /\ DOMAIN entries' = DOMAIN entries \cup next_index..(next_index + n - 1)
        /\ \A i \in DOMAIN entries' :
             entries'[i] = IF i >= next_index THEN term ELSE entries[i]
    BY DEF Push
  <1>3. DOMAIN entries' = f..commit_index'
    <2>1. f..commit_index \cup (commit_index + 1)..(commit_index + n) = f..(commit_index + n)
      BY <1>1, Counters
    <2>2. commit_index' = commit_index + n
      BY Counters
    <2> QED BY <1>1, <1>2, <2>1, <2>2, Counters DEF RetainedFrom
  <1>4. commit_index' \in Indices /\ applied_index' <= commit_index'
    BY Counters DEF Indices
  <1>5. DOMAIN entries' \subseteq Indices
    BY <1>1, <1>3, <1>4, Counters DEF Indices
  <1>6. ASSUME NEW i \in DOMAIN entries'
        PROVE  entries'[i] \in Terms
    <2>1. CASE i >= next_index
      <3>1. term \in Terms
        BY Counters DEF Terms
      <3> QED BY <1>2, <1>6, <2>1, <3>1
    <2>2. CASE ~(i >= next_index)
      <3>1. i \in DOMAIN entries
        BY <1>2, <1>6, <2>2, Counters
      <3> QED BY <1>2, <1>6, <2>2, <3>1 DEF IInv, TypeOK
    <2> QED BY <2>1, <2>2
  <1>7. f \in 0..(applied_index' + 1) /\ RetainedFrom(f)'
    BY <1>1, <1>3 DEF RetainedFrom
  <1> QED BY <1>4, <1>5, <1>6, <1>7

\* propose_batch, and propose as a batch of one.
LEMMA ProposeBatchKeeps ==
  ASSUME IInv, NEW n \in 1..MaxIndex, ProposeBatch(n)
  PROVE  IInv'
  <1>1. Invalidate
    BY DEF ProposeBatch
  <1>2. reservations' \subseteq Reservation /\ TokensHold'
    BY <1>1, InvalidateKeeps
  <1>3. /\ DOMAIN entries' \subseteq Indices
        /\ \A i \in DOMAIN entries' : entries'[i] \in Terms
        /\ commit_index' \in Indices
        /\ applied_index' <= commit_index'
        /\ \E f \in 0..(applied_index' + 1) : RetainedFrom(f)'
    <2>1. n \in Nat \ {0}
      BY Counters
    <2> QED BY <2>1, PushExtends DEF ProposeBatch
  <1>4. next_index' \in Indices /\ next_index' = commit_index' + 1
    BY Counters DEF ProposeBatch, Indices
  <1>5. TypeOK'
    BY <1>2, <1>3, <1>4 DEF ProposeBatch, IInv, TypeOK
  <1> QED BY <1>2, <1>3, <1>4, <1>5 DEF IInv

\* reserve_next_proposal, and a token of another replicator, which is not this one's.
LEMMA TokenKeeps ==
  ASSUME IInv, NEW owner \in {"own", "foreign"},
         owner = "own" => next_index < MaxIndex,
         reservations' = reservations \cup {Token(owner)},
         UNCHANGED <<term, next_index, commit_index, applied_index, applied_term, role,
                     entries>>
  PROVE  IInv'
  <1>1. Token(owner) \in Reservation
    <2>1. TypeOK /\ Cardinality(DOMAIN entries) \in Nat
      BY RetainedCount DEF IInv
    <2>2. term \in Terms
      BY Counters DEF Terms
    <2> QED BY <2>1, <2>2 DEF Token, Reservation, TypeOK
  <1>2. TypeOK'
    BY <1>1 DEF IInv, TypeOK
  <1>3. FrontierMatches(Token(owner))'
    BY DEF FrontierMatches, Token
  <1>4. \A r \in reservations : FrontierMatches(r) => FrontierMatches(r)'
    BY DEF FrontierMatches
  <1>5. GenerationCoversDrift'
    <2>1. Token(owner)' = Token(owner)
      BY DEF Token
    <2> QED BY <1>3, <1>4, <2>1 DEF IInv, TokensHold, GenerationCoversDrift
  <1>6. Token(owner).owner = owner /\ Token(owner).next = next_index
    BY DEF Token
  <1>7. \A r \in reservations' : r.owner = "own" => r.next < MaxIndex
    BY <1>6 DEF IInv, TokensHold
  <1>8. TokensHold'
    BY <1>5, <1>7 DEF TokensHold
  <1> QED BY <1>2, <1>8 DEF IInv, RetainedFrom

\* A token that is refused or dropped leaves the others as they were.
LEMMA DropTokenKeeps ==
  ASSUME IInv, NEW r \in reservations, reservations' = reservations \ {r},
         UNCHANGED <<term, next_index, commit_index, applied_index, applied_term, role,
                     entries>>
  PROVE  IInv'
  <1>1. TypeOK'
    BY DEF IInv, TypeOK
  <1>2. \A q \in reservations : FrontierMatches(q) => FrontierMatches(q)'
    BY DEF FrontierMatches
  <1>3. TokensHold'
    BY <1>2 DEF IInv, TokensHold, GenerationCoversDrift
  <1> QED BY <1>1, <1>3 DEF IInv, RetainedFrom

\* propose_reserved does not test the reserved maximum again: the token's slot is the
\* next one, and it was below the maximum when the token was issued.
LEMMA ProposeReservedKeeps ==
  ASSUME IInv, NEW r \in reservations, ProposeReserved(r)
  PROVE  IInv'
  <1>1. r.owner = "own" /\ r.next = next_index
    BY DEF ProposeReserved, Accepts, FrontierMatches
  <1>2. next_index < MaxIndex
    BY <1>1 DEF IInv, TokensHold
  <1>3. reservations \ {r} \in SUBSET Reservation
    BY DEF IInv, TypeOK
  <1>4. /\ reservations' \subseteq Reservation
        /\ \A p \in reservations' :
             ~p.current /\ \E q \in reservations \ {r} : p.owner = q.owner /\ p.next = q.next
    BY <1>3, InvalidatedTokens DEF ProposeReserved
  <1>5. TokensHold'
    BY <1>4 DEF IInv, TokensHold, GenerationCoversDrift
  <1>6. /\ next_index + 1 <= MaxIndex /\ commit_index' = next_index + 1 - 1
        /\ next_index' \in Indices /\ next_index' = commit_index' + 1
    BY <1>2, Counters DEF ProposeReserved, Indices
  <1>7. /\ DOMAIN entries' \subseteq Indices
        /\ \A i \in DOMAIN entries' : entries'[i] \in Terms
        /\ commit_index' \in Indices
        /\ applied_index' <= commit_index'
        /\ \E f \in 0..(applied_index' + 1) : RetainedFrom(f)'
    BY <1>6, PushExtends DEF ProposeReserved
  <1>8. TypeOK'
    BY Zenon, <1>4, <1>6, <1>7 DEF ProposeReserved, IInv, TypeOK
  <1> QED BY <1>5, <1>6, <1>7, <1>8 DEF IInv

\* rollback_unapplied_from ends the log just before i, or leaves it where it ends: the
\* cut lies above the applied frontier, so the log still reaches down to it.
LEMMA RollbackKeeps ==
  ASSUME IInv, NEW i \in Indices, RollbackUnappliedFrom(i)
  PROVE  IInv'
  <1> DEFINE keep == {j \in DOMAIN entries : j < i}
             last == Min2(i - 1, commit_index)
  <1>1. Invalidate
    BY DEF RollbackUnappliedFrom
  <1>2. reservations' \subseteq Reservation /\ TokensHold'
    BY <1>1, InvalidateKeeps
  <1>3. PICK f \in 0..(applied_index + 1) : RetainedFrom(f)
    BY DEF IInv
  <1>4. i \in Nat /\ i > applied_index /\ i <= MaxIndex
    BY Counters DEF RollbackUnappliedFrom, Indices
  <1>5. last \in Nat /\ applied_index <= last /\ last <= commit_index
    BY <1>4, Counters DEF Min2
  <1>6. keep = f..last
    BY <1>3, <1>4, Counters DEF RetainedFrom, Min2
  <1>7. /\ DOMAIN entries' = keep
        /\ DOMAIN entries' \subseteq Indices
        /\ \A j \in DOMAIN entries' : entries'[j] \in Terms
    BY RetainTypes DEF RollbackUnappliedFrom
  <1>8. commit_index' = LastOr(keep, applied_index)
    BY DEF RollbackUnappliedFrom
  <1> HIDE DEF keep, last
  <1>9. commit_index' = last
    <2>1. f \in Nat /\ f <= applied_index + 1
      BY <1>3, Counters
    <2>2. LastOr(f..last, applied_index) = IF f <= last THEN last ELSE applied_index
      BY <1>5, <2>1, LastOfInterval
    <2>3. ~(f <= last) => last = applied_index
      BY <1>5, <2>1, Counters
    <2> QED BY <1>6, <1>8, <2>2, <2>3
  <1>10. next_index' = commit_index' + 1 /\ next_index' \in Indices
    <2>1. last < MaxIndex
      BY <1>5, Counters
    <2>2. SaturatingSucc(last) = last + 1 /\ last + 1 \in Indices
      BY <1>5, <2>1, SuccIsExact
    <2>3. next_index' = SaturatingSucc(commit_index')
      BY DEF RollbackUnappliedFrom
    <2> QED BY <1>9, <2>2, <2>3
  <1>11. commit_index' \in Indices /\ applied_index' <= commit_index'
    BY <1>5, <1>9, Counters DEF RollbackUnappliedFrom, Indices
  <1>12. TypeOK'
    BY <1>2, <1>7, <1>10, <1>11 DEF RollbackUnappliedFrom, IInv, TypeOK
  <1>13. f \in 0..(applied_index' + 1) /\ RetainedFrom(f)'
    BY <1>3, <1>6, <1>7, <1>9 DEF RollbackUnappliedFrom, RetainedFrom
  <1> QED BY <1>2, <1>10, <1>11, <1>12, <1>13 DEF IInv

\* install_snapshot leaves the log above the snapshot, and the applied frontier at it.
LEMMA InstallSnapshotKeeps ==
  ASSUME IInv, NEW index \in 0..(MaxIndex - 1), NEW t \in Terms,
         InstallSnapshot(index, t)
  PROVE  IInv' /\ applied_index' >= applied_index
  <1> DEFINE keep == {j \in DOMAIN entries : j > index}
             commit == Max2(commit_index, index)
  <1>1. Invalidate
    BY DEF InstallSnapshot
  <1>2. reservations' \subseteq Reservation /\ TokensHold'
    BY <1>1, InvalidateKeeps
  <1>3. PICK f \in 0..(applied_index + 1) : RetainedFrom(f)
    BY DEF IInv
  <1>4. index \in Nat /\ applied_index <= index /\ index < MaxIndex
    BY Counters DEF InstallSnapshot
  <1>5. applied_index' = index /\ commit_index' = commit
    BY <1>4, Counters DEF InstallSnapshot, Max2
  <1>6. commit \in Nat /\ index <= commit /\ commit < MaxIndex
    BY <1>4, Counters DEF Max2
  <1>7. keep = (index + 1)..commit_index
    BY <1>3, <1>4, Counters DEF RetainedFrom
  <1>8. (index + 1)..commit_index = (index + 1)..commit
    BY <1>4, Counters DEF Max2
  <1>9. /\ DOMAIN entries' = keep
        /\ DOMAIN entries' \subseteq Indices
        /\ \A j \in DOMAIN entries' : entries'[j] \in Terms
    BY RetainTypes DEF InstallSnapshot
  <1>10. next_index' = SaturatingSucc(LastOr(keep, commit))
    BY DEF InstallSnapshot
  <1>11. term' \in 1..MaxTerm
    BY Counters DEF InstallSnapshot, Max2, Terms
  <1> HIDE DEF keep, commit
  <1>12. LastOr(keep, commit) = commit
    <2>1. index + 1 \in Nat
      BY <1>4
    <2>2. LastOr((index + 1)..commit, commit) = commit
      BY <1>6, <2>1, LastOfInterval
    <2> QED BY <1>7, <1>8, <2>2
  <1>13. next_index' = commit + 1 /\ next_index' \in Indices
    BY <1>6, <1>10, <1>12, SuccIsExact
  <1>14. commit_index' \in Indices /\ applied_index' \in Indices
    BY <1>4, <1>5, <1>6, Counters DEF Indices
  <1>15. TypeOK'
    BY <1>2, <1>9, <1>11, <1>13, <1>14 DEF InstallSnapshot, IInv, TypeOK
  <1>16. index + 1 \in 0..(applied_index' + 1) /\ RetainedFrom(index + 1)'
    <2>1. index + 1 \in 0..(applied_index' + 1)
      BY <1>4, <1>5
    <2>2. index' = index
      OBVIOUS
    <2> QED BY <1>5, <1>7, <1>8, <1>9, <2>1, <2>2 DEF RetainedFrom
  <1>17. applied_index' <= commit_index' /\ applied_index' >= applied_index
    BY <1>4, <1>5, <1>6, Counters
  <1> QED BY <1>2, <1>5, <1>13, <1>15, <1>16, <1>17 DEF IInv, RetainedFrom

-----------------------------------------------------------------------------
\* IInv holds at the start.
LEMMA InitHolds == Init => IInv
  <1> SUFFICES ASSUME Init PROVE IInv
    OBVIOUS
  <1>1. DOMAIN entries = {} /\ reservations = {}
    BY DEF Init
  <1>2. TypeOK
    BY <1>1, LocalReplicatorAssumption DEF Init, TypeOK, Indices, Terms, Roles
  <1>3. DOMAIN entries = 1..commit_index
    BY <1>1 DEF Init
  <1>4. 1 \in 0..(applied_index + 1) /\ RetainedFrom(1)
    BY <1>3 DEF Init, RetainedFrom
  <1>5. TokensHold
    BY <1>1 DEF TokensHold, GenerationCoversDrift
  <1>6. next_index = commit_index + 1 /\ applied_index <= commit_index
    BY DEF Init
  <1> QED BY <1>2, <1>4, <1>5, <1>6 DEF IInv

\* Every operation of the replicator preserves IInv and the applied frontier.
LEMMA StepKeeps ==
  ASSUME IInv, Next
  PROVE  IInv' /\ applied_index' >= applied_index
  <1>1. ASSUME NEW r \in Roles, NEW t \in 1..MaxTerm, Become(r, t)
        PROVE  IInv' /\ applied_index' >= applied_index
    BY <1>1, BecomeKeeps, Counters DEF Become
  <1>2. ASSUME NEW i \in Indices, MarkApplied(i)
        PROVE  IInv' /\ applied_index' >= applied_index
    <2>1. applied_index' > applied_index /\ applied_index' \in Nat
      BY <1>2, Counters DEF MarkApplied, Min2, Indices
    <2>2. applied_index' >= applied_index
      BY <2>1, Counters
    <2> QED BY <1>2, <2>2, MarkAppliedKeeps
  <1>3. ASSUME NEW i \in Indices, RollbackUnappliedFrom(i)
        PROVE  IInv' /\ applied_index' >= applied_index
    BY <1>3, RollbackKeeps, Counters DEF RollbackUnappliedFrom
  <1>4. CASE CompactAppliedPrefix
    BY <1>4, CompactKeeps, Counters DEF CompactAppliedPrefix
  <1>5. ASSUME NEW n \in 1..MaxIndex, ProposeBatch(n)
        PROVE  IInv' /\ applied_index' >= applied_index
    BY <1>5, ProposeBatchKeeps, Counters DEF ProposeBatch
  <1>6. CASE ReserveNextProposal
    BY <1>6, TokenKeeps, Counters DEF ReserveNextProposal
  <1>7. CASE ForeignReservation
    BY <1>7, TokenKeeps, Counters DEF ForeignReservation
  <1>8. ASSUME NEW r \in reservations, ProposeReserved(r)
        PROVE  IInv' /\ applied_index' >= applied_index
    BY <1>8, ProposeReservedKeeps, Counters DEF ProposeReserved
  <1>9. ASSUME NEW r \in reservations, RefuseReserved(r) \/ AbandonReservation(r)
        PROVE  IInv' /\ applied_index' >= applied_index
    BY <1>9, DropTokenKeeps, Counters DEF RefuseReserved, AbandonReservation
  <1>10. CASE ExportSnapshotMeta
    <2>1. reservations' \subseteq Reservation /\ TokensHold'
      BY <1>10, InvalidateKeeps DEF ExportSnapshotMeta
    <2>2. IInv'
      BY <1>10, <2>1 DEF ExportSnapshotMeta, IInv, TypeOK, RetainedFrom
    <2> QED BY <1>10, <2>2, Counters DEF ExportSnapshotMeta
  <1>11. ASSUME NEW i \in 0..(MaxIndex - 1), NEW t \in Terms, InstallSnapshot(i, t)
         PROVE  IInv' /\ applied_index' >= applied_index
    BY <1>11, InstallSnapshotKeeps
  <1>12. CASE Propose
    <2>1. 1 \in 1..MaxIndex
      BY LocalReplicatorAssumption
    <2> QED BY <1>5, <1>12, <2>1 DEF Propose
  <1>13. ASSUME NEW n \in 2..MaxIndex, ProposeBatch(n)
         PROVE  IInv' /\ applied_index' >= applied_index
    <2>1. n \in 1..MaxIndex
      BY LocalReplicatorAssumption
    <2> QED BY <1>5, <1>13, <2>1
  <1> QED
    BY <1>1, <1>2, <1>3, <1>4, <1>6, <1>7, <1>8, <1>9, <1>10, <1>11, <1>12, <1>13
    DEF Next

\* What the invariant says of the log.
LEMMA InvariantOfLog ==
  ASSUME IInv
  PROVE  LogIsContiguous /\ NothingUnappliedIsLost
  <1>1. PICK f \in 0..(applied_index + 1) : RetainedFrom(f)
    BY DEF IInv
  <1>2. LogIsContiguous
    BY <1>1, Counters DEF LogIsContiguous, RetainedFrom
  <1>3. NothingUnappliedIsLost
    <2>1. DrainCommittedFrom(applied_index) = {i \in DOMAIN entries : i > applied_index}
      <3>1. f \in Nat /\ commit_index \in Nat /\ applied_index \in Nat
        BY <1>1, Counters
      <3> QED BY Zenon, <1>1, <3>1, DrainOfInterval DEF RetainedFrom
    <2>2. {i \in DOMAIN entries : i > applied_index} = (applied_index + 1)..commit_index
      BY <1>1, Counters DEF RetainedFrom
    <2> QED BY Zenon, <2>1, <2>2 DEF NothingUnappliedIsLost
  <1> QED BY <1>2, <1>3

\* IInv holds in every state of the replicator.
LEMMA InvariantHolds == Spec => []IInv
  <1>1. IInv /\ UNCHANGED vars => IInv'
    BY DEF vars, IInv, TypeOK, RetainedFrom, TokensHold, GenerationCoversDrift,
           FrontierMatches
  <1>2. IInv /\ [Next]_vars => IInv'
    BY <1>1, StepKeeps
  <1> QED BY <1>2, InitHolds, PTL DEF Spec

\* The retained log of local.rs is always one interval that ends at the commit index,
\* and next_index follows it: for every index space and any order of proposals, reserved
\* proposals, roll-backs, compactions, role changes and snapshots.
THEOREM ReplicatorLogIsSound == Spec => []LogIsContiguous
  <1>1. IInv => LogIsContiguous
    BY InvariantOfLog
  <1> QED BY <1>1, InvariantHolds, PTL

\* All that is committed and not applied can be drained by drain_committed_from: neither
\* compaction nor a snapshot drops an entry the state machine has not seen.
THEOREM ReplicatorLosesNothing == Spec => []NothingUnappliedIsLost
  <1>1. IInv => NothingUnappliedIsLost
    BY InvariantOfLog
  <1> QED BY <1>1, InvariantHolds, PTL

\* entry_at's subtraction always lands on the entry of the index asked for, and misses
\* only when no such entry is retained.
THEOREM ReplicatorEntryAtIsExact ==
  Spec => [](\A i \in Indices : EntryAt(i) = {i} \cap DOMAIN entries)
  <1>1. IInv => \A i \in Indices : EntryAt(i) = {i} \cap DOMAIN entries
    <2> SUFFICES ASSUME IInv, NEW i \in Indices
                 PROVE  EntryAt(i) = {i} \cap DOMAIN entries
      OBVIOUS
    <2>1. PICK f \in 0..(applied_index + 1) : RetainedFrom(f)
      BY DEF IInv
    <2>2. f \in Nat /\ commit_index \in Nat /\ i \in Nat
      BY <2>1, Counters DEF Indices
    <2> QED BY <2>1, <2>2, EntryAtOfInterval DEF RetainedFrom
  <1> QED BY <1>1, InvariantHolds, PTL

\* A token whose generation is current names the exact next slot: propose_reserved
\* accepts no slot that was taken, rolled back or overtaken since it was reserved.
THEOREM ReplicatorTokensAreExact == Spec => []GenerationCoversDrift
  <1>1. IInv => GenerationCoversDrift
    BY DEF IInv, TokensHold
  <1> QED BY <1>1, InvariantHolds, PTL

\* No operation takes back an applied index.
THEOREM ReplicatorAppliedIsMonotone == Spec => AppliedNeverRegresses
  <1>1. IInv /\ [Next]_vars => [applied_index' >= applied_index]_vars
    BY StepKeeps
  <1> QED BY <1>1, InvariantHolds, PTL DEF Spec, AppliedNeverRegresses
=============================================================================
