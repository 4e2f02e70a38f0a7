--------------------------- MODULE LocalReplicator ---------------------------
(***************************************************************************)
(* The single-node replicator (crates/replication/src/local.rs).  It hands *)
(* out commit indices, keeps the log between the applied prefix and the    *)
(* last proposal, and issues reservations: tokens for the slot that the    *)
(* next proposal will take.  The Vec of entries is a function from index   *)
(* to entry; its order is the order of the indices.                        *)
(***************************************************************************)
EXTENDS Naturals, FiniteSets

CONSTANTS MaxIndex,      \* stands for u64::MAX, the index that is never claimed
          MaxTerm,       \* bound on terms
          MaxReservations \* bound on tokens outstanding at a time

ASSUME LocalReplicatorAssumption ==
  /\ MaxIndex \in Nat \ {0}
  /\ MaxTerm \in Nat \ {0}
  /\ MaxReservations \in Nat

VARIABLES term, next_index, commit_index, applied_index, applied_term, role,
          entries,       \* index -> term of the retained entry
          reservations   \* tokens issued and not yet consumed

vars == <<term, next_index, commit_index, applied_index, applied_term, role,
          entries, reservations>>

Roles == {"Leader", "Follower", "Candidate"}
Terms == 0..MaxTerm
Indices == 0..MaxIndex

\* A token.  It carries the generation it was issued at, and the replicator's own
\* generation only grows: "current" says that the two are still equal.
Reservation ==
  [owner : {"own", "foreign"}, next : Indices, len : Nat, term : Terms,
   commit : Indices, current : BOOLEAN]

\* LocalReplicator::leader()
Init ==
  /\ term = 1
  /\ next_index = 1
  /\ commit_index = 0
  /\ applied_index = 0
  /\ applied_term = 0
  /\ role = "Leader"
  /\ entries = [i \in {} |-> 0]
  /\ reservations = {}

-----------------------------------------------------------------------------
Max2(a, b) == IF a >= b THEN a ELSE b
Min2(a, b) == IF a <= b THEN a ELSE b

\* Vec::retain on the index of an entry
Retain(keep) == [i \in keep |-> entries[i]]

\* entries.last(), or d when there is none
LastOr(S, d) == IF S = {} THEN d ELSE CHOOSE i \in S : \A j \in S : j <= i

SaturatingSucc(i) == Min2(i + 1, MaxIndex)

\* The generation moves: no token of R is current any more.
Invalidated(R) == {[r EXCEPT !.current = FALSE] : r \in R}
Invalidate == reservations' = Invalidated(reservations)

\* become_follower, become_leader, become_candidate
Become(r, t) ==
  /\ term' = Max2(term, t)
  /\ role' = r
  /\ Invalidate
  /\ UNCHANGED <<next_index, commit_index, applied_index, applied_term, entries>>

\* entry_at: the position of index i is its distance from the first entry
EntryAt(i) ==
  LET first == CHOOSE f \in DOMAIN entries : \A j \in DOMAIN entries : f <= j
      At(pos) == CHOOSE k \in DOMAIN entries :
                   Cardinality({j \in DOMAIN entries : j < k}) = pos
  IN  IF \/ DOMAIN entries = {}
         \/ i < first
         \/ i - first >= Cardinality(DOMAIN entries)
      THEN {}
      ELSE {At(i - first)}

MarkApplied(i) ==
  LET bounded == Min2(i, commit_index) IN
  /\ bounded > applied_index
  /\ applied_index' = bounded
  /\ \/ \E k \in EntryAt(bounded) : applied_term' = entries[k]
     \/ EntryAt(bounded) = {} /\ applied_term' = applied_term
  /\ Invalidate
  /\ UNCHANGED <<term, next_index, commit_index, role, entries>>

CompactAppliedPrefix ==
  /\ entries' = Retain({i \in DOMAIN entries : i > applied_index})
  /\ Invalidate
  /\ UNCHANGED <<term, next_index, commit_index, applied_index, applied_term, role>>

Push(n) ==
  entries' = [i \in DOMAIN entries \cup next_index..(next_index + n - 1) |->
                IF i >= next_index THEN term ELSE entries[i]]

\* A fault: the last index of the batch may be the reserved maximum.
ProposeBatchToTheEnd(n) ==
  /\ role = "Leader"
  /\ next_index + n - 1 <= MaxIndex
  /\ Push(n)
  /\ next_index' = next_index + n
  /\ commit_index' = next_index + n - 1
  /\ Invalidate
  /\ UNCHANGED <<term, applied_index, applied_term, role>>

\* propose_batch of n > 0 payloads.  An empty batch, a follower, and a batch that
\* would claim MaxIndex change nothing.
ProposeBatch(n) ==
  /\ role = "Leader"
  /\ next_index + n <= MaxIndex
  /\ Push(n)
  /\ next_index' = next_index + n
  /\ commit_index' = next_index + n - 1
  /\ Invalidate
  /\ UNCHANGED <<term, applied_index, applied_term, role>>

\* propose: the same for one payload
Propose == ProposeBatch(1)

Token(owner) ==
  [owner |-> owner, next |-> next_index, len |-> Cardinality(DOMAIN entries),
   term |-> term, commit |-> commit_index, current |-> TRUE]

ReserveNextProposal ==
  /\ role = "Leader"
  /\ next_index < MaxIndex
  /\ Cardinality(reservations) < MaxReservations
  /\ reservations' = reservations \cup {Token("own")}
  /\ UNCHANGED <<term, next_index, commit_index, applied_index, applied_term, role,
                 entries>>

\* A caller of another replicator, which stands at the same frontier.
ForeignReservation ==
  /\ Cardinality(reservations) < MaxReservations
  /\ reservations' = reservations \cup {Token("foreign")}
  /\ UNCHANGED <<term, next_index, commit_index, applied_index, applied_term, role,
                 entries>>

\* Everything the token binds but the generation; the capacity is not modelled.
FrontierMatches(r) ==
  /\ r.next = next_index
  /\ r.len = Cardinality(DOMAIN entries)
  /\ r.term = term
  /\ r.commit = commit_index

Accepts(r) ==
  /\ role = "Leader"
  /\ r.owner = "own"
  /\ FrontierMatches(r)
  /\ r.current

\* propose_reserved of a token it accepts
ProposeReserved(r) ==
  /\ Accepts(r)
  /\ Push(1)
  /\ next_index' = next_index + 1
  /\ commit_index' = next_index
  /\ reservations' = Invalidated(reservations \ {r})
  /\ UNCHANGED <<term, applied_index, applied_term, role>>

\* propose_reserved of a token it refuses: the token is consumed all the same.
RefuseReserved(r) ==
  /\ ~Accepts(r)
  /\ reservations' = reservations \ {r}
  /\ UNCHANGED <<term, next_index, commit_index, applied_index, applied_term, role,
                 entries>>

\* An unused token is dropped.
AbandonReservation(r) ==
  /\ reservations' = reservations \ {r}
  /\ UNCHANGED <<term, next_index, commit_index, applied_index, applied_term, role,
                 entries>>

\* A fault: after the rollback the next index is left where it was.
RollbackKeepsNext(i) ==
  LET keep == {j \in DOMAIN entries : j < i} IN
  /\ i > applied_index
  /\ entries' = Retain(keep)
  /\ commit_index' = LastOr(keep, applied_index)
  /\ Invalidate
  /\ UNCHANGED <<term, next_index, applied_index, applied_term, role>>

\* A fault: the commit index keeps naming what was rolled back.
RollbackKeepsCommit(i) ==
  LET keep == {j \in DOMAIN entries : j < i} IN
  /\ i > applied_index
  /\ entries' = Retain(keep)
  /\ next_index' = SaturatingSucc(LastOr(keep, applied_index))
  /\ Invalidate
  /\ UNCHANGED <<term, commit_index, applied_index, applied_term, role>>

RollbackUnappliedFrom(i) ==
  LET keep == {j \in DOMAIN entries : j < i} IN
  /\ i > applied_index
  /\ entries' = Retain(keep)
  /\ commit_index' = LastOr(keep, applied_index)
  /\ next_index' = SaturatingSucc(commit_index')
  /\ Invalidate
  /\ UNCHANGED <<term, applied_index, applied_term, role>>

\* The number of the snapshot is not modelled, so only the generation moves.
ExportSnapshotMeta ==
  /\ Invalidate
  /\ UNCHANGED <<term, next_index, commit_index, applied_index, applied_term, role,
                 entries>>

\* install_snapshot of a meta that some replicator exported: its index is one that
\* was claimed, so it is below MaxIndex.
InstallSnapshot(index, t) ==
  LET advances == index > applied_index
      same == index = applied_index /\ t = applied_term
      keep == {j \in DOMAIN entries : j > index}
      commit == Max2(commit_index, index)
  IN
  /\ advances => t >= applied_term
  /\ advances \/ same
  /\ term' = Max2(term, t)
  /\ commit_index' = commit
  /\ applied_index' = Max2(applied_index, index)
  /\ applied_term' = t
  /\ entries' = Retain(keep)
  /\ next_index' = SaturatingSucc(LastOr(keep, commit))
  /\ Invalidate
  /\ UNCHANGED <<role>>

\* The position of a retained entry in the Vec
Position(i) == Cardinality({j \in DOMAIN entries : j < i})

\* drain_committed_from: the indices of the slice it yields.  The bounds are computed from
\* the first entry's index and no entry is compared.
DrainCommittedFrom(start) ==
  LET first == CHOOSE f \in DOMAIN entries : \A j \in DOMAIN entries : f <= j
      end == Min2(commit_index - first + 1, Cardinality(DOMAIN entries))
      begin == Min2(Max2(start + 1, first) - first, end)
  IN
  IF DOMAIN entries = {} \/ commit_index < first THEN {}
  ELSE {i \in DOMAIN entries : begin <= Position(i) /\ Position(i) < end}

Next ==
  \/ \E r \in Roles, t \in 1..MaxTerm : Become(r, t)
  \/ \E i \in Indices : MarkApplied(i) \/ RollbackUnappliedFrom(i)
  \/ CompactAppliedPrefix
  \/ Propose
  \/ \E n \in 2..MaxIndex : ProposeBatch(n)
  \/ ReserveNextProposal
  \/ ForeignReservation
  \/ \E r \in reservations : 
       ProposeReserved(r) \/ RefuseReserved(r) \/ AbandonReservation(r)
  \/ ExportSnapshotMeta
  \/ \E i \in 0..(MaxIndex - 1), t \in Terms : InstallSnapshot(i, t)

Spec == Init /\ [][Next]_vars

-----------------------------------------------------------------------------
\* Every field has its type.
TypeOK ==
  /\ term \in 1..MaxTerm
  /\ next_index \in Indices
  /\ commit_index \in Indices
  /\ applied_index \in Indices
  /\ applied_term \in Terms
  /\ role \in Roles
  /\ DOMAIN entries \subseteq Indices
  /\ \A i \in DOMAIN entries : entries[i] \in Terms
  /\ reservations \subseteq Reservation

\* The retained log is one interval that ends at the commit index, and the next
\* proposal takes the index after it: entry_at may map an index to a position
\* ("log must stay contiguous in index"), and no sequence of proposals, roll-backs,
\* compactions and snapshots reuses or skips an index.
LogIsContiguous ==
  /\ next_index = commit_index + 1
  /\ \A i \in DOMAIN entries : i..commit_index \subseteq DOMAIN entries
  /\ \A i \in DOMAIN entries : i <= commit_index

\* Everything committed and not applied can still be drained: neither compaction nor
\* a snapshot drops an entry the state machine has not seen.
NothingUnappliedIsLost ==
  DrainCommittedFrom(applied_index) = (applied_index + 1)..commit_index

\* The generation covers the frontier: a token of this replicator whose generation is
\* current still names the exact next slot, so a stale slot is never replayed.
GenerationCoversDrift ==
  \A r \in reservations :
    r.owner = "own" /\ r.current => FrontierMatches(r)

\* No step takes back an applied index: a roll-back stops above the applied frontier
\* and an older snapshot is refused.
AppliedNeverRegresses == [][applied_index' >= applied_index]_vars
=============================================================================
