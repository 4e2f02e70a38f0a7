--------------------------- MODULE RaftReplicator ----------------------------
(***************************************************************************)
(* The quorum replicator (crates/replication/src/lib.rs): the methods of   *)
(* RaftReplicator as operators on the record of one node, and a cluster    *)
(* that calls them the way the drivers in crates/replication/examples do,  *)
(* over requests that are lost, delayed and repeated.                      *)
(*                                                                         *)
(* The Vec of entries is a function from index to entry.  A payload is the *)
(* node that proposed it, and so is the implicit self-ack of a proposal.   *)
(* The snapshot number is not modelled.                                    *)
(***************************************************************************)
EXTENDS Integers, FiniteSets

CONSTANTS Nodes,        \* the voters
          None,         \* voted_for: None
          MaxTerm,      \* bound on terms
          MaxIndex,     \* stands for u64::MAX, the index that is never claimed
          MaxEvents     \* bound on late requests, snapshots, demotions and restarts

ASSUME RaftAssumption ==
  /\ IsFiniteSet(Nodes) /\ Nodes # {} /\ None \notin Nodes
  /\ MaxTerm \in Nat \ {0} /\ MaxIndex \in Nat \ {0} /\ MaxEvents \in Nat

VARIABLES
  node,       \* the replicator of every voter
  requests,   \* append requests whose sender has given up, and which may still arrive
  ballot,     \* per candidate: the vote request and who granted it
  snapshots,  \* snapshot metas exported so far
  faults,     \* number of restarts and demotions
  forgotten,  \* terms in which a node restarted, and with it its vote was lost
  spliced,    \* whether a snapshot was put under committed entries it does not lead to
  left        \* per voter: the last term whose leader it no longer keeps entries for

vars == <<node, requests, ballot, snapshots, faults, forgotten, spliced, left>>

Terms == 0..MaxTerm
Indices == 0..MaxIndex
Entry == [term : Terms, payload : Nodes]

Quorum == Cardinality(Nodes) \div 2 + 1

\* RaftReplicator::new
New ==
  [term |-> 1, role |-> "Follower", next_index |-> 1, commit_index |-> 0,
   applied_index |-> 0, applied_term |-> 0, compacted_index |-> 0,
   compacted_term |-> 0, voted_for |-> None, entries |-> <<>>, ack_counts |-> <<>>]

NoBallot == [term |-> 0, last_index |-> 0, last_term |-> 0, granted |-> {}]

-----------------------------------------------------------------------------
(* One node.                                                                   *)

\* The community modules define these too, but every proof about this module would carry
\* their libraries.
Max(S) == CHOOSE x \in S : \A y \in S : y <= x
Min(S) == CHOOSE x \in S : \A y \in S : x <= y
Restrict(f, S) == [x \in S |-> f[x]]

LastOr(S, d) == IF S = {} THEN d ELSE Max(S)
Retain(f, S) == Restrict(f, DOMAIN f \cap S)

\* A fault: the tail is dropped and next_index stays behind it.
BecomeKeepsNext(r, role, t) ==
  LET newer == t > r.term IN
  [r EXCEPT !.term = Max({@, t}), !.role = role,
            !.voted_for = IF newer THEN None ELSE @,
            !.entries = Retain(@, 0..r.commit_index),
            !.ack_counts = <<>>]

\* become_follower, become_leader, become_candidate: the uncommitted tail is dropped.
Become(r, role, t) ==
  LET newer == t > r.term IN
  [r EXCEPT !.term = Max({@, t}), !.role = role,
            !.voted_for = IF newer THEN None ELSE @,
            !.entries = Retain(@, 0..r.commit_index),
            !.next_index = r.commit_index + 1,
            !.ack_counts = <<>>]

StartCandidateElection(r, id) ==
  [r EXCEPT !.term = @ + 1, !.role = "Candidate", !.voted_for = id, !.ack_counts = <<>>]

LastLogPosition(r) ==
  IF DOMAIN r.entries = {} THEN <<r.compacted_index, r.compacted_term>>
  ELSE <<Max(DOMAIN r.entries), r.entries[Max(DOMAIN r.entries)].term>>

CandidateLogIsUpToDate(r, last_index, last_term) ==
  LET last == LastLogPosition(r) IN
  last_term > last[2] \/ (last_term = last[2] /\ last_index >= last[1])

\* A newer candidate's term is taken over; the log is kept.
Observe(r, t) ==
  IF t <= r.term THEN r
  ELSE [r EXCEPT !.term = t, !.role = "Follower", !.voted_for = None, !.ack_counts = <<>>]

\* A fault: a vote already given is not looked at.
GrantsAgain(r, id, q) ==
  /\ q.term >= r.term
  /\ CandidateLogIsUpToDate(r, q.last_index, q.last_term)

\* request_vote_from_candidate
Grants(r, id, q) ==
  /\ q.term >= r.term
  /\ Observe(r, q.term).voted_for \in {None, id}
  /\ CandidateLogIsUpToDate(r, q.last_index, q.last_term)

AfterVoteRequest(r, id, q) ==
  IF Grants(r, id, q)
  THEN [Observe(r, q.term) EXCEPT !.voted_for = id, !.role = "Follower"]
  ELSE Observe(r, q.term)

\* A fault: the reserved maximum is claimed.
CanProposeToTheEnd(r) == r.role = "Leader" /\ r.next_index <= MaxIndex

\* propose
CanPropose(r) == r.role = "Leader" /\ r.next_index < MaxIndex

AfterPropose(r, id) ==
  LET extended == DOMAIN r.entries \cup {r.next_index}
      acked == DOMAIN r.ack_counts \cup {r.next_index}
  IN
  [r EXCEPT !.entries = [i \in extended |-> IF i = r.next_index
                                            THEN [term |-> r.term, payload |-> id]
                                            ELSE r.entries[i]],
            !.ack_counts = [i \in acked |-> IF i = r.next_index THEN {id}
                                            ELSE r.ack_counts[i]],
            !.commit_index = IF Quorum = 1 THEN r.next_index ELSE @,
            !.next_index = @ + 1]

\* term_at, as the set of the terms it finds
TermAt(r, i) ==
  CASE i = 0 -> {0}
    [] i # 0 /\ i = r.compacted_index -> {r.compacted_term}
    [] i > r.compacted_index /\ i \in DOMAIN r.entries -> {r.entries[i].term}
    [] i > r.compacted_index /\ i \notin DOMAIN r.entries /\ i = r.applied_index ->
         {r.applied_term}
    [] OTHER -> {}

\* The first part of append_entries_from_leader: the sender's term is not stale.
Follow(r, t) ==
  IF r.role # "Follower" \/ t > r.term THEN Become(r, "Follower", t) ELSE r

\* A fault: the previous entry only has to exist.
PrevExists(r, m) ==
  /\ m.prev_index >= r.compacted_index
  /\ TermAt(r, m.prev_index) # {}

PrevMatches(r, m) ==
  /\ m.prev_index >= r.compacted_index
  /\ m.prev_term \in TermAt(r, m.prev_index)

\* An entry both hold with different terms ends the common log.
Diverging(r, m) ==
  {i \in DOMAIN m.entries \cap DOMAIN r.entries : m.entries[i].term # r.entries[i].term}

\* A fault: a committed entry is replaced like any other.
MergeOverCommitted(r, m) ==
  \E i \in DOMAIN m.entries \cap DOMAIN r.entries :
    /\ m.entries[i].payload # r.entries[i].payload
    /\ \A k \in Diverging(r, m) : i < k

\* The merge stops with an error at a committed entry, or at an entry whose payload is
\* another one, unless the tail was cut below it.  Everything before it was there.
MergeFails(r, m) ==
  LET diverging == Diverging(r, m) IN
  \/ (diverging # {} /\ Min(diverging) <= r.commit_index)
  \/ \E i \in DOMAIN m.entries \cap DOMAIN r.entries :
       /\ m.entries[i].payload # r.entries[i].payload
       /\ \A k \in diverging : i < k

Accepts(r, m) ==
  /\ r.role # "Leader"
  /\ m.term >= r.term
  /\ LET s == Follow(r, m.term) IN
     /\ PrevMatches(s, m)
     /\ \A i \in DOMAIN m.entries : m.entries[i].term <= m.term
     /\ ~MergeFails(s, m)

\* A fault: an entry that diverges stays.
MergedKeepsOwn(r, m) ==
  [i \in DOMAIN r.entries \cup DOMAIN m.entries |->
     IF i \in DOMAIN r.entries THEN r.entries[i] ELSE m.entries[i]]

\* truncate_uncommitted_from the first diverging entry, push what is missing, sort
Merged(r, m) ==
  LET diverging == Diverging(r, m)
      kept == IF diverging = {} THEN DOMAIN r.entries
              ELSE {i \in DOMAIN r.entries : i < Min(diverging)}
  IN  [i \in kept \cup DOMAIN m.entries |->
         IF i \in kept THEN r.entries[i] ELSE m.entries[i]]

\* append_entries_from_leader, the whole of it
AfterAppend(r, m) ==
  LET s == Follow(r, m.term)
      log == Merged(s, m)
      last == LastOr(DOMAIN log, s.commit_index)
  IN
  IF r.role = "Leader" \/ m.term < r.term THEN r
  ELSE IF ~Accepts(r, m) THEN s
  ELSE [s EXCEPT !.entries = log,
                 !.ack_counts = Retain(@, {i \in Indices :
                                             \A k \in Diverging(s, m) : i < k}),
                 !.commit_index = Max({@, Min({m.commit, last})}),
                 !.next_index = last + 1]

\* register_follower_ack of every index of S in turn: the commit index moves over every
\* index a quorum holds.
RegisterAcks(r, S, id) ==
  LET counted == {i \in S \cap DOMAIN r.ack_counts : i < r.next_index}
      acks == [i \in DOMAIN r.ack_counts |->
                 IF i \in counted THEN r.ack_counts[i] \cup {id} ELSE r.ack_counts[i]]
      held == {k \in DOMAIN acks : Cardinality(acks[k]) >= Quorum}
      ahead == {k \in held : /\ k > r.commit_index
                             /\ (r.commit_index + 1)..k \subseteq held}
      commit == LastOr(ahead, r.commit_index)
  IN
  IF r.role # "Leader" \/ counted = {} THEN r
  ELSE [r EXCEPT !.commit_index = commit,
                 !.ack_counts = Restrict(acks, {k \in DOMAIN acks : k > commit})]

MarkApplied(r, i) ==
  [r EXCEPT !.applied_index = i, !.applied_term = r.entries[i].term]

SnapshotMeta(r) == [index |-> r.applied_index, term |-> r.applied_term]

\* The early return of install_snapshot is not taken.
Installs(r, s) ==
  \/ s.index > r.applied_index /\ s.term >= r.applied_term
  \/ s = SnapshotMeta(r)

\* retains_existing_suffix
Compatible(r, s) == s = SnapshotMeta(r) \/ s.term \in TermAt(r, s.index)

\* The entries that stay: every later one, or only the committed ones
KeptOver(r, s) ==
  {i \in DOMAIN r.entries : i > s.index /\ (Compatible(r, s) \/ i <= r.commit_index)}

\* install_snapshot
AfterInstall(r, s) ==
  LET commit == Max({r.commit_index, s.index}) IN
  IF ~Installs(r, s) THEN r
  ELSE [r EXCEPT
          !.term = Max({@, s.term}),
          !.commit_index = commit,
          !.compacted_index = Max({@, s.index}),
          !.compacted_term = IF s.index > r.compacted_index THEN s.term ELSE @,
          !.applied_index = s.index,
          !.applied_term = s.term,
          !.entries = Restrict(@, KeptOver(r, s)),
          !.ack_counts = IF Compatible(r, s) THEN Retain(@, (s.index + 1)..MaxIndex)
                         ELSE <<>>,
          !.next_index = LastOr(KeptOver(r, s), commit) + 1]

\* What stays does not continue what the snapshot holds.
Splices(r, s) == Installs(r, s) /\ ~Compatible(r, s) /\ KeptOver(r, s) # {}

\* recovery_state: what of a node a restart finds again
RecoveryEntries(r) == Retain(r.entries, (r.applied_index + 1)..r.commit_index)

\* resume_as_follower of recovery_state
Resumed(r) ==
  LET kept == RecoveryEntries(r)
      commit == LastOr(DOMAIN kept, r.applied_index)
  IN
  [New EXCEPT !.term = Max({r.term, r.applied_term}),
              !.commit_index = commit, !.next_index = commit + 1,
              !.applied_index = r.applied_index, !.applied_term = r.applied_term,
              !.compacted_index = r.applied_index, !.compacted_term = r.applied_term,
              !.entries = kept]

-----------------------------------------------------------------------------
(* The cluster.  One node was made leader of term 1 when it was set up.        *)

Init ==
  /\ \E leader \in Nodes :
       node = [n \in Nodes |-> IF n = leader THEN Become(New, "Leader", 1) ELSE New]
  /\ requests = {}
  /\ ballot = [n \in Nodes |-> NoBallot]
  /\ snapshots = {}
  /\ faults = 0
  /\ forgotten = {}
  /\ spliced = FALSE
  /\ left = [n \in Nodes |-> 0]

\* The bound on what disturbs a run
Eventful == Cardinality(requests) + Cardinality(snapshots) + faults < MaxEvents

Set(n, r) == node' = [node EXCEPT ![n] = r]

\* From now on the leaders of terms up to t have no claim to what n acknowledged.
Leave(n, t) == left' = [left EXCEPT ![n] = Max({@, t})]

\* Hearing a leader means to have left every earlier one.
Heard(n, m) ==
  IF node[n].role # "Leader" /\ m.term >= node[n].term THEN Leave(n, m.term - 1)
  ELSE UNCHANGED left

Propose(n) ==
  /\ CanPropose(node[n])
  /\ Set(n, AfterPropose(node[n], n))
  /\ UNCHANGED <<requests, ballot, snapshots, faults, forgotten, spliced, left>>

\* The requests a leader sends: its log after an index it knows the term of.  After its
\* last index that is a heartbeat.
Batches(n, to) ==
  LET r == node[n] IN
  {[to |-> to, term |-> r.term, prev_index |-> p,
    prev_term |-> CHOOSE t \in TermAt(r, p) : TRUE, commit |-> r.commit_index,
    entries |-> Retain(r.entries, (p + 1)..MaxIndex)] :
     p \in r.compacted_index..(r.next_index - 1)}

\* A leader sends a batch and waits for the answer: when the batch is accepted it
\* registers every entry.
SendAppend(n, to) ==
  LET r == node[to] IN
  /\ node[n].role = "Leader" /\ n # to
  /\ \E m \in Batches(n, to) :
       /\ node' = [node EXCEPT
            ![to] = AfterAppend(r, m),
            ![n] = IF Accepts(r, m)
                   THEN RegisterAcks(@, DOMAIN m.entries, to) ELSE @]
       /\ Heard(to, m)
  /\ UNCHANGED <<requests, ballot, snapshots, faults, forgotten, spliced>>

\* The sender gives up: the batch is still on its way, or its answer is lost.
TimeoutAppend(n, to) ==
  /\ node[n].role = "Leader" /\ n # to
  /\ Eventful
  /\ \E m \in Batches(n, to) : requests' = requests \cup {m}
  /\ UNCHANGED <<node, ballot, snapshots, faults, forgotten, spliced, left>>

\* It arrives, any number of times, and nobody waits for the answer.
LateAppend(m) ==
  /\ Set(m.to, AfterAppend(node[m.to], m))
  /\ Heard(m.to, m)
  /\ UNCHANGED <<requests, ballot, snapshots, faults, forgotten, spliced>>

\* apply_committed_entries, one entry
ApplyNext(n) ==
  LET drain == {i \in DOMAIN node[n].entries :
                  i > node[n].applied_index /\ i <= node[n].commit_index} IN
  /\ drain # {}
  /\ Set(n, MarkApplied(node[n], Min(drain)))
  /\ UNCHANGED <<requests, ballot, snapshots, faults, forgotten, spliced, left>>

StartElection(n) ==
  LET r == StartCandidateElection(node[n], n)
      last == LastLogPosition(r)
  IN
  /\ node[n].role # "Leader" /\ node[n].term < MaxTerm
  /\ Set(n, r)
  /\ ballot' = [ballot EXCEPT ![n] = [term |-> r.term, last_index |-> last[1],
                                      last_term |-> last[2], granted |-> {n}]]
  /\ UNCHANGED <<requests, snapshots, faults, forgotten, spliced, left>>

\* The candidate's driver is still collecting votes for the term it asked for.
Collecting(n) ==
  node[n].role = "Candidate" /\ ballot[n].term = node[n].term

\* A vote whose answer is lost is one the driver holds and never acts on.
AskVote(n, voter) ==
  /\ Collecting(n) /\ voter \notin ballot[n].granted
  /\ Set(voter, AfterVoteRequest(node[voter], n, ballot[n]))
  /\ ballot' = [ballot EXCEPT ![n].granted =
                  IF Grants(node[voter], n, ballot[n]) THEN @ \cup {voter} ELSE @]
  /\ UNCHANGED <<requests, snapshots, faults, forgotten, spliced, left>>

\* The driver promotes a candidate that a quorum voted for.
Promote(n) ==
  /\ Collecting(n) /\ Cardinality(ballot[n].granted) >= Quorum
  /\ Set(n, Become(node[n], "Leader", ballot[n].term))
  /\ ballot' = [ballot EXCEPT ![n] = NoBallot]
  /\ Leave(n, ballot[n].term - 1)
  /\ UNCHANGED <<requests, snapshots, faults, forgotten, spliced>>

\* An operator demotes a node.
StepDown(n, role) ==
  /\ Eventful
  /\ faults' = faults + 1
  /\ Set(n, Become(node[n], role, node[n].term))
  /\ ballot' = [ballot EXCEPT ![n] = NoBallot]
  /\ Leave(n, node[n].term)
  /\ UNCHANGED <<requests, snapshots, forgotten, spliced>>

ExportSnapshot(n) ==
  /\ node[n].applied_index > 0 /\ Eventful
  /\ snapshots' = snapshots \cup {SnapshotMeta(node[n])}
  /\ UNCHANGED <<node, requests, ballot, faults, forgotten, spliced, left>>

\* A leader installs its own snapshot to compact its log, any other node whichever
\* snapshot it is sent.
InstallSnapshot(n, s) ==
  /\ node[n].role = "Leader" => s = SnapshotMeta(node[n])
  /\ Set(n, AfterInstall(node[n], s))
  /\ spliced' = (spliced \/ Splices(node[n], s))
  /\ IF Installs(node[n], s) /\ ~Compatible(node[n], s) THEN Leave(n, node[n].term)
     ELSE UNCHANGED left
  /\ UNCHANGED <<requests, ballot, snapshots, faults, forgotten>>

\* The process stops and resumes from its recovery state, which holds no vote.
Restart(n) ==
  /\ Eventful
  /\ Set(n, Resumed(node[n]))
  /\ ballot' = [ballot EXCEPT ![n] = NoBallot]
  /\ faults' = faults + 1
  /\ forgotten' = forgotten \cup {node[n].term}
  /\ Leave(n, node[n].term)
  /\ UNCHANGED <<requests, snapshots, spliced>>

Next ==
  \/ \E n \in Nodes :
       \/ Propose(n) \/ ApplyNext(n) \/ StartElection(n) \/ Promote(n)
       \/ ExportSnapshot(n) \/ Restart(n)
       \/ \E role \in {"Follower", "Candidate"} : StepDown(n, role)
       \/ \E s \in snapshots : InstallSnapshot(n, s)
       \/ \E to \in Nodes : SendAppend(n, to) \/ TimeoutAppend(n, to)
       \/ \E voter \in Nodes : AskVote(n, voter)
  \/ \E m \in requests : LateAppend(m)

Spec == Init /\ [][Next]_vars

-----------------------------------------------------------------------------
LogOf(S) == UNION {[D -> S] : D \in SUBSET Indices}

Replicator ==
  [term : Terms, role : {"Leader", "Follower", "Candidate"}, next_index : Indices,
   commit_index : Indices, applied_index : Indices, applied_term : Terms,
   compacted_index : Indices, compacted_term : Terms, voted_for : Nodes \cup {None},
   entries : LogOf(Entry), ack_counts : LogOf(SUBSET Nodes)]

Request ==
  [to : Nodes, term : Terms, prev_index : Indices, prev_term : Terms, commit : Indices,
   entries : LogOf(Entry)]

Ballot ==
  [term : Terms, last_index : Indices, last_term : Terms, granted : SUBSET Nodes]

\* Every variable has its type: no index or term leaves its range.
TypeOK ==
  /\ node \in [Nodes -> Replicator]
  /\ requests \subseteq Request
  /\ ballot \in [Nodes -> Ballot]
  /\ snapshots \subseteq [index : Indices, term : Terms]
  /\ faults \in 0..MaxEvents /\ forgotten \subseteq Terms /\ spliced \in BOOLEAN
  /\ left \in [Nodes -> Terms]

\* The three assertions of the replicator, in progress(), recovery_progress() and
\* status_snapshot(), hold in every state: the frontiers are ordered, the live log is
\* every index from the compacted one to next_index and no other, so that what a restart
\* would find is contiguous up to the same commit index, in terms the node has reached.
ProgressHolds ==
  \A n \in Nodes : LET r == node[n] IN
    /\ r.compacted_index <= r.applied_index /\ r.applied_index <= r.commit_index
    /\ r.commit_index < r.next_index
    /\ DOMAIN r.entries = (r.compacted_index + 1)..(r.next_index - 1)
    /\ \A i \in DOMAIN r.entries : r.entries[i].term <= r.term
    /\ r.applied_term <= r.term

\* Two nodes lead in one term only if a voter restarted in that term and voted again:
\* the vote is not part of the recovery state.
OneLeaderPerTerm ==
  \A n, m \in Nodes :
    /\ node[n].role = "Leader" /\ node[m].role = "Leader"
    /\ node[n].term = node[m].term /\ node[n].term \notin forgotten
    => n = m

\* Two logs that agree on the term of an index hold the same payload there and agree on
\* everything both retain below it, whatever was truncated, compacted, sent late or sent
\* twice.  Follower repair relies on it when it compares one previous entry.  The two
\* exceptions are the code's: a term that may have had two leaders, because a voter lost
\* its vote in that or an earlier term, and a log whose committed suffix was kept on top
\* of a snapshot of another history.
LogMatching ==
  ~spliced =>
    \A n, m \in Nodes : \A i \in DOMAIN node[n].entries \cap DOMAIN node[m].entries :
      /\ node[n].entries[i].term = node[m].entries[i].term
      /\ \A t \in forgotten : t > node[n].entries[i].term
      => \A k \in DOMAIN node[n].entries \cap DOMAIN node[m].entries :
           k <= i => node[n].entries[k] = node[m].entries[k]

HoldsSame(q, r, i) == i \in DOMAIN q.entries /\ q.entries[i] = r.entries[i]

\* When a leader moves its commit index over an entry, a quorum holds that very entry, not
\* just an entry at that index, or consists of voters that held it and have since left
\* the leader's term: register_follower_ack counts voters by index, keeps an
\* acknowledgement for as long as it leads, and never asks again.  A voter that has left
\* may have dropped the entry, so the entry can be committed on fewer than a quorum.  A
\* term in which a voter lost its vote may have two leaders, whose logs the later terms
\* inherit: those are excluded.
QuorumHoldsCommitted ==
  [][\A n \in Nodes : LET r == node[n] s == node'[n] IN
       r.role = "Leader" /\ s.role = "Leader" /\ (\A t \in forgotten : t > r.term) =>
         \A i \in (r.commit_index + 1)..s.commit_index :
           Quorum <= Cardinality({m \in Nodes : \/ HoldsSame(node'[m], s, i)
                                                \/ left'[m] >= s.term})]_vars

SameAt(r, s, i) ==
  /\ TermAt(s, i) = TermAt(r, i)
  /\ i \in DOMAIN r.entries \cap DOMAIN s.entries => s.entries[i] = r.entries[i]

\* The log was compacted up to an entry of its own.
CompactedUnder(r, s, i) ==
  i < s.compacted_index /\ s.compacted_term \in TermAt(r, s.compacted_index)

\* A snapshot newer than what was applied has taken the place of everything up to it.
SupersededAt(r, s, i) ==
  /\ i <= s.compacted_index /\ s.compacted_index > r.applied_index
  /\ [index |-> s.compacted_index, term |-> s.compacted_term] \in snapshots

\* What a node has committed it never commits otherwise: the commit and the applied index
\* never move back, and every committed position keeps its entry or lies under a boundary
\* that the log itself contained.  Late and repeated appends, role changes and restarts
\* keep to this without exception.  The one exception is install_snapshot: it compares an
\* advancing snapshot with the applied term only, so a snapshot of another history takes
\* the place of committed and even of applied entries.
CommittedIsFinal ==
  [][\A n \in Nodes : LET r == node[n] s == node'[n] IN
       /\ s.commit_index >= r.commit_index /\ s.applied_index >= r.applied_index
       /\ \A i \in 1..r.commit_index :
            SameAt(r, s, i) \/ CompactedUnder(r, s, i) \/ SupersededAt(r, s, i)]_vars
=============================================================================
