# Thunderbolt-db: TLA+ models and proofs

TLA+ models of Thunderbolt-db, TLC configurations that check them on small
instances, and TLAPS proofs that hold for every instance. Paths are relative to
the repository root; `engine/` stands for `crates/engine/src/`.

## The system

Thunderbolt-db is a PostgreSQL-compatible OLTP database whose relational work runs
on a GPU. The host sequences transactions, writes the WAL and decides what is
visible. What can go wrong between threads is concentrated in that host part.

| Part | State | Operations |
|---|---|---|
| Transaction table, `crates/txn` | id counter, state per id, active count, queue of terminal ids | begin, begin with a given id, commit, rollback, cancel |
| Commit waves, `engine/engine_dml_concurrent*` | item queue, election flag, wedge, pending tails, counters of tails handed, applied and finished | enqueue, self-promotion, sequence a wave, gate, hand over, claim and finish a tail, fail everything pending |
| Group flush, `wait_group_durable` | flusher flag, sticky failure, durable frontier | wait, become flusher, flush a bounded group |
| Publication coordinator, `engine/engine_commit_coordinator.rs` | `visible_next`, ready indices, tails started and finished | report indices, register and finish a tail, quiesce, require coverage |
| Serialized commits (DDL, COPY, explicit COMMIT), `engine/engine_commit.rs` | none of their own | enter after quiescence, append, flush, apply, publish |
| Intent lanes, `engine/engine_dml_concurrent/lane.rs` | claim registry, lane queues, hold queue, active lanes, population count | admit, route, validate, commit a lane wave, resize |
| Checkpoint, `engine/engine_wal_archive.rs` | checkpoint segment, control file | probe the size bound, rotate |
| WAL, `crates/wal`, `crates/write_conveyor` | records, flushed frontier, live segment, tail-offset sidecar | append, begin and commit a group flush, truncate, recover |
| Local replicator, `crates/replication/src/local.rs` | log, commit and apply cursors, reservations | propose, reserve, roll back, apply, compact, install a snapshot |
| Raft replicator, `crates/replication/src/lib.rs` | the same per voter, term, vote, acknowledgements | elect, append, acknowledge, apply, snapshot, resume |
| Batcher, `crates/batching` | pending entries, deadline | enqueue, flush, requeue |

SQL, planner, catalog, GPU execution, residency, server, facade and protocol sit
above or below this. They are listed in `PROJECT.json` with the reason each is not
modelled.

How the parts interact: a client enqueues an item. Some client promotes itself to
sequencer, drains the queue and runs a wave under the commit mutex: assign indices,
append WAL records, apply. The wave's tail (wait for durability, publish,
acknowledge) goes to a pipeline, and any waiting client may claim it. A lane does
the same for its own waves, finishing its tail inline. Both report their indices to
one join that moves the reader watermark only by contiguous prefix. A serialized
commit first waits until no tail of either kind is unfinished. Any failure after
the WAL gates the whole path until restart.

The hard behaviours: tails finish out of order; a finisher helps with other tails
while it waits; waiters sleep on condition variables whose notifiers sometimes hold
no lock; failure drains run while other threads hold items and tails; a panic
unwinds through nested finishers; a crash can fall anywhere.

What correct means: nothing is visible before it is durable; nothing is acknowledged
before it is visible; no gap is published; a crash takes back no acknowledgement;
every caller gets an answer.

## Modules

| Module | Models |
|---|---|
| `TxnManager`, `MCTxnManager`, `TxnManagerProofs` | `crates/txn/src/lib.rs` |
| `PublicationLaw`, `PublicationLawProofs` | what the commit path promises, with crashes and recovery |
| `CommitPath`, `MCCommitPath` | commit waves, tails, group flush, join, lane tails, serialized claimants, non-blocking pump, checkpoint entrance |
| `IntentLanes`, `MCIntentLanes` | admission, routing, pump and resize of the lanes, against classic writers |
| `LocalReplicator`, `LocalReplicatorProofs` | `crates/replication/src/local.rs` |
| `DurableLog`, `MCDurableLog` | WAL, rotation, crash and reopen, composed with the replicator |
| `RaftReplicator`, `MCRaft` | `RaftReplicator` and a cluster of them |

**TxnManager** has one action per operation. A missing map entry is the state
`"none"`. The id space and the retention window are constants.

**PublicationLaw** is the abstract specification. Its variables are the sequenced,
durable and visible frontiers, the reported indices held above a gap, the
acknowledged indices and the gate. `Recover` stands for a crash at any point followed
by replay: everything flushed survives, and perhaps some records only appended.

**CommitPath** keeps the code's variable names. Processes are clients (one blocking
DML statement each), lanes (one lane wave each), claimants (one serialized commit
each) and drivers (one call of the non-blocking `drive_commit_wave` each: a pending
tail, or the sequencer's duty with an outcome nobody sets). `pc` is the place in the thread's own loop, one label per lock acquisition or
atomic access that matters. A thread finishing tails has a stack of frames, because
`wait_until_publication_covers` finishes other tails recursively. A frame's plan
lists the steps it still has to do, so each failure path is a different plan.

- A critical section is one step. The exception is a condition-variable wait: the
  last check (`doze_*`) and the sleep (`sleep_*`) are separate steps, since some
  notifiers do not take the waiter's lock. While a thread dozes it holds the queue
  lock, which `QueueFree` expresses. One dozing in
  `wait_publication_tail_quiescence` holds the join's lock.
- `wait_group_durable` sleepers are modelled by a disabled step. Flusher and waiters
  use the same lock, so no wake-up can be lost there.
- The wait inside `wait_until_publication_covers` has a 1 ms timeout, so it is a loop
  that needs no wake-up.
- The outcome of validating a statement is a choice: rejected or committed. Faults
  are a choice too, enabled by the constant `Faults`: `fixed` (a structured
  durability fault), `compat` (any other flush error, which panics) and `apply` (an
  apply that fails after its record was appended).
- One record is appended per commit index, so an index is also a WAL position.
- Queue drains on failure are two steps, items then tails, as in the code.
- Some neighbouring statements are merged into one step: dropping a tail and counting
  it at a refused hand-over; taking, failing and counting the pending tails in a
  drain; and setting several outcomes.

**IntentLanes** follows an intent from admission to its answer. `at` is where the
intent is; a claim of its transaction id is held from admission to its outcome. The
order of the two atomics in `submit_lane_intent` (count, then check the barrier) and of
the resize leader's steps is kept, because the barrier's argument is about that order.
A lane's pump validates off the commit mutex (`Form`) and again under it (`Cut`); a
classic writer may commit in between. What the device answers is computed from the
log, except that it may give no verdict at all (`MissingVerdicts`). The tail is short
here, since `CommitPath` has it in full: a commit becomes ready and is visible once
everything before it is.

**LocalReplicator** has one action per mutating method. The log is a function from
index to term. A reservation carries the generation it was taken in.

**DurableLog** extends `LocalReplicator` and runs both it and the WAL under one commit
mutex, as the engine does: propose, append, then flush and apply (serial), or apply
and flush later (wave, lane, typed). The disk is what a reopen reads: live segment,
checkpoint segment, control file and sidecar. Rotation has one step for each point
where a crash leaves a different disk. A crash keeps every synced record and some
prefix of the others; of the sidecar, whose rename is not synced, it keeps the last
value, an earlier one or none. `Open` is the whole of `open_durable_wal_segment_auto`.

**RaftReplicator** has the methods of one node as operators on its record, and a
cluster in which they are called as in `crates/replication/examples`: a leader sends a
batch of everything after an index, registers the answers, candidates collect votes and
are promoted by their driver. A batch given up by its sender may arrive later, any
number of times. A restart resumes from `recovery_state`. The environment keeps two
rules the code does not enforce: only the winner of an election is made leader (after
the first one, which is set up), and a leader installs only its own snapshot, since
`install_snapshot` raises the term without stepping down.

Definitions with a comment about a fault just before an action (such as
`HighestReady` before `NextGap`) are deliberately wrong variants. They are never part
of `Next`; each shows that a property can fail.

## Runs

| Run | Instance | Shows |
|---|---|---|
| `txn_manager` | ids to 5, window of 2 | the transaction table's books are exact and a verdict is final |
| `commit_waves` | 3 clients, or 2 clients and a claimant, or a client, a lane and a claimant; waves of up to 2, depth 2, `compat` and `apply` faults | WAL before visibility, acknowledgement after visibility, no gap, tails counted once, one sequencer, a bounded pipeline, complete quiescence, no coverage gap, and `CommitPath` implements `PublicationLaw!LiveSpec` |
| `commit_liveness` | 2 clients, a claimant, waves of up to 2, `fixed` and `apply` faults, checkpoint at idle | every caller returns with an outcome; WAL before visibility and tails counted once, across the gated path and the checkpoint |
| `lane_liveness` | a client, with 2 lanes or with a lane and a driver, `fixed` and `compat` faults | the same with lanes and the non-blocking pump |
| `intent_lanes` | 2 intents and a classic writer on one key, one of them a retry; 2 lanes, 2 resizes | first committer wins, one lane per key, a transaction commits once, exact books, true outcomes, every intent answered |
| `durable_log` | 5 records, every kind of commit, failed flushes and rotations, any number of crashes | WAL and replicator in lock-step, flushed records recoverable at every point, no reported commit lost, replay never refuses |
| `raft_cluster` | 3 voters, 2 terms, 2 entries, one disturbance | the replicator's assertions, one leader per term, log matching, what a node committed stays |
| `raft_quorum` | 5 voters, 2 terms, one entry, elections at any time | whoever makes up the quorum of a commit holds the entry or has left the leader's term |
| `lost_wakeup` | a lane, a claimant | violated: see below |
| `periodic_rotation` | 1 client | violated: see below |
| `lane_recheck` | 2 intents, a classic writer | violated: see below |
| `stale_tail` | 3 records | violated: see below |

Bounds. With three clients and waves of one or two items there are up to three tails,
hence a tail in the hands of each of three threads, one finisher helping another, a
tail of several members some of whose wave was rejected, and a full pipeline at depth
2. A group of two records makes a flush that covers some of the appended records
and not others. Each client submits one statement; a client that has returned leaves
behind only counters, frontiers and its outcome. `Absences` lists the sets of processes
of which one makes no call. In `commit_waves` it gives the three casts of the table. In
`lane_liveness` either the second lane or the driver is absent, since all four
processes together are beyond a liveness check, and the driver meets a queued item, a
pending tail and an elected sequencer beside one client and one lane. Clients are
interchangeable, and `commit_waves` uses that symmetry: its refinement is a safety
property whose mapping does not name clients, so symmetry is sound for it too.

In `intent_lanes` all requests are on one key, which is where conflicts, retries and the
one-lane rule can fail, and the key hashes so that a resize moves it. Two resizes make
one that finds leftovers of the other. The two intents are different transactions: the
retry that the instance has goes through the classic path. In `durable_log` five records allow a checkpoint
of two, a rotation over it, a group in flight and a crash in the repair; an index and a
transaction are bounded by the same number, so a rolled-back index is used again by
another transaction. In `raft_cluster` one disturbance is one of: a late or unanswered
append, a snapshot, a demotion, a restart. Elections and lost requests are not bounded
by it. With three voters a quorum is the leader and the voter that answers in the same
step; the acknowledgements a leader keeps count from five voters on, and with five a
voter can acknowledge, win an election against the old leader and leave the others
enough voters for the old leader to commit. That is `raft_quorum`, without other
disturbances. Voters are interchangeable. `MaxIndex` stands for the index that is never
claimed, so `MaxIndex - 1` entries fit.

Deadlock is checked in `txn_manager`, `commit_liveness` and
`lane_liveness`. It is off in `commit_waves`, where a claimant can really sleep for good
(the lost wake-up below), in the four violated runs, and where the system may stop: when
every intent has its answer, when all indices are used or the database refuses to open,
when the terms of a cluster are used up.

The properties of `PublicationLaw` itself have no run: they are proved for every
instance, and `commit_waves` checks that the code's steps are steps of the law. The bound
on the pipeline is part of `commit_waves`, and the invariants of `LocalReplicator` are
part of `durable_log`, where its callers drive it.

Fairness. `FairSpec` of `CommitPath` is weak fairness of each thread: the operating
system keeps scheduling a thread that can run. A thread waiting for a mutex is assumed
to get it eventually. In `IntentLanes` it is weak fairness of each submitter, of the
resize leader, of each lane's pump (somebody polls the lane while intents are pending)
and of the publication of a classic commit. No fairness is assumed of the environment:
faults are never forced. The drain of a resize may time out, as in the code, so a leader
that waits for a lane does not wait for ever. A resize need not start and a client need
not submit.

## Findings

- **Lost wake-up** (`lost_wakeup`). `finish_publication_tail` counts and notifies
  without the `state` mutex under which `wait_publication_tail_quiescence` checks and
  sleeps. If the last lane tail finishes between check and sleep, the claimant sleeps
  until some later lane tail finishes. Any thread that checkpoints waits there too: with
  a lane and a full WAL segment, a sequencer that probes the bound when its queue is
  empty can sleep in the same way, whether it is a client or an event-loop driver. The
  liveness runs therefore have the idle checkpoint (`OverBound`) only without lanes, and
  lanes only without it and without claimants.
- **Periodic checkpoint** (`periodic_rotation`). Every 256th wave the sequencer probes
  the WAL bound while it holds a tail counted in `tails_applied` but not handed over.
  Over the bound, the rotation waits for that tail, and the sequencer waits for itself.

- **Lane re-check** (`lane_recheck`). At the ordered cut an intent always finds its own
  claim, and that branch ignores the second validation. When a classic writer wrote the
  row between the two, the missing target count panics under the commit mutex and the
  whole commit path is closed until a restart. `FirstCommitterWins` still holds: the
  panic comes before anything is sequenced. What fails is the comment's promise to
  discard the stale candidate.
- **Stale tail** (`stale_tail`). Truncation replaces the live segment before it lowers
  the sidecar. A crash in between leaves a sidecar beyond the end of the segment, and the
  reopen refuses a complete history. Nothing is lost: `durable_log` shows that checkpoint
  and segment hold every flushed record.

Four smaller ones are not runs, since no document of the repository says otherwise.

- The sequencer's comment bounds applied and unpublished state at
  `WAVE_TAIL_PIPELINE_DEPTH` waves, but a wave is applied before the gate is consulted,
  so the bound is one more. `PipelineBounded` is about tails handed over and not
  finished.
- `become_leader` drops the uncommitted tail, so a follower that acknowledged an entry
  and is promoted before it learns of the commit has lost it. With five voters the old
  leader can then commit the entry on one more acknowledgement, although only two of
  them still hold it. `QuorumHoldsCommitted` counts such a voter as one that has left;
  `left` records who has: by hearing a later leader, by being promoted, demoted or
  restarted, or by a snapshot of another history. In `raft_quorum` nothing else weakens a
  kept acknowledgement: not a lost or repeated append, not an election elsewhere. Late
  appends, snapshots and restarts are in `raft_cluster`, where three voters leave no
  kept acknowledgement to count.
- After that, two nodes have committed different entries at one index. Neither replaces
  its own by an append, which is refused. But `install_snapshot` compares an advancing
  snapshot with the applied index and term only: the node that installs the other's
  snapshot gives up what it had committed up to that index, even what it had applied.
  `CommittedIsFinal` has this as its one exception (`SupersededAt`).
- A vote is not part of the recovery state. `OneLeaderPerTerm` leaves out the terms in
  which a node restarted, `LogMatching` and `QuorumHoldsCommitted` also the terms after
  them, and `LogMatching` a cluster in which a committed suffix was kept on top of a snapshot it does not
  continue (`spliced`).

The tests of the replicator fix the truncation, and the engine does not commit through
it yet (`docs/PLAN.md`, HA-001).

## Proofs

`TxnManagerProofs` proves `TxnBooksExact` and `TxnVerdictIsFinal`, for every id space
and window. `PublicationLawProofs` proves:

- `LawSafety`: `TypeOK`, `VisibleIsDurable` and `AckedStaysVisible` are invariant;
- `LawWatermark`: the watermark never regresses, across restarts too.

Both hold for every `MaxIndex \in Nat`, the only assumption. The argument of the law:
the three properties together are inductive. `VisibleIsDurable` alone is not, because
the join may publish what waits in `ready`, so it must also say that `ready` lies
within the durable prefix, above the gap. `AckedStaysVisible` survives `Recover`
because the visible prefix is within the durable one and recovery keeps the durable
one. `JoinRange`, `JoinIndices` and `JoinKeeps` carry the arithmetic of the join.

`LocalReplicatorProofs` proves, for every index space, term bound and number of
reservations:

- `ReplicatorLogIsSound` and `ReplicatorLosesNothing`: `LogIsContiguous` and
  `NothingUnappliedIsLost`, which `durable_log` checks on its instance;
- `ReplicatorEntryAtIsExact`: the look-up by position finds the entry by index;
- `ReplicatorTokensAreExact`: a reservation of the current generation is still right
  (in `durable_log` none is ever stale, since it is used before anything else moves);
- `ReplicatorAppliedIsMonotone`: the applied index never moves back.

The inductive invariant `IInv` says that the retained log is exactly an interval `f..commit`
with `f` at most one above the applied index. Contiguity alone is not inductive: a
snapshot or a compaction that cut above the applied index would keep it and lose
entries. `TokensHold` adds that a current reservation has the present index and term;
without it `propose_reserved` could push beside the end of the log. `entry_at` and
`drain_committed_from` compute positions and compare no index: `EntryAtOfInterval` and
`DrainOfInterval` show that on an interval positions and indices agree.

Model-checked only: everything about `CommitPath` (its refinement of the law included),
`IntentLanes`, `DurableLog` beyond its replicator, `RaftReplicator`, and all liveness.
Liveness under fairness is out of the prover's reach. `DurableLog` cuts and chains
sequences, about which the provers know little.

## Not modelled

- INSERT intents of a lane, which have no target row to go stale.
- WAL frames, checksums and torn records; the FUA log and the write conveyor: a crash
  leaves a prefix of whole records.
- Archiving to a directory, point-in-time restore, the retired lane format.
- The batcher: sequential, behind one mutex.
- The Raft transport (JSON, TLS) and the operational reports.
- MVCC storage, SQL, planner, catalog, GPU execution, residency, server, facade,
  protocol, metrics: data transformation, device code and I/O. `PROJECT.json` gives the
  reason for each.
