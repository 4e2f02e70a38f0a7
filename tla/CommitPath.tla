----------------------------- MODULE CommitPath -----------------------------
(***************************************************************************)
(* The live commit path of the engine, crates/engine/src: the commit-wave  *)
(* queue and its self-elected sequencer, the pipelined durability tails,   *)
(* the group flush with its designated flusher, the contiguous publication *)
(* join, the intent-lane tails that share WAL and join, and the serialized *)
(* claimants that enter after quiescence; with the failure drains.         *)
(*                                                                         *)
(* Processes: each Client submits one DML item to the wave queue and blocks *)
(* for its outcome, working as sequencer or tail claimer meanwhile; each   *)
(* Lane pumps one lane wave; each Claimant runs one serialized commit;     *)
(* each Driver makes one call of the non-blocking pump, with no item.      *)
(*                                                                         *)
(* A critical section under one mutex is one step, except where a condition *)
(* variable is waited on: the last check under the queue lock and the sleep *)
(* that releases it are two steps, because outcomes, counters and some of   *)
(* the notifications do not take that lock.  One canonical record is        *)
(* appended per commit index, so an index is also a WAL position.           *)
(*                                                                         *)
(* A tail is the set of processes whose items it will acknowledge.  A      *)
(* thread finishing tails has a stack of frames (a finisher helps with     *)
(* other tails while it waits to be covered); a frame's plan is what is    *)
(* left to do, its head the next step; pc is where the thread goes on when *)
(* its stack is empty.                                                     *)
(***************************************************************************)
EXTENDS Integers, FiniteSetsExt, SequencesExt

CONSTANTS Clients, Lanes, Claimants, Drivers,
          COMMIT_WAVE_MAX,           \* items drained into one wave
          WAVE_TAIL_PIPELINE_DEPTH,  \* tails the gate lets be outstanding
          MAX_WAL_GROUP_RECORDS,     \* records one group flush can carry
          Faults,                    \* which of the post-WAL faults may occur
          OverBound,                 \* checkpoint probes that find a full segment
          Absences                   \* sets of processes that may make no call at all

ASSUME CommitPathAssumption ==
  /\ COMMIT_WAVE_MAX \in Nat \ {0}
  /\ WAVE_TAIL_PIPELINE_DEPTH \in Nat \ {0}
  /\ MAX_WAL_GROUP_RECORDS \in Nat \ {0}
  /\ Faults \subseteq {"fixed", "compat", "apply"}
  /\ OverBound \subseteq {"periodic", "idle"}

Procs == Clients \cup Lanes \cup Claimants \cup Drivers

\* The threads that may become the sequencer.
Sequencers == Clients \cup Drivers

VARIABLES
  items, sequencer_active, wedged,                      \* CommitWaveQueue
  pending_tails, tails_handed, tails_applied, tails_finished,
  commit_poisoned, commit_path_wedged,                  \* the two poison bits
  wal_len, wal_flushed,                                 \* canonical WAL
  flusher_active, failed, durable_records, job,         \* GroupFlushState
  visible_next, ready, pub_started, pub_finished,       \* publication join
  outcome, seq,                                         \* per submitted item
  pc, stack, held                                       \* thread-local state

queueVars == <<items, sequencer_active, wedged>>
tailVars == <<pending_tails, tails_handed, tails_applied, tails_finished>>
poisonVars == <<commit_poisoned, commit_path_wedged>>
walVars == <<wal_len, wal_flushed>>
flushVars == <<flusher_active, failed, durable_records, job>>
pubVars == <<visible_next, ready, pub_started, pub_finished>>
itemVars == <<outcome, seq>>
procVars == <<pc, stack, held>>
sharedVars == <<queueVars, tailVars, poisonVars, walVars, flushVars, pubVars, itemVars>>
vars == <<sharedVars, procVars>>

Init ==
  /\ items = <<>> /\ sequencer_active = FALSE /\ wedged = FALSE
  /\ pending_tails = <<>>
  /\ tails_handed = 0 /\ tails_applied = 0 /\ tails_finished = 0
  /\ commit_poisoned = FALSE /\ commit_path_wedged = FALSE
  /\ wal_len = 0 /\ wal_flushed = 0
  /\ flusher_active = FALSE /\ failed = "no" /\ durable_records = 0 /\ job = 0
  /\ visible_next = 1 /\ ready = {} /\ pub_started = 0 /\ pub_finished = 0
  /\ outcome = [p \in Procs |-> "unset"] /\ seq = [p \in Procs |-> 0]
  /\ \E absent \in Absences :
       pc = [p \in Procs |-> IF p \in absent THEN "absent" ELSE "start"]
  /\ stack = [p \in Procs |-> <<>>]
  /\ held = [p \in Procs |-> <<>>]

-----------------------------------------------------------------------------
(* Shared pieces.                                                          *)

\* is_commit_path_poisoned
Poisoned == commit_poisoned \/ commit_path_wedged

\* committed_seq(): the inclusive reader watermark.
CommittedSeq == visible_next - 1

SatSub(a, b) == IF a < b THEN 0 ELSE a - b

\* CommitWaveDone::set_outcome: the first result stays.
SetOutcomes(ps, result) ==
  [p \in Procs |-> IF p \in ps /\ outcome[p] = "unset" THEN result ELSE outcome[p]]

\* Nobody is between its last check under the queue lock and the wait.
Asleep == [doze_await |-> "sleep_await", doze_gate |-> "sleep_gate",
           doze_quiesce |-> "sleep_quiesce", doze_publication |-> "sleep_publication"]
QueueFree == \A p \in Procs : pc[p] \notin {"doze_await", "doze_gate", "doze_quiesce"}

\* Condvar notify_all: every sleeper resumes its loop from the top.
Awake == [sleep_await |-> "await", sleep_gate |-> "gate", sleep_quiesce |-> "quiesce"]
Notified(at) ==
  [p \in Procs |-> IF at[p] \in DOMAIN Awake THEN Awake[at[p]] ELSE at[p]]
TailNotified(at) ==
  [p \in Procs |-> IF at[p] = "sleep_publication" THEN "publication" ELSE at[p]]

Goto(p, label) == [pc EXCEPT ![p] = label]

\* A join that publishes up to the highest report, over the gaps.
HighestReady(from, S) == IF S = {} THEN from ELSE Max(S) + 1

\* The publication join: insert reported indices, remove the contiguous prefix.
NextGap(from, S) == CHOOSE n \in from .. (from + Cardinality(S)) :
                      n \notin S /\ \A m \in from .. (n - 1) : m \in S

Publish(indices) ==
  LET all == ready \cup {i \in indices : i >= visible_next}
      gap == NextGap(visible_next, all)
  IN /\ \A p \in Procs : pc[p] # "doze_publication"   \* holds the join's lock
     /\ visible_next' = gap
     /\ ready' = {i \in all : i >= gap}
     /\ UNCHANGED <<pub_started, pub_finished>>

\* A pre-check that leaves the last tail to somebody else.
CanClaimSpare == /\ ~Poisoned
                 /\ tails_handed > tails_finished + 1
                 /\ pending_tails # <<>>

\* try_finish_pending_wave_tail: claim the oldest pending tail.
CanClaim == /\ ~Poisoned
            /\ tails_handed > tails_finished
            /\ pending_tails # <<>>

NewFrame(tail) == [tail |-> tail, plan |-> <<"durable">>]

\* A frame that only fails the work of its members and everything pending.
FailFrame(tail, plan) == <<[tail |-> tail, plan |-> plan]>>

Claim(p) ==
  /\ CanClaim
  /\ pending_tails' = Tail(pending_tails)
  /\ stack' = [stack EXCEPT ![p] = <<NewFrame(Head(pending_tails))>> \o @]
  /\ UNCHANGED <<queueVars, tails_handed, tails_applied, tails_finished, poisonVars,
                 walVars, flushVars, pubVars, itemVars, pc, held>>

\* A gate that opens one tail too late.
OverCapacityByOne == SatSub(tails_handed, tails_finished) > WAVE_TAIL_PIPELINE_DEPTH

\* wait_wave_tail_capacity's condition.
OverCapacity == SatSub(tails_handed, tails_finished) > WAVE_TAIL_PIPELINE_DEPTH - 1

\* A thread between frames runs its own loop.
At(p, label) == pc[p] = label /\ stack[p] = <<>>

\* The loops that claim a tail before anything else they might do.
ClaimInLoop(p) ==
  /\ pc[p] \in {"await", "gate", "idle"} /\ stack[p] = <<>>
  /\ outcome[p] = "unset" \/ pc[p] # "await"
  /\ pc[p] = "gate" => OverCapacity
  /\ Claim(p)

-----------------------------------------------------------------------------
(* A client: enqueue, promote itself if nobody sequences, await the outcome. *)

Enqueue(c) ==
  /\ At(c, "start") /\ QueueFree
  /\ IF Poisoned \/ wedged
     THEN /\ pc' = Goto(c, "refused")
          /\ UNCHANGED items
     ELSE /\ items' = Append(items, c)
          /\ pc' = Goto(c, "pump")
  /\ UNCHANGED <<sequencer_active, wedged, tailVars, poisonVars, walVars, flushVars,
                 pubVars, itemVars, stack, held>>

\* A promotion that does not look whether somebody already sequences.
PumpAlways(c) ==
  /\ At(c, "pump") /\ QueueFree
  /\ sequencer_active' = TRUE
  /\ pc' = Goto(c, "drain")
  /\ UNCHANGED <<items, wedged, tailVars, poisonVars, walVars, flushVars, pubVars,
                 itemVars, stack, held>>

\* pump_as_sequencer_if_idle: the election does not look at the wedge.
Pump(c) ==
  /\ At(c, "pump") /\ QueueFree
  /\ sequencer_active' = TRUE
  /\ pc' = Goto(c, IF sequencer_active THEN "await" ELSE "drain")
  /\ UNCHANGED <<items, wedged, tailVars, poisonVars, walVars, flushVars, pubVars,
                 itemVars, stack, held>>

\* await_commit_wave_outcome: the outcome ends the wait; with no tail to claim the
\* thread checks once more under the queue lock, then promotes itself, spins on or
\* sleeps.
TakeOutcome(c) ==
  /\ At(c, "await")
  /\ outcome[c] # "unset"
  /\ pc' = Goto(c, "done")
  /\ UNCHANGED <<sharedVars, stack, held>>

FindNoTail(c) ==
  /\ At(c, "await")
  /\ outcome[c] = "unset" /\ ~CanClaim
  /\ pc' = Goto(c, "sleep_check")
  /\ UNCHANGED <<sharedVars, stack, held>>

\* A waiter that never takes over a leaderless queue.
SleepCheckNoPromotion(c) ==
  /\ At(c, "sleep_check") /\ QueueFree
  /\ pc' = Goto(c, IF outcome[c] = "unset" /\ sequencer_active THEN "doze_await" ELSE "await")
  /\ UNCHANGED <<sharedVars, stack, held>>

SleepCheck(c) ==
  /\ At(c, "sleep_check") /\ QueueFree
  /\ LET promote == outcome[c] = "unset" /\ ~sequencer_active /\ items # <<>>
         sleep == outcome[c] = "unset" /\ sequencer_active
     IN /\ sequencer_active' = (sequencer_active \/ promote)
        /\ pc' = Goto(c, IF promote THEN "drain"
                         ELSE IF sleep THEN "doze_await" ELSE "await")
  /\ UNCHANGED <<items, wedged, tailVars, poisonVars, walVars, flushVars, pubVars,
                 itemVars, stack, held>>

\* Condvar wait: release the lock and sleep.
Sleep(p) ==
  /\ pc[p] \in DOMAIN Asleep
  /\ pc' = Goto(p, Asleep[pc[p]])
  /\ UNCHANGED <<sharedVars, stack, held>>

-----------------------------------------------------------------------------
(* drive_commit_wave: one pending tail, or the queue if nobody sequences; it  *)
(* never waits for an outcome.  The lane it advances first is a Lane's step.  *)

StartDrive(d) ==
  /\ At(d, "start")
  /\ pc' = Goto(d, IF Poisoned THEN "done" ELSE "drive")
  /\ UNCHANGED <<sharedVars, stack, held>>

DriveTail(d) ==
  /\ At(d, "drive") /\ CanClaim
  /\ pending_tails' = Tail(pending_tails)
  /\ stack' = [stack EXCEPT ![d] = <<NewFrame(Head(pending_tails))>>]
  /\ pc' = Goto(d, "done")
  /\ UNCHANGED <<queueVars, tails_handed, tails_applied, tails_finished, poisonVars,
                 walVars, flushVars, pubVars, itemVars, held>>

DriveNoTail(d) ==
  /\ At(d, "drive") /\ ~CanClaim
  /\ pc' = Goto(d, "elect")
  /\ UNCHANGED <<sharedVars, stack, held>>

\* The lock is only tried: a driver that finds it taken, which it may be at any
\* time, returns as one that finds nothing to sequence does.
Elect(d) ==
  /\ At(d, "elect")
  /\ \E promote \in BOOLEAN :
       /\ promote => QueueFree /\ ~sequencer_active /\ items # <<>> /\ ~wedged
       /\ sequencer_active' = (sequencer_active \/ promote)
       /\ pc' = Goto(d, IF promote THEN "drain" ELSE "done")
  /\ UNCHANGED <<items, wedged, tailVars, poisonVars, walVars, flushVars, pubVars,
                 itemVars, stack, held>>

-----------------------------------------------------------------------------
(* run_commit_wave_sequencer.  A driver passes an outcome that is never set,  *)
(* and returns where a client goes on to await its own.                    *)

StepsDownTo(c) == IF c \in Drivers THEN "done" ELSE "await"

DrainQueue(c) ==
  /\ At(c, "drain") /\ QueueFree
  /\ LET n == Min({Len(items), COMMIT_WAVE_MAX})
     IN IF n = 0
        THEN /\ sequencer_active' = FALSE
             /\ pc' = Goto(c, "idle")
             /\ UNCHANGED <<items, held>>
        ELSE /\ held' = [held EXCEPT ![c] = SubSeq(items, 1, n)]
             /\ items' = SubSeq(items, n + 1, Len(items))
             /\ pc' = Goto(c, "available")
             /\ UNCHANGED sequencer_active
  /\ UNCHANGED <<wedged, tailVars, poisonVars, walVars, flushVars, pubVars, itemVars,
                 stack>>

\* The availability check between the drain and the commit lock.
CheckAvailable(c) ==
  /\ At(c, "available")
  /\ IF Poisoned
     THEN /\ outcome' = SetOutcomes(ToSet(held[c]), "wedged")
          /\ held' = [held EXCEPT ![c] = <<>>]
          /\ pc' = Goto(c, "step_down")
     ELSE /\ pc' = Goto(c, "sequence")
          /\ UNCHANGED <<outcome, held>>
  /\ UNCHANGED <<queueVars, tailVars, poisonVars, walVars, flushVars, pubVars, seq,
                 stack>>

\* sequence_commit_wave, one hold of the commit mutex: each item is rejected before
\* it is durable (conflict, retry, failed resolve) or is appended at the next index,
\* applied and left to the tail.  The tail is registered before the lock is left.
SeqAssigned(batch) ==
  [p \in Procs |-> IF p \in ToSet(batch)
                   THEN wal_len + (CHOOSE i \in 1..Len(batch) : batch[i] = p)
                   ELSE seq[p]]

\* A section that leaves the registration of its tail to the hand-over.
SequenceUnregistered(c) ==
  /\ At(c, "sequence")
  /\ ~Poisoned
  /\ \E commits \in SUBSET ToSet(held[c]) :
       LET committed == SelectSeq(held[c], LAMBDA p : p \in commits)
       IN /\ seq' = SeqAssigned(committed)
          /\ wal_len' = wal_len + Len(committed)
          /\ outcome' = SetOutcomes(ToSet(held[c]) \ commits, "rejected")
          /\ held' = [held EXCEPT ![c] = committed]
          /\ pc' = Goto(c, IF committed = <<>> THEN "wake" ELSE "probe")
  /\ UNCHANGED <<queueVars, tailVars, poisonVars, wal_flushed, flushVars, pubVars, stack>>

SequenceWave(c) ==
  /\ At(c, "sequence")
  /\ ~Poisoned
  /\ \E commits \in SUBSET ToSet(held[c]) :
       LET committed == SelectSeq(held[c], LAMBDA p : p \in commits)
       IN /\ seq' = SeqAssigned(committed)
          /\ wal_len' = wal_len + Len(committed)
          /\ outcome' = SetOutcomes(ToSet(held[c]) \ commits, "rejected")
          /\ held' = [held EXCEPT ![c] = committed]
          /\ tails_applied' = tails_applied + (IF committed = <<>> THEN 0 ELSE 1)
          /\ pc' = Goto(c, IF committed = <<>> THEN "wake" ELSE "probe")
  /\ UNCHANGED <<queueVars, pending_tails, tails_handed, tails_finished, poisonVars,
                 wal_flushed, flushVars, pubVars, stack>>

\* The same section when the path was gated before the lock was ours.
SequenceRefused(c) ==
  /\ At(c, "sequence")
  /\ Poisoned
  /\ outcome' = SetOutcomes(ToSet(held[c]), "wedged")
  /\ held' = [held EXCEPT ![c] = <<>>]
  /\ pc' = Goto(c, "wake")
  /\ UNCHANGED <<queueVars, tailVars, poisonVars, walVars, flushVars, pubVars, seq,
                 stack>>

\* An apply that panics after its record was appended poisons the commit mutex;
\* CommitWaveBatchGuard then fails the wave and everything pending.
ApplyPanics(c) ==
  /\ At(c, "sequence")
  /\ ~Poisoned /\ "apply" \in Faults
  /\ \E k \in 1..Len(held[c]) :
       /\ seq' = SeqAssigned(SubSeq(held[c], 1, k))
       /\ wal_len' = wal_len + k
  /\ commit_poisoned' = TRUE
  /\ stack' = [stack EXCEPT ![c] = FailFrame(held[c], <<"drain", "drop", "drain", "tails">>)]
  /\ held' = [held EXCEPT ![c] = <<>>]
  /\ pc' = Goto(c, "unwind")
  /\ UNCHANGED <<queueVars, tailVars, commit_path_wedged, wal_flushed, flushVars,
                 pubVars, outcome>>

\* Every 256th wave probes the WAL bound before the tail is handed over.
ProbeSegment(c) ==
  /\ At(c, "probe")
  /\ \/ pc' = Goto(c, "gate")
     \/ "periodic" \in OverBound /\ pc' = Goto(c, "quiesce")
  /\ UNCHANGED <<sharedVars, stack, held>>

\* wait_wave_tail_capacity, when there is nothing to claim.
Gate(c) ==
  /\ At(c, "gate")
  /\ \/ ~OverCapacity /\ pc' = Goto(c, "hand")
     \/ /\ OverCapacity /\ ~CanClaim /\ QueueFree
        /\ pc' = Goto(c, IF wedged THEN "hand" ELSE "doze_gate")
  /\ UNCHANGED <<sharedVars, stack, held>>

\* The hand-over under the pending_tails lock: a poisoned path drops the tail.
HandTail(c) ==
  /\ At(c, "hand")
  /\ held' = [held EXCEPT ![c] = <<>>]
  /\ IF Poisoned
     THEN /\ outcome' = SetOutcomes(ToSet(held[c]), "wedged")
          /\ tails_finished' = tails_finished + 1
          /\ pc' = Goto(c, "step_down")
          /\ UNCHANGED pending_tails
     ELSE /\ pending_tails' = Append(pending_tails, held[c])
          /\ pc' = Goto(c, "handed")
          /\ UNCHANGED <<outcome, tails_finished>>
  /\ UNCHANGED <<queueVars, tails_handed, tails_applied, poisonVars, walVars, flushVars,
                 pubVars, seq, stack>>

CountHanded(c) ==
  /\ At(c, "handed")
  /\ tails_handed' = tails_handed + 1
  /\ pc' = Goto(c, "wake")
  /\ UNCHANGED <<queueVars, pending_tails, tails_applied, tails_finished, poisonVars,
                 walVars, flushVars, pubVars, itemVars, stack, held>>

\* Wake the members; step down once the own item is settled.
WakeMembers(c) ==
  /\ At(c, "wake") /\ QueueFree
  /\ pc' = Notified(Goto(c, IF outcome[c] # "unset" THEN "step_down" ELSE "drain"))
  /\ UNCHANGED <<sharedVars, stack, held>>

StepDown(c) ==
  /\ At(c, "step_down") /\ QueueFree
  /\ sequencer_active' = FALSE
  /\ pc' = Notified(Goto(c, StepsDownTo(c)))
  /\ UNCHANGED <<items, wedged, tailVars, poisonVars, walVars, flushVars, pubVars,
                 itemVars, stack, held>>

\* The empty-queue step-down: no tail left to finish, probe the bound, notify.
IdleProbe(c) ==
  /\ At(c, "idle") /\ ~CanClaim
  /\ \/ pc' = Goto(c, "leave")
     \/ "idle" \in OverBound /\ pc' = Goto(c, "quiesce")
  /\ UNCHANGED <<sharedVars, stack, held>>

LeaveIdle(c) ==
  /\ At(c, "leave")
  /\ pc' = Notified(Goto(c, StepsDownTo(c)))
  /\ UNCHANGED <<sharedVars, stack, held>>

-----------------------------------------------------------------------------
(* Finishing a tail: finish_wave_tail on the thread that claimed it, or the *)
(* inline tail of drive_intent_lane.                                       *)

Frame(p) == Head(stack[p])
IsLaneTail(tail) == Head(tail) \in Lanes
LastSeq(p) == seq[Last(Frame(p).tail)]
Does(p, step) == stack[p] # <<>> /\ Head(Frame(p).plan) = step

SetPlan(p, plan) ==
  [stack EXCEPT ![p] = <<[Head(@) EXCEPT !.plan = plan]>> \o Tail(@)]

\* The current step is over: the rest of the plan, or the frame below.
StepOver(p) ==
  LET rest == Tail(Frame(p).plan)
  IN IF rest = <<>> THEN [stack EXCEPT ![p] = Tail(@)] ELSE SetPlan(p, rest)

\* What is left of a tail that will not be acknowledged, by how it ended: drain the
\* commit path (queue, then tails), drop the tail (fails its unset outcomes), count
\* it finished.  finish_wave_tail drains before the drop and TailCompletion once more
\* after it; unwinding drops the completion guard before the tail; a lane sets its
\* outcomes first.
Drain == <<"drain", "tails">>
LaneFailed == <<"drop">> \o Drain \o <<"finish">>
WaveFailed == Drain \o <<"drop">> \o Drain \o <<"finish", "notify">>
WaveGated == <<"drop">> \o Drain \o <<"finish", "notify">>
WaveUnwound == Drain \o <<"finish", "notify", "drop">>
FailurePlan(tail, wavePlan) == IF IsLaneTail(tail) THEN LaneFailed ELSE wavePlan

DurablePlan(p) == IF IsLaneTail(Frame(p).tail) THEN <<"publish">> ELSE <<"gated">>

\* A frontier compared one record short.
CheckDurableShort(p) ==
  /\ Does(p, "durable")
  /\ stack' = SetPlan(p, IF durable_records + 1 >= LastSeq(p) THEN DurablePlan(p)
                                                             ELSE <<"coordinate">>)
  /\ UNCHANGED <<sharedVars, pc, held>>

\* wait_group_durable: the fast path ...
CheckDurable(p) ==
  /\ Does(p, "durable")
  /\ stack' = SetPlan(p, IF durable_records >= LastSeq(p) THEN DurablePlan(p)
                                                         ELSE <<"coordinate">>)
  /\ UNCHANGED <<sharedVars, pc, held>>

\* ... then, under the coordination lock, a sticky failure, the frontier again, a
\* wait for the flusher (the step is not enabled), or the flusher's role.
Coordinate(p) ==
  /\ Does(p, "coordinate")
  /\ \/ /\ failed # "no"
        /\ stack' = SetPlan(p, FailurePlan(Frame(p).tail,
                      IF failed = "fixed" THEN WaveFailed ELSE <<"wedge">> \o WaveGated))
        /\ UNCHANGED flusher_active
     \/ /\ failed = "no" /\ durable_records >= LastSeq(p)
        /\ stack' = SetPlan(p, DurablePlan(p))
        /\ UNCHANGED flusher_active
     \/ /\ failed = "no" /\ durable_records < LastSeq(p) /\ ~flusher_active
        /\ stack' = SetPlan(p, <<"begin">>)
        /\ flusher_active' = TRUE
  /\ UNCHANGED <<queueVars, tailVars, poisonVars, walVars, failed, durable_records, job,
                 pubVars, itemVars, pc, held>>

\* begin_group_flush under a brief commit lock: nothing to flush, or a job for a
\* bounded prefix of the unflushed records.
BeginGroupFlush(p) ==
  /\ Does(p, "begin")
  /\ job' = Min({wal_len, wal_flushed + MAX_WAL_GROUP_RECORDS})
  /\ stack' = SetPlan(p, <<IF wal_flushed = wal_len THEN "flushed" ELSE "io">>)
  /\ UNCHANGED <<queueVars, tailVars, poisonVars, walVars, flusher_active, failed,
                 durable_records, pubVars, itemVars, pc, held>>

\* The job's IO, with no lock held.
FlushIO(p) ==
  /\ Does(p, "io")
  /\ \/ wal_flushed' = job /\ stack' = SetPlan(p, <<"flushed">>)
     \/ "fixed" \in Faults /\ stack' = SetPlan(p, <<"fixed">>) /\ UNCHANGED wal_flushed
     \/ "compat" \in Faults /\ stack' = SetPlan(p, <<"compat">>) /\ UNCHANGED wal_flushed
  /\ UNCHANGED <<queueVars, tailVars, poisonVars, wal_len, flushVars, pubVars, itemVars,
                 pc, held>>

\* A flusher that announces the records appended by now, not those it flushed.
FlushSucceededAll(p) ==
  /\ Does(p, "flushed")
  /\ flusher_active' = FALSE
  /\ durable_records' = wal_len
  /\ stack' = SetPlan(p, <<"durable">>)
  /\ UNCHANGED <<queueVars, tailVars, poisonVars, walVars, failed, job, pubVars,
                 itemVars, pc, held>>

FlushSucceeded(p) ==
  /\ Does(p, "flushed")
  /\ flusher_active' = FALSE
  /\ durable_records' = job
  /\ stack' = SetPlan(p, <<"durable">>)
  /\ UNCHANGED <<queueVars, tailVars, poisonVars, walVars, failed, job, pubVars,
                 itemVars, pc, held>>

\* A fixed fault gates the service before it wakes the group's waiters.
FlushFixedFault(p) ==
  /\ Does(p, "fixed")
  /\ flusher_active' = FALSE
  /\ failed' = "fixed"
  /\ commit_path_wedged' = TRUE
  /\ stack' = SetPlan(p, FailurePlan(Frame(p).tail, WaveFailed))
  /\ UNCHANGED <<queueVars, tailVars, commit_poisoned, walVars, durable_records, job,
                 pubVars, itemVars, pc, held>>

\* Any other fault wakes them first, then panics holding the commit mutex.
FlushCompatFault(p) ==
  /\ Does(p, "compat")
  /\ flusher_active' = FALSE
  /\ failed' = "compat"
  /\ stack' = SetPlan(p, <<"panic">>)
  /\ UNCHANGED <<queueVars, tailVars, poisonVars, walVars, durable_records, job,
                 pubVars, itemVars, pc, held>>

\* The panic unwinds every frame of the thread; a lane catches it in its own frame.
Panic(p) ==
  /\ Does(p, "panic")
  /\ commit_poisoned' = TRUE
  /\ stack' = [stack EXCEPT ![p] = [i \in DOMAIN @ |->
                 [tail |-> @[i].tail, plan |-> FailurePlan(@[i].tail, WaveUnwound)]]]
  /\ pc' = IF p \in Lanes THEN pc ELSE Goto(p, "unwind")
  /\ UNCHANGED <<queueVars, tailVars, commit_path_wedged, walVars, flushVars, pubVars,
                 itemVars, held>>

\* The bottom of the unwinding: a tail not yet handed over is dropped with it.
Unwind(c) ==
  /\ At(c, "unwind")
  /\ outcome' = SetOutcomes(ToSet(held[c]), "wedged")
  /\ held' = [held EXCEPT ![c] = <<>>]
  /\ pc' = Goto(c, "dead")
  /\ UNCHANGED <<queueVars, tailVars, poisonVars, walVars, flushVars, pubVars, seq,
                 stack>>

\* The wave's last look at the poison bits before it publishes.
CheckGate(p) ==
  /\ Does(p, "gated")
  /\ stack' = SetPlan(p, IF Poisoned THEN WaveGated ELSE <<"publish">>)
  /\ UNCHANGED <<sharedVars, pc, held>>

\* A tail that acknowledges once reported, covered or not.
PublishNoCover(p) ==
  /\ Does(p, "publish")
  /\ Publish({seq[m] : m \in ToSet(Frame(p).tail)})
  /\ stack' = SetPlan(p, <<"ack">>)
  /\ UNCHANGED <<queueVars, tailVars, poisonVars, walVars, flushVars, itemVars, pc, held>>

\* publish_ready_indices with the tail's exact indices.
PublishTail(p) ==
  /\ Does(p, "publish")
  /\ Publish({seq[m] : m \in ToSet(Frame(p).tail)})
  /\ stack' = SetPlan(p, <<"cover">>)
  /\ UNCHANGED <<queueVars, tailVars, poisonVars, walVars, flushVars, itemVars, pc, held>>

\* wait_until_publication_covers: covered, failed, or help with a pending tail; its
\* wait is timed, so the loop needs no wake-up.
Covered(p) ==
  /\ Does(p, "cover")
  /\ \/ CommittedSeq >= LastSeq(p) /\ stack' = SetPlan(p, <<"ack">>)
     \/ /\ CommittedSeq < LastSeq(p) /\ (Poisoned \/ wedged)
        /\ stack' = SetPlan(p, FailurePlan(Frame(p).tail, WaveFailed))
  /\ UNCHANGED <<sharedVars, pc, held>>

HelpWhileUncovered(p) ==
  /\ Does(p, "cover")
  /\ CommittedSeq < LastSeq(p)
  /\ Claim(p)

\* mark_published_through under the commit lock, then the acknowledgements.
Acknowledge(p) ==
  /\ Does(p, "ack")
  /\ outcome' = SetOutcomes(ToSet(Frame(p).tail), "ok")
  /\ stack' = SetPlan(p, IF IsLaneTail(Frame(p).tail) THEN <<"finish">>
                                                    ELSE <<"finish", "notify">>)
  /\ UNCHANGED <<queueVars, tailVars, poisonVars, walVars, flushVars, pubVars, seq,
                 pc, held>>

\* CommitWaveTail's armed Drop.
DropTail(p) ==
  /\ Does(p, "drop")
  /\ outcome' = SetOutcomes(ToSet(Frame(p).tail), "wedged")
  /\ stack' = StepOver(p)
  /\ UNCHANGED <<queueVars, tailVars, poisonVars, walVars, flushVars, pubVars, seq,
                 pc, held>>

\* A member that saw the group's other failure marks the queue before the drop.
WedgeQueue(p) ==
  /\ Does(p, "wedge") /\ QueueFree
  /\ wedged' = TRUE
  /\ stack' = StepOver(p)
  /\ UNCHANGED <<items, sequencer_active, tailVars, poisonVars, walVars, flushVars,
                 pubVars, itemVars, pc, held>>

\* fail_all_pending_commit_work and its fixed sibling, reached directly or through
\* wedge_commit_path: gate the service and take every queued item under the queue
\* lock ...
DrainItems(p) ==
  /\ Does(p, "drain") /\ QueueFree
  /\ commit_path_wedged' = TRUE
  /\ wedged' = TRUE /\ sequencer_active' = FALSE /\ items' = <<>>
  /\ outcome' = SetOutcomes(ToSet(items), "wedged")
  /\ stack' = StepOver(p)
  /\ UNCHANGED <<tailVars, commit_poisoned, walVars, flushVars, pubVars, seq, pc, held>>

\* A drain that counts the pending tails but leaves them to be claimed.
DrainTailsKept(p) ==
  /\ Does(p, "tails")
  /\ tails_finished' = tails_finished + Len(pending_tails)
  /\ outcome' = SetOutcomes(ToSet(FlattenSeq(pending_tails)), "wedged")
  /\ pc' = Notified(pc)
  /\ stack' = StepOver(p)
  /\ UNCHANGED <<queueVars, pending_tails, tails_handed, tails_applied, poisonVars,
                 walVars, flushVars, pubVars, seq, held>>

\* ... then take every pending tail, count it finished, and wake everyone, now with
\* no lock held.
DrainTails(p) ==
  /\ Does(p, "tails")
  /\ pending_tails' = <<>>
  /\ tails_finished' = tails_finished + Len(pending_tails)
  /\ outcome' = SetOutcomes(ToSet(FlattenSeq(pending_tails)), "wedged")
  /\ pc' = Notified(pc)
  /\ stack' = StepOver(p)
  /\ UNCHANGED <<queueVars, tails_handed, tails_applied, poisonVars, walVars, flushVars,
                 pubVars, seq, held>>

\* TailCompletion::drop counts a wave tail finished and then notifies under the queue
\* lock; finish_publication_tail counts a lane tail and notifies with no lock held.
FinishWaveTail(p) ==
  /\ Does(p, "finish") /\ ~IsLaneTail(Frame(p).tail)
  /\ tails_finished' = tails_finished + 1
  /\ stack' = StepOver(p)
  /\ UNCHANGED <<queueVars, pending_tails, tails_handed, tails_applied, poisonVars,
                 walVars, flushVars, pubVars, itemVars, pc, held>>

NotifyQueue(p) ==
  /\ Does(p, "notify") /\ QueueFree
  /\ pc' = Notified(pc)
  /\ stack' = StepOver(p)
  /\ UNCHANGED <<sharedVars, held>>

FinishLaneTail(p) ==
  /\ Does(p, "finish") /\ IsLaneTail(Frame(p).tail)
  /\ pub_finished' = pub_finished + 1
  /\ pc' = Notified(TailNotified(pc))
  /\ stack' = StepOver(p)
  /\ UNCHANGED <<queueVars, tailVars, poisonVars, walVars, flushVars, visible_next,
                 ready, pub_started, itemVars, held>>

-----------------------------------------------------------------------------
(* drive_intent_lane from the commit lock on: a wave of one intent is       *)
(* refused, rejected, or appended, applied and registered.                 *)

\* A lane section that does not look at the gate under the commit lock.
LaneWaveUngated(l) ==
  /\ At(l, "start")
  /\ wal_len' = wal_len + 1
  /\ seq' = [seq EXCEPT ![l] = wal_len + 1]
  /\ pub_started' = pub_started + 1
  /\ stack' = [stack EXCEPT ![l] = <<NewFrame(<<l>>)>>]
  /\ pc' = Goto(l, "done")
  /\ UNCHANGED <<queueVars, tailVars, poisonVars, wal_flushed, flushVars, visible_next,
                 ready, pub_finished, outcome, held>>

LaneWave(l) ==
  /\ At(l, "start")
  /\ \/ /\ Poisoned
        /\ pc' = Goto(l, "refused")
        /\ UNCHANGED <<wal_len, seq, pub_started, outcome, stack>>
     \/ /\ ~Poisoned
        /\ outcome' = SetOutcomes({l}, "rejected")
        /\ pc' = Goto(l, "done")
        /\ UNCHANGED <<wal_len, seq, pub_started, stack>>
     \/ /\ ~Poisoned
        /\ wal_len' = wal_len + 1
        /\ seq' = [seq EXCEPT ![l] = wal_len + 1]
        /\ pub_started' = pub_started + 1
        /\ stack' = [stack EXCEPT ![l] = <<NewFrame(<<l>>)>>]
        /\ pc' = Goto(l, "done")
        /\ UNCHANGED outcome
  /\ UNCHANGED <<queueVars, tailVars, poisonVars, wal_flushed, flushVars, visible_next,
                 ready, pub_finished, held>>

\* An apply that fails after sequence and WAL assignment wedges the path and fails
\* the wave; no tail is registered for it.
LaneApplyFails(l) ==
  /\ At(l, "start")
  /\ ~Poisoned /\ "apply" \in Faults
  /\ wal_len' = wal_len + 1
  /\ seq' = [seq EXCEPT ![l] = wal_len + 1]
  /\ stack' = [stack EXCEPT ![l] = FailFrame(<<l>>, Drain \o <<"drop">>)]
  /\ pc' = Goto(l, "done")
  /\ commit_path_wedged' = TRUE
  /\ UNCHANGED <<queueVars, tailVars, commit_poisoned, wal_flushed, flushVars, pubVars,
                 outcome, held>>

-----------------------------------------------------------------------------
(* commit_state_after_wave_quiescence: the entrance of every serialized      *)
(* claimant (DDL, COPY, explicit COMMIT) and of the sequencer's checkpoint.  *)

StartClaim(s) ==
  /\ At(s, "start")
  /\ pc' = Goto(s, IF Poisoned THEN "refused" ELSE "quiesce")
  /\ UNCHANGED <<sharedVars, stack, held>>

\* Where an error takes the thread: a checkpoint is best effort, so the sequencer goes
\* on to hand over the tail it holds, or leaves.
AfterCheckpoint(c) == IF held[c] = <<>> THEN "leave" ELSE "gate"
Refused(p) == IF p \in Claimants THEN "refused" ELSE AfterCheckpoint(p)

\* wait_wave_tail_quiescence: a passive wait under the queue lock.
QuiesceWaves(p) ==
  /\ At(p, "quiesce")
  /\ \/ tails_applied = tails_finished /\ pc' = Goto(p, "publication")
     \/ /\ tails_applied # tails_finished /\ QueueFree
        /\ pc' = Goto(p, IF wedged THEN Refused(p) ELSE "doze_quiesce")
  /\ UNCHANGED <<sharedVars, stack, held>>

\* wait_publication_tail_quiescence: the counters are read under a lock that
\* finish_publication_tail does not take, and only then does the thread sleep.
QuiescePublication(p) ==
  /\ At(p, "publication")
  /\ pc' = Goto(p, IF pub_started = pub_finished THEN "claim"
                   ELSE IF Poisoned THEN Refused(p) ELSE "doze_publication")
  /\ UNCHANGED <<sharedVars, stack, held>>

\* A re-proof that forgets the lane tails.
QuiescentWavesOnly == tails_applied = tails_finished

\* The re-proof under the commit lock.
Quiescent == tails_applied = tails_finished /\ pub_started = pub_finished

ClaimRetry(p) ==
  /\ At(p, "claim")
  /\ ~Quiescent \/ Poisoned
  /\ pc' = Goto(p, IF Poisoned THEN Refused(p) ELSE "quiesce")
  /\ UNCHANGED <<sharedVars, stack, held>>

\* The rotation itself touches only files and applied log entries.
Checkpoint(c) ==
  /\ At(c, "claim")
  /\ Quiescent /\ ~Poisoned
  /\ pc' = Goto(c, AfterCheckpoint(c))
  /\ UNCHANGED <<sharedVars, stack, held>>

\* The serialized commit under that lock: append, flush_all, apply, publish and
\* require coverage of the own index.
SerializedCommit(s) ==
  /\ At(s, "claim")
  /\ Quiescent /\ ~Poisoned
  /\ wal_len' = wal_len + 1 /\ wal_flushed' = wal_len + 1
  /\ seq' = [seq EXCEPT ![s] = wal_len + 1]
  /\ Publish({wal_len + 1})
  /\ IF visible_next' > wal_len + 1
     THEN /\ outcome' = SetOutcomes({s}, "ok")
          /\ pc' = Goto(s, "done")
          /\ UNCHANGED <<commit_path_wedged, stack>>
     ELSE /\ commit_path_wedged' = TRUE
          /\ stack' = [stack EXCEPT ![s] = FailFrame(<<s>>, Drain \o <<"drop">>)]
          /\ pc' = Goto(s, "gap")
          /\ UNCHANGED outcome
  /\ UNCHANGED <<queueVars, tailVars, commit_poisoned, flushVars, held>>

\* Refused before the WAL, or a failed flush_all rolled back: index and record are
\* taken back.
SerializedRejected(s) ==
  /\ At(s, "claim")
  /\ Quiescent /\ ~Poisoned
  /\ outcome' = SetOutcomes({s}, "rejected")
  /\ pc' = Goto(s, "done")
  /\ UNCHANGED <<queueVars, tailVars, poisonVars, walVars, flushVars, pubVars, seq,
                 stack, held>>

\* A failed apply of the durable record wedges the path.
SerializedApplyFails(s) ==
  /\ At(s, "claim")
  /\ Quiescent /\ ~Poisoned /\ "apply" \in Faults
  /\ wal_len' = wal_len + 1 /\ wal_flushed' = wal_len + 1
  /\ seq' = [seq EXCEPT ![s] = wal_len + 1]
  /\ commit_path_wedged' = TRUE
  /\ stack' = [stack EXCEPT ![s] = FailFrame(<<s>>, Drain \o <<"drop">>)]
  /\ pc' = Goto(s, "done")
  /\ UNCHANGED <<queueVars, tailVars, commit_poisoned, flushVars, pubVars, outcome, held>>

-----------------------------------------------------------------------------
FrameStep(p) ==
  \/ CheckDurable(p) \/ Coordinate(p) \/ BeginGroupFlush(p) \/ FlushIO(p)
  \/ FlushSucceeded(p) \/ FlushFixedFault(p) \/ FlushCompatFault(p) \/ Panic(p)
  \/ CheckGate(p) \/ PublishTail(p) \/ Covered(p) \/ HelpWhileUncovered(p)
  \/ Acknowledge(p) \/ DropTail(p) \/ WedgeQueue(p) \/ DrainItems(p) \/ DrainTails(p)
  \/ FinishWaveTail(p) \/ NotifyQueue(p) \/ FinishLaneTail(p)

SequencerStep(c) ==
  \/ DrainQueue(c) \/ CheckAvailable(c) \/ SequenceWave(c) \/ SequenceRefused(c)
  \/ ApplyPanics(c) \/ ProbeSegment(c) \/ Gate(c) \/ HandTail(c) \/ CountHanded(c)
  \/ WakeMembers(c) \/ StepDown(c) \/ IdleProbe(c) \/ LeaveIdle(c) \/ Checkpoint(c)

QuiescenceStep(p) == QuiesceWaves(p) \/ QuiescePublication(p) \/ ClaimRetry(p) \/ Sleep(p)

ClientStep(c) ==
  \/ Enqueue(c) \/ Pump(c) \/ TakeOutcome(c) \/ FindNoTail(c) \/ SleepCheck(c)
  \/ ClaimInLoop(c) \/ Unwind(c) \/ SequencerStep(c) \/ QuiescenceStep(c) \/ FrameStep(c)

DriverStep(d) ==
  \/ StartDrive(d) \/ DriveTail(d) \/ DriveNoTail(d) \/ Elect(d)
  \/ ClaimInLoop(d) \/ Unwind(d) \/ SequencerStep(d)
  \/ QuiescenceStep(d) \/ FrameStep(d)

LaneStep(l) == LaneWave(l) \/ LaneApplyFails(l) \/ FrameStep(l)

ClaimantStep(s) ==
  \/ StartClaim(s) \/ QuiescenceStep(s) \/ SerializedCommit(s) \/ SerializedRejected(s)
  \/ SerializedApplyFails(s) \/ FrameStep(s)

Returned(p) == pc[p] \in {"absent", "done", "refused", "dead", "gap"} /\ stack[p] = <<>>

\* Every process has returned to its caller.
Finished ==
  /\ \A p \in Procs : Returned(p)
  /\ UNCHANGED vars

Next ==
  \/ \E c \in Clients : ClientStep(c)
  \/ \E l \in Lanes : LaneStep(l)
  \/ \E s \in Claimants : ClaimantStep(s)
  \/ \E d \in Drivers : DriverStep(d)
  \/ Finished

Spec == Init /\ [][Next]_vars

\* Threads keep running: every thread that can take a step eventually does.
FairSpec ==
  /\ Spec
  /\ \A c \in Clients : WF_vars(ClientStep(c))
  /\ \A l \in Lanes : WF_vars(LaneStep(l))
  /\ \A s \in Claimants : WF_vars(ClaimantStep(s))
  /\ \A d \in Drivers : WF_vars(DriverStep(d))

-----------------------------------------------------------------------------
Labels == {"start", "pump", "await", "sleep_check", "drive", "elect", "drain", "available", "sequence",
           "probe", "gate", "hand", "handed", "wake", "step_down", "idle", "leave",
           "unwind", "quiesce", "publication", "claim", "absent", "done", "refused", "dead",
           "gap"}
          \cup DOMAIN Asleep \cup {Asleep[l] : l \in DOMAIN Asleep}
Work == {"durable", "coordinate", "begin", "io", "flushed", "fixed", "compat", "panic",
         "gated", "publish", "cover", "ack"}
Steps == Work \cup {"wedge", "drop", "drain", "tails", "finish", "notify"}

\* Type correctness of the commit path's shared and thread-local state.
TypeOK ==
  /\ items \in Seq(Clients) /\ sequencer_active \in BOOLEAN /\ wedged \in BOOLEAN
  /\ pending_tails \in Seq(Seq(Clients))
  /\ tails_handed \in Nat /\ tails_applied \in Nat /\ tails_finished \in Nat
  /\ commit_poisoned \in BOOLEAN /\ commit_path_wedged \in BOOLEAN
  /\ wal_len \in Nat /\ wal_flushed \in 0..wal_len
  /\ flusher_active \in BOOLEAN /\ failed \in {"no", "fixed", "compat"}
  /\ durable_records \in 0..wal_flushed /\ job \in 0..wal_len
  /\ visible_next \in Nat \ {0} /\ ready \subseteq (visible_next + 1) .. wal_len
  /\ pub_started \in Nat /\ pub_finished \in 0..pub_started
  /\ outcome \in [Procs -> {"unset", "ok", "rejected", "wedged"}]
  /\ seq \in [Procs -> 0..wal_len]
  /\ pc \in [Procs -> Labels]
  /\ \A p \in Procs : /\ held[p] \in Seq(Clients)
                       /\ \A i \in DOMAIN stack[p] :
                            /\ stack[p][i].tail \in Seq(Procs) \ {<<>>}
                            /\ stack[p][i].plan \in Seq(Steps) \ {<<>>}

\* WAL before visibility, whatever the order in which tails finish: every index
\* inside the published prefix is covered by a completed flush.
VisibleIsDurable == CommittedSeq <= wal_flushed

\* An OK outcome is given only to a commit that readers can already see (and which
\* is therefore durable), never to one held behind a gap in the join.
AckedIsVisible ==
  \A p \in Procs : outcome[p] = "ok" => seq[p] \in 1..CommittedSeq

\* The tails that have not yet reported their indices to the join.
Unreported ==
  LET frames == UNION {ToSet(stack[p]) : p \in Procs}
      before == Work \ {"cover", "ack"}
  IN ToSet(pending_tails) \cup {held[c] : c \in Sequencers}
     \cup {f.tail : f \in {g \in frames : Head(g.plan) \in before}}

\* Nothing is visible before its own tail reported it, in whatever order the tails of
\* both strategies finish: the join never publishes over a gap.
NoGapIsSkipped ==
  \A tail \in Unreported : \A m \in ToSet(tail) : seq[m] > 0 => seq[m] > CommittedSeq

\* The wave tails somebody still owns: pending, on a finisher's stack, or in the
\* sequencer's hands between the commit lock and the hand-over.
Unfinished(frame) ==
  ~IsLaneTail(frame.tail) /\ (Head(frame.plan) \in Work \/ "finish" \in ToSet(frame.plan))
OwnedTails ==
  Len(pending_tails)
  + Cardinality({pi \in Procs \X (1..Cardinality(Procs)) :
      pi[2] <= Len(stack[pi[1]]) /\ Unfinished(stack[pi[1]][pi[2]])})
  + Cardinality({c \in Sequencers : held[c] # <<>> /\ pc[c] \notin {"available", "sequence"}})

\* tails_finished counts every applied tail at most once, and on a healthy path
\* applied - finished is exactly the number of tails somebody owns: the quantity
\* that the capacity gate, quiescence and the claim pre-check all rely on.
TailsCountedOnce ==
  /\ tails_finished + OwnedTails <= tails_applied
  /\ ~Poisoned => tails_finished + OwnedTails = tails_applied

\* The re-proof under the commit lock is enough: once no tail of either strategy is
\* unfinished, everything sequenced is published, so the next claimed index cannot
\* land above a gap.
QuiescenceIsComplete == Quiescent /\ ~Poisoned => CommittedSeq = wal_len

\* require_publication_coverage never fails: a serialized claimant always finds its
\* own index covered ("a gap here is an invariant failure").
NoCoverageGap == \A s \in Claimants : pc[s] # "gap"

\* wait_wave_tail_capacity bounds what is applied and not yet published: no more tails are
\* handed over and unfinished than the pipeline holds, whoever finishes them, unless the
\* path is wedged, which opens the gate.  The sequencer applies one more wave before it
\* stops there.  (Its documentation leaves out that one: "bounds applied-but-unpublished
\* state at WAVE_TAIL_PIPELINE_DEPTH waves".)
PipelineBounded ==
  \/ Poisoned \/ wedged
  \/ SatSub(tails_handed, tails_finished) <= WAVE_TAIL_PIPELINE_DEPTH

\* While the path is healthy one thread at a time drains and sequences, so waves
\* reach the log in arrival order.
OneSequencer ==
  \/ Poisoned \/ wedged
  \/ Cardinality({c \in Sequencers : \/ held[c] # <<>>
                                     \/ pc[c] \in {"drain", "handed", "wake", "step_down"}}) <= 1

\* Every caller returns, and every item it submitted has an outcome: no lost wake-up,
\* no leaderless queue, no tail without a claimer, no failure that strands a waiter.
EveryCallerReturns ==
  \A p \in Procs :
    <>(Returned(p) /\ (\/ outcome[p] # "unset"
                       \/ pc[p] \in {"absent", "refused"} \/ p \in Drivers))

\* A claimant asleep in wait_publication_tail_quiescence is woken once the last
\* registered tail finished: finish_publication_tail promises to "wake both generic
\* quiescence waiters and the inherited classic-wave publication wait loop".
QuiescenceWaiterWakes ==
  \A s \in Claimants :
    pc[s] = "sleep_publication" /\ pub_started = pub_finished ~> pc[s] # "sleep_publication"

\* The periodic probe rotates the WAL under load: a sequencer that starts a checkpoint
\* while it holds its wave's tail comes out of it ("sustained load can never starve
\* rotation").
RotationNotStarved ==
  \A c \in Clients : pc[c] = "quiesce" /\ held[c] # <<>> ~> pc[c] = "gate"

\* The commit path implements the publication law.
Law == INSTANCE PublicationLaw WITH
         MaxIndex <- Cardinality(Procs), sequenced <- wal_len, durable <- wal_flushed,
         visible <- CommittedSeq, gated <- Poisoned,
         acked <- {seq[p] : p \in {q \in Procs : outcome[q] = "ok"}}

\* Every step of the commit path is a step of the law or leaves it alone: sequencing
\* stops at the gate, the flush and the watermark move by prefix, and a serialized
\* commit lands on a complete prefix.
ImplementsLaw == Law!LiveSpec
=============================================================================
