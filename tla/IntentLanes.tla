----------------------------- MODULE IntentLanes -----------------------------
(***************************************************************************)
(* Optimized intent lanes: admission of a covered UPDATE or DELETE, its    *)
(* routing by key to a lane, the lane's pump, and the drain barrier that   *)
(* resizes the set of active lanes.                                        *)
(*   crates/engine/src/engine_dml_concurrent/lane.rs, lane_apply.rs,       *)
(*   state.rs; engine_dml_intent.rs; engine_intent_lanes.rs                *)
(*                                                                         *)
(* The log is the sequence of commits in canonical order.  Flush and       *)
(* publication are those of CommitPath; here a commit becomes ready at     *)
(* some later point and is visible once everything before it is.           *)
(***************************************************************************)
EXTENDS Naturals, Sequences, FiniteSets, SequencesExt

CONSTANTS Intents,                 \* the submitted intents
          Writers,                 \* classic UPDATEs and DELETEs
          KeyOf, TxnOf,            \* the key and the transaction id of each of both
          Hash,                    \* key -> hash of lane_for_pk
          LaneCount, LowLanes,     \* lane_count, and the smaller routing subset
          WAVE_MAX,
          MissingVerdicts,         \* whether the device may give no verdict
          MaxResizes               \* bound on resizes

Lanes == 1..LaneCount

ASSUME IntentLanesAssumption ==
  /\ LaneCount \in Nat /\ LowLanes \in 1..LaneCount
  /\ WAVE_MAX \in Nat \ {0}
  /\ MissingVerdicts \in BOOLEAN
  /\ MaxResizes \in Nat
  /\ DOMAIN KeyOf = Intents \cup Writers /\ DOMAIN TxnOf = Intents \cup Writers

VARIABLES
  at,          \* intent -> where it is
  snap,        \* intent or writer -> read_snapshot
  outcome,     \* intent -> its outcome, "none" while pending
  counted,     \* intents that carry the handle on outstanding
  strand,      \* submitters between the push to the hold queue and the re-check
  claims,      \* pending_transaction_claims
  outstanding,
  queues,      \* lane -> sequence of intents
  hold,        \* resize_hold
  holding,     \* resize_holding
  active,      \* active_lanes
  leader,      \* where the resize leader is
  rerouting,   \* intents the leader took from the hold queue and has not yet resubmitted
  resizes,
  pump,        \* lane -> where the owner of the pump guard is; "dead": poisoned guard
  wave,        \* lane -> the intents of its wave
  log,         \* the canonical order: [key, txn, by] of every commit
  ready,       \* sequences durable and ready to be published
  committed,   \* committed_seq
  writer,      \* classic writer -> "start", "prepared", "applied" or "done"
  path         \* "open"; "poisoned": by a panic under the commit mutex; "wedged", and
               \* "drained" once the pending intents have been failed

vars == <<at, snap, outcome, counted, strand, claims, outstanding, queues, hold, holding,
          active, leader, rerouting, resizes, pump, wave, log, ready, committed, writer,
          path>>

Init ==
  /\ at = [i \in Intents |-> "start"]
  /\ snap = [i \in Intents \cup Writers |-> 0]
  /\ outcome = [i \in Intents |-> "none"]
  /\ counted = {} /\ strand = {} /\ claims = {} /\ outstanding = 0
  /\ queues = [l \in Lanes |-> <<>>]
  /\ hold = {} /\ holding = FALSE /\ active = LaneCount
  /\ leader = "idle" /\ rerouting = {} /\ resizes = 0
  /\ pump = [l \in Lanes |-> "idle"]
  /\ wave = [l \in Lanes |-> <<>>]
  /\ log = <<>> /\ ready = {} /\ committed = 0
  /\ writer = [w \in Writers |-> "start"]
  /\ path = "open"

-----------------------------------------------------------------------------
(* Outcomes.                                                                   *)

\* A fault: the claim outlives the outcome.
SettleKeepsClaim(S, result) ==
  /\ outcome' = [i \in Intents |-> IF i \in S THEN result[i] ELSE outcome[i]]
  /\ counted' = counted \ S
  /\ outstanding' = outstanding - Cardinality(S \cap counted)
  /\ claims' = claims

\* A fault: the count is given back whether or not it is carried.
SettleUncounted(S, result) ==
  /\ outcome' = [i \in Intents |-> IF i \in S THEN result[i] ELSE outcome[i]]
  /\ counted' = counted \ S
  /\ outstanding' = outstanding - Cardinality(S)
  /\ claims' = claims \ {TxnOf[i] : i \in S}

\* set_outcome of the intents of S: the claim goes, and the count if it is carried.
Settle(S, result) ==
  /\ outcome' = [i \in Intents |-> IF i \in S THEN result[i] ELSE outcome[i]]
  /\ counted' = counted \ S
  /\ outstanding' = outstanding - Cardinality(S \cap counted)
  /\ claims' = claims \ {TxnOf[i] : i \in S}

\* ensure_commit_path_available fails.
Closed == path # "open"

LeaveOutcomes == UNCHANGED <<outcome, counted, outstanding, claims>>
LeaveRouting == UNCHANGED <<hold, holding, active, leader, rerouting, resizes, strand>>
LeaveLanes == UNCHANGED <<queues, pump, wave>>
LeaveOrder == UNCHANGED <<log, ready, committed, writer, path>>

All(S, r) == [i \in S |-> r]
Move(S, place) == at' = [i \in Intents |-> IF i \in S THEN place ELSE at[i]]

-----------------------------------------------------------------------------
(* Admission.                                                                  *)

\* The commit sequence the status index records for a transaction, 0 for none
Recorded(t) == IF \E s \in DOMAIN log : log[s].txn = t
               THEN CHOOSE s \in DOMAIN log : log[s].txn = t
               ELSE 0

\* The read snapshot is taken before the intent is claimed.
Build(i) ==
  /\ at[i] = "start" /\ ~Closed
  /\ Move({i}, "built")
  /\ snap' = [snap EXCEPT ![i] = committed]
  /\ LeaveOutcomes /\ LeaveRouting /\ LeaveLanes /\ LeaveOrder

\* A refusal before the intent owns its claim: nothing to give back.
Refused(i) ==
  LET s == Recorded(TxnOf[i]) IN
  outcome' = [outcome EXCEPT ![i] = IF s > 0 /\ committed >= s THEN "ok" ELSE "unknown"]

\* claim_lane_intent: the recorded outcome and the pending registry are consulted, and
\* the reservation made, in one hold of the commit mutex.
Claim(i) ==
  /\ at[i] = "built"
  /\ \/ /\ Recorded(TxnOf[i]) > 0 \/ TxnOf[i] \in claims
        /\ Move({i}, "done")
        /\ Refused(i)
        /\ UNCHANGED <<counted, outstanding, claims>>
     \/ /\ Recorded(TxnOf[i]) = 0 /\ TxnOf[i] \notin claims
        /\ Move({i}, "submit")
        /\ claims' = claims \cup {TxnOf[i]}
        /\ UNCHANGED <<outcome, counted, outstanding>>
  /\ UNCHANGED snap
  /\ LeaveRouting /\ LeaveLanes /\ LeaveOrder

-----------------------------------------------------------------------------
(* submit_lane_intent: count first, then look at the barrier.                  *)

\* The leader is done with an intent once it is counted out of its hands.
Handled(i) == rerouting' = rerouting \ {i}
LeaveBarrier == UNCHANGED <<holding, active, leader, resizes>>

\* The path check at an entrance fails.
SubmitRefused(i) ==
  /\ at[i] \in {"submit", "divert", "route"} /\ Closed
  /\ Move({i}, "done")
  /\ Settle({i}, All({i}, "closed"))
  /\ Handled(i)
  /\ UNCHANGED <<snap, hold, strand>>
  /\ LeaveBarrier /\ LeaveLanes /\ LeaveOrder

Count(i) ==
  /\ at[i] = "submit" /\ ~Closed
  /\ Move({i}, "counted")
  /\ outstanding' = outstanding + 1
  /\ UNCHANGED <<snap, outcome, counted, claims, rerouting, hold, strand>>
  /\ LeaveBarrier /\ LeaveLanes /\ LeaveOrder

Check(i) ==
  /\ at[i] = "counted"
  /\ \/ /\ holding
        /\ Move({i}, "divert")
        /\ outstanding' = outstanding - 1
        /\ UNCHANGED counted
     \/ /\ ~holding
        /\ Move({i}, "route")
        /\ counted' = counted \cup {i}
        /\ UNCHANGED outstanding
  /\ UNCHANGED <<snap, outcome, claims, rerouting, hold, strand>>
  /\ LeaveBarrier /\ LeaveLanes /\ LeaveOrder

\* lane_for_pk
LaneOf(i) == (Hash[KeyOf[i]] % active) + 1

Route(i) ==
  /\ at[i] = "route" /\ ~Closed
  /\ Move({i}, "queued")
  /\ queues' = [queues EXCEPT ![LaneOf(i)] = Append(@, i)]
  /\ Handled(i)
  /\ UNCHANGED <<snap, hold, strand, pump, wave>>
  /\ LeaveOutcomes /\ LeaveBarrier /\ LeaveOrder

Hold(i) ==
  /\ at[i] = "divert" /\ ~Closed
  /\ Move({i}, "held")
  /\ hold' = hold \cup {i}
  /\ strand' = strand \cup {i}
  /\ UNCHANGED <<snap, rerouting>>
  /\ LeaveOutcomes /\ LeaveBarrier /\ LeaveLanes /\ LeaveOrder

\* rescue_held_intents: take all that is held and give it a fresh read snapshot.
Rescue ==
  /\ hold' = {}
  /\ Move(hold, "submit")
  /\ snap' = [i \in DOMAIN snap |-> IF i \in hold THEN committed ELSE snap[i]]

\* A fault: the submitter does not look at the barrier again after its push.
NoStrandGuard(i) ==
  /\ i \in strand
  /\ strand' = strand \ {i}
  /\ Handled(i)
  /\ UNCHANGED <<hold, at, snap>>
  /\ LeaveOutcomes /\ LeaveBarrier /\ LeaveLanes /\ LeaveOrder

\* The strand guard: the barrier may have been released before the push.
StrandGuard(i) ==
  /\ i \in strand
  /\ strand' = strand \ {i}
  /\ \/ holding /\ UNCHANGED <<hold, at, snap>>
     \/ ~holding /\ Rescue
  /\ Handled(i)
  /\ LeaveOutcomes /\ LeaveBarrier /\ LeaveLanes /\ LeaveOrder

-----------------------------------------------------------------------------
(* maybe_resize_lanes.  The population thresholds, the dwell and the low       *)
(* streak decide when and which way; here any time and either way.             *)

LeaveSubmitters == UNCHANGED <<snap, at, strand>>

RaiseBarrier ==
  /\ leader = "idle" /\ resizes < MaxResizes /\ ~Closed
  /\ leader' = "draining"
  /\ holding' = TRUE
  /\ resizes' = resizes + 1
  /\ UNCHANGED <<hold, active, rerouting>>
  /\ LeaveSubmitters /\ LeaveOutcomes /\ LeaveLanes /\ LeaveOrder

\* A fault: the leader waits for the queues only.
QueuesEmpty == \A l \in Lanes : queues[l] = <<>>

Drained == outstanding = 0

Flip ==
  /\ leader = "draining" /\ Drained
  /\ leader' = "lower"
  /\ active' \in {LowLanes, LaneCount} \ {active}
  /\ UNCHANGED <<hold, holding, rerouting, resizes>>
  /\ LeaveSubmitters /\ LeaveOutcomes /\ LeaveLanes /\ LeaveOrder

\* The drain exceeds DRAIN_LIMIT: the old epoch stays.
DrainTimesOut ==
  /\ leader = "draining" /\ ~Drained
  /\ leader' = "lower"
  /\ UNCHANGED <<hold, holding, active, rerouting, resizes>>
  /\ LeaveSubmitters /\ LeaveOutcomes /\ LeaveLanes /\ LeaveOrder

LowerBarrier ==
  /\ leader = "lower"
  /\ leader' = "take"
  /\ holding' = FALSE
  /\ UNCHANGED <<hold, active, rerouting, resizes>>
  /\ LeaveSubmitters /\ LeaveOutcomes /\ LeaveLanes /\ LeaveOrder

TakeHeld ==
  /\ leader = "take"
  /\ leader' = "reroute"
  /\ rerouting' = hold
  /\ Rescue
  /\ UNCHANGED <<holding, active, resizes, strand>>
  /\ LeaveOutcomes /\ LeaveLanes /\ LeaveOrder

\* The leader lock is released after the last held intent is resubmitted.
ResizeDone ==
  /\ leader = "reroute" /\ rerouting = {}
  /\ leader' = "idle"
  /\ UNCHANGED <<hold, holding, active, rerouting, resizes>>
  /\ LeaveSubmitters /\ LeaveOutcomes /\ LeaveLanes /\ LeaveOrder

-----------------------------------------------------------------------------
(* drive_intent_lane.                                                          *)

\* latest_write: the last commit on a key
LatestWrite(k) == LET S == {s \in DOMAIN log : log[s].key = k}
                  IN  IF S = {} THEN 0 ELSE CHOOSE s \in S : \A r \in S : r <= s

\* lane_validate_unique finds a version newer than the snapshot.
Stale(i) == LatestWrite(KeyOf[i]) > snap[i]

\* An earlier operation of the wave, itself not rejected, holds the slot.
LaterDuplicate(b, n) ==
  \E m \in 1..(n - 1) : KeyOf[b[m]] = KeyOf[b[n]] /\ ~Stale(b[m])

\* The wave is drained and validated: a newer version, a second operation on a slot, or
\* no verdict at all is a conflict.
Form(l) ==
  LET n == IF Len(queues[l]) < WAVE_MAX THEN Len(queues[l]) ELSE WAVE_MAX
      b == SubSeq(queues[l], 1, n)
      beaten == {b[m] : m \in {m \in 1..n : Stale(b[m]) \/ LaterDuplicate(b, m)}}
  IN
  /\ pump[l] = "idle" /\ n > 0 /\ ~Closed
  /\ queues' = [queues EXCEPT ![l] = SubSeq(@, n + 1, Len(@))]
  /\ \E lost \in {beaten} \cup (IF MissingVerdicts THEN {ToSet(b)} ELSE {}) :
       LET winners == SelectSeq(b, LAMBDA i : i \notin lost) IN
       /\ wave' = [wave EXCEPT ![l] = winners]
       /\ pump' = [pump EXCEPT ![l] = IF winners = <<>> THEN "idle" ELSE "formed"]
       /\ at' = [i \in Intents |-> IF i \in lost THEN "done"
                                   ELSE IF i \in ToSet(b) THEN "wave" ELSE at[i]]
       /\ Settle(lost, All(lost, "conflict"))
  /\ UNCHANGED snap
  /\ LeaveRouting /\ LeaveOrder

\* The wave is over: every intent in it has the same result.
EndWave(l, next, result) ==
  /\ pump' = [pump EXCEPT ![l] = next]
  /\ wave' = [wave EXCEPT ![l] = <<>>]
  /\ Move(ToSet(wave[l]), "done")
  /\ Settle(ToSet(wave[l]), All(ToSet(wave[l]), result))
  /\ UNCHANGED <<snap, queues>>
  /\ LeaveRouting

\* Under the commit mutex: the path is closed, or row ids, the proposal or a record fail
\* and are rolled back.
CutFails(l) ==
  /\ pump[l] = "formed"
  /\ EndWave(l, "idle", IF Closed THEN "closed" ELSE "error")
  /\ LeaveOrder

Commits(l) ==
  [n \in 1..Len(wave[l]) |->
     [key |-> KeyOf[wave[l][n]], txn |-> TxnOf[wave[l][n]], by |-> wave[l][n]]]

\* No retry of these transactions was recorded or is earlier in the wave, as each holds its
\* claim since admission: the retry branches of the cut are not taken (TxnCommitsOnce).
Fresh(l) == \A i \in ToSet(wave[l]) : Recorded(TxnOf[i]) = 0

\* The second validation finds a stale candidate.  Its own claim is pending, so the
\* verdict is not looked at, and the missing target count panics: the wave is dropped
\* without outcomes, and the pump guard and the commit mutex are poisoned.
CutPanics(l) ==
  /\ pump[l] = "formed" /\ ~Closed /\ Fresh(l)
  /\ MissingVerdicts \/ \E i \in ToSet(wave[l]) : Stale(i)
  /\ pump' = [pump EXCEPT ![l] = "dead"]
  /\ wave' = [wave EXCEPT ![l] = <<>>]
  /\ Move(ToSet(wave[l]), "dropped")
  /\ path' = "poisoned"
  /\ UNCHANGED <<snap, queues, log, ready, committed, writer>>
  /\ LeaveOutcomes /\ LeaveRouting

\* A fault: the candidates are not validated again.
CutWithoutRecheck(l) ==
  /\ pump[l] = "formed" /\ ~Closed
  /\ log' = log \o Commits(l)
  /\ pump' = [pump EXCEPT ![l] = "tail"]
  /\ UNCHANGED <<snap, at, queues, wave, ready, committed, writer, path>>
  /\ LeaveOutcomes /\ LeaveRouting

\* Sequence, WAL, status and device apply in one hold of the commit mutex.
Cut(l) ==
  /\ pump[l] = "formed" /\ ~Closed /\ Fresh(l)
  /\ \A i \in ToSet(wave[l]) : ~Stale(i)
  /\ log' = log \o Commits(l)
  /\ pump' = [pump EXCEPT ![l] = "tail"]
  /\ UNCHANGED <<snap, at, queues, wave, ready, committed, writer, path>>
  /\ LeaveOutcomes /\ LeaveRouting

\* A fault: what failed after the sequence was assigned is reported as an error.
ErrorIsDefinite == "error"

Indeterminate == "unknown"

\* Recording the status or applying fails after the sequence is assigned.
ApplyFails(l) ==
  /\ pump[l] = "formed" /\ ~Closed /\ Fresh(l)
  /\ \A i \in ToSet(wave[l]) : ~Stale(i)
  /\ log' = log \o Commits(l)
  /\ path' = "wedged"
  /\ EndWave(l, "idle", Indeterminate)
  /\ UNCHANGED <<ready, committed, writer>>

SeqsOf(l) == {s \in DOMAIN log : log[s].by \in ToSet(wave[l])}

\* publish_ready_indices: the watermark passes every ready sequence that has no gap
\* before it.
Publish(S) ==
  LET r == ready \cup S IN
  /\ ready' = r
  /\ committed' = CHOOSE c \in 0..Len(log) : 1..c \subseteq r /\ c + 1 \notin r

\* The group is durable; the join does not ask whether the path is closed.
FinishTail(l) ==
  /\ pump[l] = "tail"
  /\ Publish(SeqsOf(l))
  /\ pump' = [pump EXCEPT ![l] = "published"]
  /\ UNCHANGED <<at, snap, queues, wave, log, writer, path>>
  /\ LeaveOutcomes /\ LeaveRouting

\* Every sequence of the wave is covered by the watermark.
Acknowledge(l) ==
  /\ pump[l] = "published" /\ \A s \in SeqsOf(l) : s <= committed
  /\ EndWave(l, "idle", "ok")
  /\ LeaveOrder

\* The flush or the publication fails, or the path is closed while the wave waits: the
\* intents are answered while the path may still be open.
TailFails(l) ==
  /\ pump[l] = "tail" \/ (pump[l] = "published" /\ Closed)
  /\ EndWave(l, "failed", Indeterminate)
  /\ LeaveOrder

\* TailCompletion is dropped: the path is closed.
DropTail(l) ==
  /\ pump[l] = "failed"
  /\ pump' = [pump EXCEPT ![l] = "idle"]
  /\ path' = "wedged"
  /\ UNCHANGED <<at, snap, queues, wave, log, ready, committed, writer>>
  /\ LeaveOutcomes /\ LeaveRouting

\* fail_all_pending_commit_work, the second half of wedging: every queued and held intent
\* is failed.
DrainPending ==
  LET pending == hold \cup UNION {ToSet(queues[l]) : l \in Lanes} IN
  /\ path = "wedged"
  /\ path' = "drained"
  /\ queues' = [l \in Lanes |-> <<>>]
  /\ hold' = {}
  /\ Move(pending, "done")
  /\ Settle(pending, All(pending, "closed"))
  /\ UNCHANGED <<snap, strand, rerouting, pump, wave, log, ready, committed, writer>>
  /\ LeaveBarrier

-----------------------------------------------------------------------------
(* A classic UPDATE or DELETE: it makes no reservation, and is validated and   *)
(* sequenced by the commit wave under the same mutex.                          *)

WriterPrepares(w) ==
  /\ writer[w] = "start" /\ ~Closed
  /\ writer' = [writer EXCEPT ![w] = "prepared"]
  /\ snap' = [snap EXCEPT ![w] = committed]
  /\ UNCHANGED <<at, log, ready, committed, path>>
  /\ LeaveOutcomes /\ LeaveRouting /\ LeaveLanes

\* A fault: the wave does not look at the reservations of the lanes.
RefusedByStatus(w) == Recorded(TxnOf[w]) > 0 \/ Stale(w)

\* Already recorded, reserved by an intent, or beaten by a newer version
WaveRefuses(w) == Recorded(TxnOf[w]) > 0 \/ TxnOf[w] \in claims \/ Stale(w)

WriterRefused(w) ==
  /\ writer[w] = "prepared" /\ ~Closed /\ WaveRefuses(w)
  /\ writer' = [writer EXCEPT ![w] = "done"]
  /\ UNCHANGED <<at, snap, log, ready, committed, path>>
  /\ LeaveOutcomes /\ LeaveRouting /\ LeaveLanes

WriterCommits(w) ==
  /\ writer[w] = "prepared" /\ ~Closed /\ ~WaveRefuses(w)
  /\ writer' = [writer EXCEPT ![w] = "applied"]
  /\ log' = Append(log, [key |-> KeyOf[w], txn |-> TxnOf[w], by |-> w])
  /\ UNCHANGED <<at, snap, ready, committed, path>>
  /\ LeaveOutcomes /\ LeaveRouting /\ LeaveLanes

WriterPublishes(w) ==
  /\ writer[w] = "applied"
  /\ writer' = [writer EXCEPT ![w] = "done"]
  /\ Publish({s \in DOMAIN log : log[s].by = w})
  /\ UNCHANGED <<at, snap, log, path>>
  /\ LeaveOutcomes /\ LeaveRouting /\ LeaveLanes

Next ==
  \/ \E i \in Intents :
       \/ Build(i) \/ Claim(i) \/ SubmitRefused(i) \/ Count(i) \/ Check(i) \/ Route(i)
       \/ Hold(i) \/ StrandGuard(i)
  \/ RaiseBarrier \/ Flip \/ DrainTimesOut \/ LowerBarrier \/ TakeHeld \/ ResizeDone
  \/ \E l \in Lanes :
       \/ Form(l) \/ CutFails(l) \/ CutPanics(l) \/ Cut(l) \/ ApplyFails(l)
       \/ FinishTail(l) \/ Acknowledge(l) \/ TailFails(l) \/ DropTail(l)
  \/ DrainPending
  \/ \E w \in Writers :
       WriterPrepares(w) \/ WriterRefused(w) \/ WriterCommits(w) \/ WriterPublishes(w)

Spec == Init /\ [][Next]_vars

\* Every thread keeps running: submitters, the resize leader, the drivers that poll the
\* lanes, and the classic writers.
FairSpec ==
  /\ Spec
  /\ \A i \in Intents :
       /\ WF_vars(Claim(i) \/ SubmitRefused(i) \/ Count(i) \/ Check(i) \/ Route(i) \/ Hold(i))
       /\ WF_vars(StrandGuard(i))
  /\ WF_vars(Flip \/ DrainTimesOut \/ LowerBarrier \/ TakeHeld \/ ResizeDone)
  /\ \A l \in Lanes :
       WF_vars(Form(l) \/ CutFails(l) \/ CutPanics(l) \/ Cut(l)
               \/ FinishTail(l) \/ Acknowledge(l) \/ TailFails(l) \/ DropTail(l))
  /\ \A w \in Writers : WF_vars(WriterPublishes(w))

-----------------------------------------------------------------------------
InLane == {"queued", "wave"}
Owning == {"submit", "counted", "divert", "route", "held", "dropped"} \cup InLane

\* Every variable has its type.
TypeOK ==
  /\ at \in [Intents -> {"start", "built", "done"} \cup Owning]
  /\ outcome \in [Intents -> {"none", "ok", "conflict", "error", "unknown", "closed"}]
  /\ counted \subseteq Intents /\ strand \subseteq Intents /\ hold \subseteq Intents
  /\ rerouting \subseteq Intents
  /\ outstanding \in 0..Cardinality(Intents)
  /\ active \in {LowLanes, LaneCount}
  /\ pump \in [Lanes -> {"idle", "formed", "tail", "published", "failed", "dead"}]
  /\ committed \in 0..Len(log)
  /\ path \in {"open", "poisoned", "wedged", "drained"}

\* First committer wins, across lanes, resizes and classic waves: between the snapshot a
\* request was admitted or re-routed with and its own commit there is no other commit on
\* its key.
FirstCommitterWins ==
  \A s \in DOMAIN log :
    \A r \in (snap[log[s].by] + 1)..(s - 1) : log[r].key # log[s].key

LaneHolding(i) ==
  {l \in Lanes : i \in ToSet(queues[l]) \/ i \in ToSet(wave[l])}

\* Operations on one key are never in two lanes at a time, although a resize moves keys
\* between lanes: the drain barrier and the count-then-check order of submit_lane_intent
\* let no straggler of the old epoch in.
SameKeyOneLane ==
  \A i, j \in Intents :
    KeyOf[i] = KeyOf[j] => Cardinality(LaneHolding(i) \cup LaneHolding(j)) <= 1

\* A transaction id commits once, whether its retries go through a lane or through the
\* classic wave and whenever they race with the first attempt; and no wave comes to its cut
\* with a transaction that has committed already.
TxnCommitsOnce ==
  /\ \A r, s \in DOMAIN log : log[r].txn = log[s].txn => r = s
  /\ \A l \in Lanes : pump[l] = "formed" => Fresh(l)

\* The pending registry holds exactly the transactions of the intents in flight, and the
\* population exactly those that passed the barrier: neither set_outcome nor a diverted or
\* refused submission leaks or double-counts one.
BooksAreExact ==
  /\ claims = {TxnOf[i] : i \in {j \in Intents : at[j] \in Owning}}
  /\ \A i, j \in Intents :
       at[i] \in Owning /\ at[j] \in Owning /\ TxnOf[i] = TxnOf[j] => i = j
  /\ counted = {i \in Intents : at[i] \in {"route", "dropped"} \cup InLane}
  /\ outstanding = Cardinality(counted) +
                   Cardinality({i \in Intents : at[i] = "counted"})

\* An outcome is true: "ok" only when the transaction is in the log and visible, and a
\* conflict or an error only when this intent is not in the log and never will be.
OutcomesAreTrue ==
  \A i \in Intents :
    /\ outcome[i] = "ok" => \E s \in 1..committed : log[s].txn = TxnOf[i]
    /\ outcome[i] \in {"conflict", "error"} => \A s \in DOMAIN log : log[s].by # i

\* Every admitted intent is answered: it gets its outcome, or poll_intent finds the
\* commit path closed.  None is stranded in the hold queue by a barrier released under
\* it, and none waits for a resize that waits for it.
EveryIntentIsAnswered ==
  \A i \in Intents : at[i] = "submit" ~> (outcome[i] # "none" \/ Closed)

\* lane.rs: "a classic/general writer may have committed while it ran.  Re-probe after
\* taking the one commit mutex ... and discard every stale candidate".  A stale candidate
\* is discarded with a conflict: no wave is lost to it.
StaleCandidatesAreDiscarded == \A i \in Intents : at[i] # "dropped"
=============================================================================
