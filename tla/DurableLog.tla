----------------------------- MODULE DurableLog ------------------------------
(***************************************************************************)
(* The durable log of one engine: the replicator that hands out commit     *)
(* indices, the serial WAL buffer with its live segment, checkpoint        *)
(* rotation, and the reopen after a crash.                                 *)
(*   crates/wal/src/lib.rs buffer.rs buffer/group.rs checkpoint.rs         *)
(*   crates/engine/src/engine_commit.rs engine_wal_archive.rs              *)
(*   crates/engine/src/engine_lifecycle.rs, engine_dml_concurrent/         *)
(*                                                                         *)
(* A record is its commit index and its transaction.  A byte offset of the *)
(* live segment is the number of records before it; the header is offset   *)
(* 0.  The commit mutex is pc: it is free when pc = "idle".                *)
(***************************************************************************)
EXTENDS LocalReplicator, Sequences

CONSTANT MaxTxn          \* bound on transactions

ASSUME DurableLogAssumption == MaxTxn \in Nat

VARIABLES
  mode,       \* "up", "down" or "refused"
  pc,         \* where the holder of the commit mutex stands
  mark,       \* wal_len_before of the holder
  next_txn,   \* the next transaction id
  wal,        \* WalBuffer.records
  flushed,    \* flushed_records
  base,       \* segment_base_records
  durable_bytes, tail_offset_recorded,
  io,         \* target of the group job in flight, 0 when there is none
  fault,      \* "none", "rotation" (poisoned), "slot" (and the group slot), "fixed"
  wedged,     \* the engine's commit path is closed until a restart
  acked,      \* records reported to a client as committed
  live,       \* disk: the records of the live segment
  synced,     \* disk: how many of them are certain to survive
  ckpt,       \* disk: the checkpoint segment
  control,    \* disk: the control file, its record count and its last transaction
  tail,       \* disk: the tail-offset sidecar
  stale       \* disk: earlier sidecars that a power loss can bring back

memory == <<mark, wal, flushed, base, durable_bytes, tail_offset_recorded, io, fault,
            wedged>>
disk == <<live, synced, ckpt, control, tail, stale>>
logVars == <<vars, mode, pc, next_txn, acked, memory, disk>>

Prefix(s, n) == SubSeq(s, 1, n)

\* checkpoint_meta
CheckpointMeta(s) ==
  [count |-> Len(s), last_txn |-> IF s = <<>> THEN 0 ELSE s[Len(s)].txn]

LogInit ==
  /\ Init
  /\ mode = "up" /\ pc = "idle" /\ mark = 0 /\ next_txn = 1
  /\ wal = <<>> /\ flushed = 0 /\ base = 0 /\ durable_bytes = 0
  /\ tail_offset_recorded = 0 /\ io = 0 /\ fault = "none" /\ wedged = FALSE
  /\ acked = {}
  /\ live = <<>> /\ synced = 0 /\ ckpt = <<>> /\ control = CheckpointMeta(<<>>)
  /\ tail = 0 /\ stale = {}

-----------------------------------------------------------------------------
(* Commits.  A serial commit flushes before it applies; a wave or a lane       *)
(* appends and applies under the mutex, and its tail flushes later.            *)

Free == mode = "up" /\ pc = "idle" /\ ~wedged

\* commit_state_after_wave_quiescence: every earlier tail is durable and published
Quiescent == io = 0 /\ flushed = Len(wal) /\ applied_index = Len(wal)

At(p, q) == mode = "up" /\ pc = p /\ pc' = q

Begin(n, q) ==
  /\ Free
  /\ next_txn + n - 1 <= MaxTxn
  /\ pc' = q
  /\ mark' = Len(wal)
  /\ UNCHANGED <<mode, next_txn, acked, wal, flushed, base, durable_bytes,
                 tail_offset_recorded, io, fault, wedged, disk>>

ProposeSerial == Quiescent /\ Begin(1, "serial_proposed") /\ Propose

\* One wave operation, or a lane's block of two
ProposeWave ==
  \/ Begin(1, "wave_proposed") /\ Propose
  \/ Begin(2, "wave_proposed") /\ ProposeBatch(2)

\* The typed path reserves its index before it proposes.
ReserveTyped == Begin(1, "reserved") /\ ReserveNextProposal

LeaveMemoryAndDisk == UNCHANGED <<mode, next_txn, acked, memory, disk>>

ProposeTyped ==
  /\ At("reserved", "wave_proposed")
  /\ \E r \in reservations : ProposeReserved(r)
  /\ LeaveMemoryAndDisk

\* A later reservation of the control plane fails.
AbandonTyped ==
  /\ At("reserved", "idle")
  /\ \E r \in reservations : AbandonReservation(r)
  /\ LeaveMemoryAndDisk

AppendCanonical ==
  LET n == commit_index - Len(wal)
      new == [i \in 1..n |-> [index |-> Len(wal) + i, txn |-> next_txn + i - 1]]
  IN
  /\ \/ At("serial_proposed", "serial_appended")
     \/ At("wave_proposed", "wave_appended")
  /\ wal' = wal \o new
  /\ next_txn' = next_txn + n
  /\ UNCHANGED <<vars, mode, acked, mark, flushed, base, durable_bytes,
                 tail_offset_recorded, io, fault, wedged, disk>>

\* A fault: only the proposal is taken back.
RollBackProposalOnly ==
  /\ \E p \in {"serial_proposed", "wave_proposed", "wave_appended", "serial_failed"} :
       At(p, "idle")
  /\ RollbackUnappliedFrom(mark + 1)
  /\ LeaveMemoryAndDisk

\* Building the record, waiting for the commit or recording the status fails: the
\* proposal and, if it was appended, the record are taken back.
RollBack ==
  /\ \E p \in {"serial_proposed", "wave_proposed", "wave_appended", "serial_failed"} :
       At(p, "idle")
  /\ RollbackUnappliedFrom(mark + 1)
  /\ wal' = Prefix(wal, mark)
  /\ UNCHANGED <<mode, next_txn, acked, mark, flushed, base, durable_bytes,
                 tail_offset_recorded, io, fault, wedged, disk>>

ApplyWave ==
  /\ At("wave_appended", "idle")
  /\ MarkApplied(Len(wal))
  /\ LeaveMemoryAndDisk

\* A fault: the serial commit applies and reports before it has flushed.
FinishSerialBeforeFlush ==
  /\ At("serial_appended", "idle")
  /\ io = 0
  /\ MarkApplied(Len(wal))
  /\ acked' = acked \cup {wal[Len(wal)]}
  /\ UNCHANGED <<mode, next_txn, memory, disk>>

FinishSerial ==
  /\ At("serial_appended", "idle")
  /\ flushed = Len(wal)
  /\ MarkApplied(Len(wal))
  /\ acked' = acked \cup {wal[Len(wal)]}
  /\ UNCHANGED <<mode, next_txn, memory, disk>>

\* Applying fails after the record is in the log.
ApplyFails ==
  /\ \/ At("wave_appended", "idle")
     \/ At("serial_appended", "idle") /\ flushed = Len(wal)
  /\ wedged' = TRUE
  /\ UNCHANGED <<vars, mode, next_txn, acked, mark, wal, flushed, base, durable_bytes,
                 tail_offset_recorded, io, fault, disk>>

\* A wave's tail is flushed, published and reported, also when the path is closed after
\* the tail has looked.
Acknowledge ==
  /\ mode = "up"
  /\ LET done == {wal[i] : i \in 1..Min2(flushed, applied_index)} IN
       ~(done \subseteq acked) /\ acked' = acked \cup done
  /\ UNCHANGED <<vars, mode, pc, next_txn, memory, disk>>

-----------------------------------------------------------------------------
(* Group flush.                                                                *)

LeaveFlush == UNCHANGED <<vars, mode, next_txn, acked, mark, wal, base,
                          tail_offset_recorded, ckpt, control, tail, stale>>

\* begin_group_flush and the write of the job: a prefix of the unflushed tail is
\* written at the durable offset.  A tail that has looked before the path is closed
\* still writes.
WriteGroup ==
  /\ mode = "up" /\ pc \in {"idle", "serial_appended"}
  /\ io = 0 /\ fault = "none"
  /\ io' \in (flushed + 1)..Len(wal)
  /\ live' = Prefix(live, durable_bytes) \o SubSeq(wal, flushed + 1, io')
  /\ UNCHANGED <<pc, flushed, durable_bytes, fault, wedged, synced>>
  /\ LeaveFlush

SyncGroup ==
  /\ mode = "up" /\ io > 0
  /\ synced' = Len(live)
  /\ durable_bytes' = Len(live)
  /\ flushed' = io
  /\ io' = 0
  /\ UNCHANGED <<pc, fault, wedged, live>>
  /\ LeaveFlush

\* The serial holder rolls back; the tail of a wave closes the commit path.
FlushFailed ==
  /\ pc' = IF pc = "serial_appended" THEN "serial_failed" ELSE pc
  /\ wedged' = (wedged \/ pc # "serial_appended")

\* The write or the sync fails: what was written may still reach the disk.
GroupFails ==
  /\ mode = "up" /\ io > 0
  /\ io' = 0
  /\ fault' \in {"slot", "fixed"}
  /\ FlushFailed
  /\ UNCHANGED <<flushed, durable_bytes, live, synced>>
  /\ LeaveFlush

\* begin_group_flush refuses: the backing is poisoned, or the identity check or the
\* preallocation fails before anything is written.
FlushRefused ==
  /\ mode = "up" /\ pc \in {"idle", "serial_appended"}
  /\ io = 0 /\ flushed < Len(wal)
  /\ FlushFailed
  /\ UNCHANGED <<io, fault, flushed, durable_bytes, live, synced>>
  /\ LeaveFlush

-----------------------------------------------------------------------------
(* Rotation, checkpoint_and_truncate_durable_wal.  A step ends where a crash   *)
(* leaves another disk.                                                        *)

LeaveRotation == UNCHANGED <<mode, next_txn, acked, mark, wal, flushed, io, wedged>>
LeaveSegment == UNCHANGED <<base, durable_bytes, fault, live, synced>>
LeaveSidecar == UNCHANGED <<tail, stale, tail_offset_recorded>>

\* A fault: the live segment is truncated before the control file is written.
WriteCheckpointThenTruncate ==
  /\ Free /\ Quiescent
  /\ pc' = "control"
  /\ ckpt' = Prefix(wal, flushed)
  /\ live' = <<>> /\ synced' = 0 /\ durable_bytes' = 0 /\ base' = flushed
  /\ stale' = {}
  /\ UNCHANGED <<vars, control, tail, tail_offset_recorded, fault>>
  /\ LeaveRotation

\* write_wal_segment of the whole flushed history; it syncs the directory, and with it
\* the sidecar.
WriteCheckpoint ==
  /\ Free /\ Quiescent
  /\ pc' = "control"
  /\ ckpt' = Prefix(wal, flushed)
  /\ stale' = {}
  /\ UNCHANGED <<vars, control, tail, tail_offset_recorded>>
  /\ LeaveSegment /\ LeaveRotation

WriteControl ==
  /\ At("control", "truncate")
  /\ control' = CheckpointMeta(Prefix(wal, flushed))
  /\ UNCHANGED <<vars, ckpt>>
  /\ LeaveSegment /\ LeaveSidecar /\ LeaveRotation

\* truncate_durable_segment_prefix, up to the rename: the live segment becomes the
\* flushed records after the checkpoint.  The last step of a recovery runs it too.
Rewrite ==
  /\ live' = SubSeq(wal, control.count + 1, flushed)
  /\ synced' = Len(live')
  /\ stale' = {}

TruncatePrefix ==
  /\ \/ At("truncate", "tail")
     \/ At("repair", "repair_tail")
  /\ fault # "fixed"
  /\ Rewrite
  /\ durable_bytes' = Len(live')
  /\ base' = control.count
  /\ fault' = IF fault = "slot" THEN "slot" ELSE "none"
  /\ UNCHANGED <<vars, ckpt, control, tail, tail_offset_recorded>>
  /\ LeaveRotation

\* The rewrite, or a step after it, fails: the backing is poisoned and its offsets are
\* those of the old file.
TruncateFails ==
  /\ \E p \in {"truncate", "repair"} : At(p, "idle")
  /\ fault # "fixed"
  /\ Rewrite \/ UNCHANGED <<live, synced, stale>>
  /\ fault' = IF fault = "slot" THEN "slot" ELSE "rotation"
  /\ UNCHANGED <<vars, base, durable_bytes, ckpt, control, tail, tail_offset_recorded>>
  /\ LeaveRotation

RecordTailOffset ==
  IF tail_offset_recorded = durable_bytes
  THEN UNCHANGED <<tail, stale, tail_offset_recorded>>
  ELSE /\ tail' = durable_bytes
       /\ stale' = stale \cup {tail}
       /\ tail_offset_recorded' = durable_bytes

\* The sidecar comes last; a rotation then drops the applied prefix of the replicator.
FinishTruncate ==
  /\ \/ At("tail", "idle") /\ CompactAppliedPrefix
     \/ At("repair_tail", "idle") /\ UNCHANGED vars
  /\ RecordTailOffset
  /\ UNCHANGED <<ckpt, control>>
  /\ LeaveSegment /\ LeaveRotation

\* A write or a sync fails, or the truncation is refused before it touches the segment:
\* the rotation returns, the repair is forgotten, and the backing stays as it was.
RotationFails ==
  /\ \E p \in {"control", "truncate", "tail", "repair", "repair_tail"} : At(p, "idle")
  /\ UNCHANGED <<vars, ckpt, control>>
  /\ LeaveSegment /\ LeaveSidecar /\ LeaveRotation

-----------------------------------------------------------------------------
(* Shutdown, crash and reopen.                                                 *)

\* What the process held is gone.
LoseMemory ==
  /\ mode' = "down" /\ pc' = "idle" /\ mark' = 0
  /\ wal' = <<>> /\ flushed' = 0 /\ base' = 0 /\ durable_bytes' = 0
  /\ io' = 0 /\ fault' = "none" /\ wedged' = FALSE
  /\ term' = 1 /\ role' = "Leader" /\ next_index' = 1 /\ commit_index' = 0
  /\ applied_index' = 0 /\ applied_term' = 0 /\ entries' = <<>> /\ reservations' = {}
  /\ UNCHANGED <<next_txn, acked, ckpt, control>>

\* Drop for WalDurableCore
CleanShutdown ==
  /\ mode = "up" /\ pc = "idle" /\ io = 0
  /\ tail' = durable_bytes /\ tail_offset_recorded' = 0 /\ stale' = {}
  /\ UNCHANGED <<live, synced>>
  /\ LoseMemory

\* The process or the machine stops: unsynced records survive up to some point, and the
\* sidecar is the last one, an earlier one, or unreadable.
Crash ==
  /\ mode = "up"
  /\ synced' \in synced..Len(live)
  /\ live' = Prefix(live, synced')
  /\ tail' \in {tail, 0} \cup stale
  /\ tail_offset_recorded' = 0 /\ stale' = {}
  /\ LoseMemory

\* A fault: the live segment is chained to the checkpoint as it is.
NoOverlap(c, s) == 0

\* The largest k with live[..k] = checkpoint[c-k..]
Overlap(c, s) ==
  LET ks == {k \in 0..Min2(Len(c), Len(s)) :
               SubSeq(c, Len(c) - k + 1, Len(c)) = Prefix(s, k)}
  IN  CHOOSE k \in ks : \A j \in ks : j <= k

\* read_wal_checkpoint: a checkpoint longer than the control count is cut to it.
ReadCheckpoint == Prefix(ckpt, Min2(control.count, Len(ckpt)))

\* The history a reopen builds when the live segment holds s
Recovered(s) ==
  ReadCheckpoint \o SubSeq(s, Overlap(ReadCheckpoint, s) + 1, Len(s))

\* recover_wal_segment: the segment ends before the recorded tail.
EndsShort == Len(live) < tail

\* The loud errors: a checkpoint that is not the one its control file describes, or a
\* record that does not carry the next commit sequence.
ReplayFails ==
  \/ CheckpointMeta(ReadCheckpoint) # control
  \/ \E i \in DOMAIN Recovered(live) : Recovered(live)[i].index # i

Refuse ==
  /\ mode = "down"
  /\ EndsShort \/ ReplayFails
  /\ mode' = "refused"
  /\ UNCHANGED <<vars, pc, next_txn, acked, memory, disk>>

\* open_durable_wal_segment_auto
Open ==
  LET h == Recovered(live) IN
  /\ mode = "down" /\ ~EndsShort /\ ~ReplayFails
  /\ mode' = "up"
  /\ pc' = IF Overlap(ReadCheckpoint, live) > 0 THEN "repair" ELSE "idle"
  /\ mark' = 0
  /\ wal' = h /\ flushed' = Len(h) /\ base' = Len(ReadCheckpoint)
  /\ durable_bytes' = Len(live) /\ synced' = Len(live)
  /\ tail' = Len(live) /\ tail_offset_recorded' = Len(live) /\ stale' = {tail}
  /\ io' = 0 /\ fault' = "none" /\ wedged' = FALSE
  /\ term' = 1 /\ role' = "Leader"
  /\ next_index' = Len(h) + 1 /\ commit_index' = Len(h) /\ applied_index' = Len(h)
  /\ applied_term' = IF h = <<>> THEN 0 ELSE 1
  /\ entries' = [i \in 1..Len(h) |-> 1]
  /\ reservations' = {}
  /\ UNCHANGED <<next_txn, acked, live, ckpt, control>>

\* become_leader and become_follower of the engine
ChangeRole ==
  /\ mode = "up" /\ pc = "idle"
  /\ \E r \in Roles, t \in 1..MaxTerm : Become(r, t)
  /\ UNCHANGED <<pc, mode, next_txn, acked, memory, disk>>

LogNext ==
  \/ ProposeSerial \/ ProposeWave \/ ReserveTyped \/ ProposeTyped \/ AbandonTyped
  \/ AppendCanonical \/ RollBack \/ ApplyWave \/ FinishSerial \/ ApplyFails
  \/ Acknowledge
  \/ WriteGroup \/ SyncGroup \/ GroupFails \/ FlushRefused
  \/ WriteCheckpoint \/ WriteControl \/ TruncatePrefix \/ TruncateFails
  \/ FinishTruncate \/ RotationFails
  \/ CleanShutdown \/ Crash \/ Refuse \/ Open
  \/ ChangeRole

LogSpec == LogInit /\ [][LogNext]_logVars

-----------------------------------------------------------------------------
Record == [index : 1..MaxIndex, txn : 1..MaxTxn]

\* Every variable of the log has its type.
LogTypeOK ==
  /\ TypeOK
  /\ mode \in {"up", "down", "refused"}
  /\ next_txn \in 1..(MaxTxn + 1)
  /\ \A s \in {wal, live, ckpt} : s \in Seq(Record)
  /\ mark \in 0..Len(wal) /\ flushed \in 0..Len(wal) /\ base \in 0..flushed
  /\ io \in 0..Len(wal)
  /\ synced \in 0..Len(live)
  /\ fault \in {"none", "rotation", "slot", "fixed"}
  /\ acked \subseteq Record

\* The WAL and the replicator move in lock-step: the record at position i carries commit
\* index i, and outside a proposal the next index is the next position.  The commit paths
\* rely on it when they peek an index, propose, and roll both back on an error.
LockStep ==
  mode = "up" =>
    /\ \A i \in DOMAIN wal : wal[i].index = i
    /\ pc \notin {"serial_proposed", "wave_proposed"} => next_index = Len(wal) + 1
    /\ applied_index <= Len(wal)

\* Wherever a crash falls, in a group write, in a rotation or in the repair of one, the
\* checkpoint and the surviving live segment chain to a history that begins with every
\* flushed record and repeats and skips none.
FlushedIsRecoverable ==
  mode = "up" =>
    \A n \in synced..Len(live) :
      LET h == Recovered(Prefix(live, n)) IN
      /\ Len(h) >= flushed /\ Prefix(h, flushed) = Prefix(wal, flushed)
      /\ \A i \in DOMAIN h : h[i].index = i

\* A commit that was reported stays: in every later incarnation the log holds that record
\* at that index, flushed and applied.
AckedStays ==
  mode = "up" =>
    \A r \in acked :
      /\ r.index <= flushed /\ r.index <= applied_index
      /\ wal[r.index] = r

\* No sequence of crashes, failed rotations and repairs makes the replay itself refuse:
\* the checkpoint always covers its control file and the chained history is in sequence.
ReplayNeverFails == mode # "up" => ~ReplayFails

\* buffer.rs: "the sidecar is a lower bound -- a stale value only widens the tolerated
\* torn-tail window, never loses data".  So no sidecar stops a reopen.
StaleTailIsTolerated == mode = "down" => ~EndsShort
=============================================================================
