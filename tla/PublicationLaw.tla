--------------------------- MODULE PublicationLaw ---------------------------
(***************************************************************************)
(* What the commit path promises, without its threads: indices are         *)
(* sequenced into the one canonical WAL, become durable by prefix, are     *)
(* reported ready in any order, become visible by contiguous prefix, and   *)
(* only then are acknowledged; a failure gates the path for good; a crash  *)
(* loses at most what was not yet durable, and recovery publishes the rest. *)
(*                                                                         *)
(* CommitPath implements this specification between two crashes (the run   *)
(* commit_waves); the law itself is proved, crashes included, in           *)
(* PublicationLawProofs.                                                   *)
(***************************************************************************)
EXTENDS Integers

CONSTANT MaxIndex    \* bound on the commit indices ever assigned

VARIABLES
  sequenced,  \* last index appended to the WAL
  durable,    \* last index covered by a completed flush
  ready,      \* reported durable and applied, held above a gap
  visible,    \* committed_seq(), the reader watermark
  acked,      \* indices whose caller was told OK
  gated       \* the path is poisoned or wedged until recovery

vars == <<sequenced, durable, ready, visible, acked, gated>>

Indices == 1..MaxIndex

Init ==
  /\ sequenced = 0 /\ durable = 0 /\ visible = 0
  /\ ready = {} /\ acked = {} /\ gated = FALSE

\* A wave or lane section under the commit mutex.  An apply that fails there gates
\* the path in the same section.
Sequence ==
  /\ ~gated
  /\ sequenced' \in (sequenced + 1) .. MaxIndex
  /\ gated' \in BOOLEAN
  /\ UNCHANGED <<durable, ready, visible, acked>>

\* A group flush makes a longer prefix durable; the path may be gated meanwhile.
Flush ==
  /\ durable' \in (durable + 1) .. sequenced
  /\ UNCHANGED <<sequenced, ready, visible, acked, gated>>

\* The join: add the reported indices, publish the contiguous prefix.
Join(indices) ==
  LET all == ready \cup {i \in indices : i > visible}
  IN /\ visible' \in visible .. MaxIndex
     /\ (visible + 1) .. visible' \subseteq all
     /\ visible' + 1 \notin all
     /\ ready' = {i \in all : i > visible'}

\* A tail of either strategy reports its exact durable indices to the join.
Report ==
  /\ \E indices \in SUBSET (1..durable) : indices # {} /\ Join(indices)
  /\ UNCHANGED <<sequenced, durable, acked, gated>>

\* The finisher answers its callers once the watermark covers them.
Acknowledge ==
  /\ \E indices \in SUBSET (1..visible) : acked' = acked \cup indices
  /\ UNCHANGED <<sequenced, durable, ready, visible, gated>>

\* wedge_commit_path, a durability fault or a poisoned commit mutex.
GatePath ==
  /\ gated' = TRUE
  /\ UNCHANGED <<sequenced, durable, ready, visible, acked>>

\* A serialized claimant entered after quiescence: it appends, flushes, applies,
\* publishes and acknowledges under one hold of the commit mutex, or gates the path
\* with its record durable.
SerializedCommit ==
  /\ ~gated
  /\ visible = sequenced /\ sequenced < MaxIndex
  /\ sequenced' = sequenced + 1 /\ durable' = sequenced + 1
  /\ \/ /\ visible' = sequenced + 1
        /\ acked' = acked \cup {sequenced + 1}
        /\ UNCHANGED gated
     \/ /\ gated' = TRUE
        /\ UNCHANGED <<visible, acked>>
  /\ UNCHANGED ready

\* Restart: the recovered WAL prefix holds everything flushed and perhaps some of what
\* was only appended; replay_durable_records sequences, applies and publishes it
\* record by record before the engine serves.
Recover ==
  /\ sequenced' \in durable .. sequenced
  /\ durable' = sequenced' /\ visible' = sequenced'
  /\ ready' = {} /\ gated' = FALSE
  /\ UNCHANGED acked

Live == Sequence \/ Flush \/ Report \/ Acknowledge \/ GatePath \/ SerializedCommit
Next == Live \/ Recover

Spec == Init /\ [][Next]_vars

\* The law between two crashes, which the running commit path implements.
LiveSpec == Init /\ [][Live]_vars

-----------------------------------------------------------------------------
\* Type correctness of the abstract commit path.
TypeOK ==
  /\ sequenced \in 0..MaxIndex /\ durable \in 0..sequenced /\ visible \in 0..MaxIndex
  /\ ready \subseteq Indices /\ acked \subseteq Indices /\ gated \in BOOLEAN

\* WAL before visibility: nothing is visible, or waits in the join, before its flush
\* completed, and the join holds nothing it should have published.
VisibleIsDurable ==
  /\ visible <= durable
  /\ ready \subseteq (visible + 2) .. durable

\* Every acknowledged commit is visible, in this incarnation of the engine and in every
\* later one: no crash and no failure takes back an OK.
AckedStaysVisible == acked \subseteq 1..visible

WatermarkStep == visible' >= visible

\* Readers never see the committed prefix (committed_seq) shrink, not even across a
\* restart.
WatermarkNeverRegresses == [][WatermarkStep]_vars
=============================================================================
