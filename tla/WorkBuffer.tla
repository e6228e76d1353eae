----------------------------- MODULE WorkBuffer -----------------------------
(***************************************************************************)
(* The RolloutGroupWorkBuffer of experiments/rl/components/work_buffer.py: *)
(* the FIFO of prompt groups shared by the data-input loop, the rollout    *)
(* workers and the batcher, together with the budget of active slots that  *)
(* the trainer gives back after a weight pull.                             *)
(*                                                                         *)
(* One asyncio.Condition guards every method, and no method awaits while   *)
(* it holds the lock other than to wait for its own predicate, so a method *)
(* is one atomic step whose guard is the predicate it waits for.           *)
(*                                                                         *)
(* Next puts the buffer in an environment that keeps the callers'          *)
(* protocol and nothing more: fresh group ids in increasing order, and     *)
(* slots released only for groups that have left the buffer (departed      *)
(* counts them).  AsyncLoop instantiates the operations, replaces this     *)
(* environment by the real loops, and is proved to keep the protocol.      *)
(***************************************************************************)
EXTENDS Integers, Sequences

CONSTANTS
    MaxActiveRolloutGroups,   \* capacity of the active off-policy window
    RolloutGroups,            \* what a rollout worker may finalize a group with
    NoGroup,                  \* rollout_group of an entry not yet finalized
    MaxGroups                 \* bound on the groups the environment admits

ASSUME BufferAssumption ==
    /\ MaxActiveRolloutGroups \in Nat \ {0}
    /\ NoGroup \notin RolloutGroups
    /\ MaxGroups \in Nat

VARIABLES
    work,     \* _work_by_group_id: the entries in insertion order
    active,   \* _active_rollout_groups: slots charged and not yet released
    peak,     \* _active_rollout_groups_peak_since_flush
    closed,   \* _closed
    groupIndex,   \* the producer's group_index: the next fresh id
    departed      \* charged groups that are no longer in the buffer

bufferVars == <<work, active, peak, closed>>

WorkState == {"WAITING", "INFLIGHT", "FINALIZED"}

Work == [group_id : Nat, state : WorkState, rollout_group : RolloutGroups \cup {NoGroup}]

InState(state) == {i \in DOMAIN work : work[i].state = state}

HasActiveSlot == active < MaxActiveRolloutGroups

-----------------------------------------------------------------------------
(* The operations, in the order the file defines them.                     *)

BufferInit ==
    /\ work = <<>>
    /\ active = 0
    /\ peak = 0
    /\ closed = FALSE

\* wait_for_slot returns True; its False outcome is `closed`.
SlotGranted == ~closed /\ HasActiveSlot

\* add_work(RolloutGroupWork(group_id = g)): g is a key not in the dict, and
\* `closed` is not looked at.
AddWork(g) ==
    /\ HasActiveSlot
    /\ active' = active + 1
    /\ peak' = IF active' > peak THEN active' ELSE peak
    /\ work' = Append(work, [group_id |-> g, state |-> "WAITING", rollout_group |-> NoGroup])
    /\ UNCHANGED closed

\* claim_next: the caller gets the oldest WAITING entry, which is at index i.
ClaimNext(i) ==
    /\ ~closed
    /\ i \in InState("WAITING")
    /\ \A j \in InState("WAITING") : i <= j
    /\ work' = [work EXCEPT ![i].state = "INFLIGHT"]
    /\ UNCHANGED <<active, peak, closed>>

\* Mutant: a failed group may be handed back to the workers.
BugFinalizeWork(i, group) ==
    /\ work[i].state = "INFLIGHT"
    /\ \/ work' = [work EXCEPT ![i].state = "FINALIZED", ![i].rollout_group = group]
       \/ work' = [work EXCEPT ![i].state = "WAITING"]
    /\ UNCHANGED <<active, peak, closed>>

\* finalize_work(rollout_group) when the entry of the group, at index i, is
\* still there; once close() has dropped it the call changes nothing.
FinalizeWork(i, group) ==
    /\ work[i].state = "INFLIGHT"
    /\ work' = [work EXCEPT ![i].state = "FINALIZED", ![i].rollout_group = group]
    /\ UNCHANGED <<active, peak, closed>>

\* Mutant: taking a group already gives its slot back.
BugTakeAndRelease ==
    /\ ~closed
    /\ work # <<>>
    /\ Head(work).state = "FINALIZED"
    /\ work' = Tail(work)
    /\ active' = active - 1
    /\ UNCHANGED <<peak, closed>>

\* Mutant: a straggler at the head is overtaken.
BugTakeAnyFinalized ==
    /\ ~closed
    /\ \E i \in InState("FINALIZED") :
          work' = SubSeq(work, 1, i - 1) \o SubSeq(work, i + 1, Len(work))
    /\ UNCHANGED <<active, peak, closed>>

\* take_finalized returns Head(work).rollout_group: the head of the dict or
\* nothing, and the slot stays charged.
TakeFinalized ==
    /\ ~closed
    /\ work # <<>>
    /\ Head(work).state = "FINALIZED"
    /\ work' = Tail(work)
    /\ UNCHANGED <<active, peak, closed>>

\* release_active_groups(count): the call raises when count > active.
ReleaseRejected(count) == count > active

ReleaseActiveGroups(count) ==
    /\ ~ReleaseRejected(count)
    /\ active' = active - count
    /\ UNCHANGED <<work, peak, closed>>

Close ==
    /\ closed' = TRUE
    /\ work' = <<>>
    /\ UNCHANGED <<active, peak>>

\* metrics(): the next interval starts from the gauge, slots stay occupied.
FlushMetrics ==
    /\ peak' = active
    /\ UNCHANGED <<work, active, closed>>

-----------------------------------------------------------------------------
(* The buffer under the callers' protocol.                                 *)

vars == <<bufferVars, groupIndex, departed>>

Init ==
    /\ BufferInit
    /\ groupIndex = 0
    /\ departed = 0

\* The data-input loop; `closed` was tested by wait_for_slot, before the
\* sample was fetched, and may have changed since.
Admit ==
    /\ groupIndex < MaxGroups
    /\ AddWork(groupIndex)
    /\ groupIndex' = groupIndex + 1
    /\ UNCHANGED departed

\* A rollout worker takes a group and, some time later, hands in its result.
Claim ==
    /\ \E i \in DOMAIN work : ClaimNext(i)
    /\ UNCHANGED <<groupIndex, departed>>

Finalize ==
    /\ \E i \in DOMAIN work, group \in RolloutGroups : FinalizeWork(i, group)
    /\ UNCHANGED <<groupIndex, departed>>

\* The batcher.
Take ==
    /\ TakeFinalized
    /\ departed' = departed + 1
    /\ UNCHANGED groupIndex

\* The trainer's pull, or the batcher dropping an untrainable group.
Release ==
    \E count \in 1 .. departed :
        /\ ReleaseActiveGroups(count)
        /\ departed' = departed - count
        /\ UNCHANGED groupIndex

\* The finally block of run().
Shutdown ==
    /\ Close
    /\ departed' = departed + Len(work)
    /\ UNCHANGED groupIndex

Flush == FlushMetrics /\ UNCHANGED <<groupIndex, departed>>

Next == Admit \/ Claim \/ Finalize \/ Take \/ Release \/ Shutdown \/ Flush

Spec == Init /\ [][Next]_vars

\* The workers and the batcher loop forever over claim_next and
\* take_finalized, and a rollout ends; nobody owes the buffer a new group.
FairSpec == Spec /\ WF_vars(Claim) /\ WF_vars(Finalize) /\ WF_vars(Take)

-----------------------------------------------------------------------------
(* Properties.                                                             *)

\* Every variable has the type the code gives it.
TypeOK ==
    /\ work \in Seq(Work)
    /\ active \in Nat
    /\ peak \in Nat
    /\ closed \in BOOLEAN
    /\ groupIndex \in Nat
    /\ departed \in Nat

\* A slot is charged by add_work and by nothing else freed than
\* release_active_groups: the charged slots are the groups in the buffer plus
\* those that left it unreleased, and there are never more of them than the
\* capacity ("we never have more than max_active_rollout_groups in the entire
\* pipeline").
SlotsAccountedFor ==
    /\ active = Len(work) + departed
    /\ active <= MaxActiveRolloutGroups

\* Strict FIFO: the buffer always holds the newest admitted groups, without a
\* gap and in admission order, so no group was overtaken, lost or duplicated.
StrictFifo == \A i \in DOMAIN work : work[i].group_id = groupIndex - Len(work) + i - 1

\* The per-flush peak is never below the gauge, because a flush restarts it
\* from the slots still occupied, and never above the capacity.
PeakCoversGauge == active <= peak /\ peak <= MaxActiveRolloutGroups

\* A result is stored on the entry of a group that was claimed, and stays: an
\* entry carries a rollout group exactly when it is FINALIZED.
ResultIffFinalized ==
    \A i \in DOMAIN work : work[i].state = "FINALIZED" <=> work[i].rollout_group # NoGroup

\* The head of the line is never abandoned: while the workers, the rollouts and
\* the batcher make progress every admitted group leaves the buffer, unless
\* close() ends the run first.
EveryGroupLeaves ==
    \A g \in 0 .. MaxGroups - 1 :
        (\E i \in DOMAIN work : work[i].group_id = g)
            ~> (closed \/ \A i \in DOMAIN work : work[i].group_id # g)
=============================================================================
