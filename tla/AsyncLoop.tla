------------------------------ MODULE AsyncLoop ------------------------------
(***************************************************************************)
(* Controller.run() of experiments/rl/controller.py: the asynchronous RL   *)
(* loop.  Five kinds of asyncio tasks share one event loop,                *)
(*                                                                         *)
(*   data input -> work buffer -> rollout workers -> work buffer           *)
(*     -> batcher -> training_batch_queue -> trainer -> weight sync        *)
(*                                                                         *)
(* and the trainer's weight sync gives the slots of trained groups back to *)
(* the work buffer, which is what admits new groups.  An action is what a  *)
(* task does between two awaits that may suspend it.                       *)
(*                                                                         *)
(* A group is abstracted to its id and to the policy version that one (any *)
(* one) of its samples was generated under.  What its rollouts amount to   *)
(* is chosen where the code finds out: a worker's exception when it        *)
(* finishes, an untrainable group when the batcher loop builds its         *)
(* samples, and samples too long for a row when the Batcher packs.         *)
(***************************************************************************)
EXTENDS LoopConstants, Sequences

CONSTANTS
    Generators,              \* generator meshes behind the router (their rank 0)
    NumTrainingSteps,        \* num_training_steps
    MaxUntrainable,          \* bound on the groups without trainable samples
    MaxOversized,            \* bound on the groups whose samples exceed seq_len
    Faults                   \* external calls that may raise or diverge

ASSUME LoopAssumption ==
    /\ Generators # {}
    /\ NumTrainingSteps \in Nat
    /\ MaxUntrainable \in Nat
    /\ MaxOversized \in Nat
    /\ Faults \subseteq {"data", "build", "step", "nan", "push", "pull", "save"}

VARIABLES
    work, active, peak, closed,   \* the work buffer
    policyVersion, pushTask, pullTask, syncVersion,   \* trainer, weight sync
    store, reading, genVersion, genWeights,           \*   and generators
    inputPc, groupIndex,   \* _data_input_loop
    rollouts,              \* _rollout_loop[N]: what the workers are rolling out
    batcherPc,             \* _batcher_loop
    taken,                 \*   the group it holds
    accumulated,           \*   Batcher._groups_for_next_batch, the trainable ones
    ready,                 \*   the batch it is putting
    queue,                 \* training_batch_queue, maxsize 1
    trainerPc, step,       \* _trainer_loop
    batch,                 \*   the batch it is training on
    runPc, outcome,        \* run()
    untrainable, oversized \* groups dropped so far, by cause

bufferVars == <<work, active, peak, closed>>
syncVars ==
    <<policyVersion, pushTask, pullTask, syncVersion, store, reading, genVersion, genWeights>>
inputVars == <<inputPc, groupIndex>>
batcherVars == <<batcherPc, taken, accumulated, ready>>
trainerVars == <<trainerPc, step, batch>>
runVars == <<runPc, outcome>>
dropVars == <<untrainable, oversized>>
vars == <<bufferVars, syncVars, inputVars, rollouts, batcherVars, queue, trainerVars,
          runVars, dropVars>>

-----------------------------------------------------------------------------

MaxActiveRolloutGroups == (MaxOffpolicySteps + 1) * NumGroupsPerTrainStep

\* What a worker hands in is a version; Failed marks the empty group of a
\* rollout that raised, or of a group in flight that has no sample yet.
Failed == -1
NoGroup == -2

\* The policy version the run ends with, and those a group may have.
LastVersion == IF StartStep < NumTrainingSteps THEN NumTrainingSteps ELSE StartStep
Versions == {Failed} \cup StartStep .. LastVersion

\* Groups needed to train every step with a full window behind it and every
\* untrainable group dropped: group_index never exceeds it.
MaxGroups ==
    NumGroupsPerTrainStep * (LastVersion - StartStep) + MaxActiveRolloutGroups + MaxUntrainable

Buffer == INSTANCE WorkBuffer WITH
    RolloutGroups <- Versions,
    departed <- active - Len(work)

Sync == INSTANCE WeightSync WITH LastStep <- NumTrainingSteps

Finished(pc) == pc \in {"done", "crashed"}

\* Partial functions: the groups the workers hold.
Extend(f, x, y) == [z \in DOMAIN f \cup {x} |-> IF z = x THEN y ELSE f[z]]
Without(f, x) == [z \in DOMAIN f \ {x} |-> f[z]]

\* The sentinel that _batcher_loop puts when the buffer has closed: a batch
\* has at least one group, so the empty one is free to stand for None.
Stop == <<>>

Init ==
    /\ Buffer!BufferInit
    /\ Sync!SyncInit
    /\ inputPc = "wait" /\ groupIndex = 0
    /\ rollouts = <<>>
    /\ batcherPc = "take" /\ taken = <<>> /\ accumulated = <<>> /\ ready = <<>>
    /\ queue = <<>>
    /\ trainerPc = IF StartStep < NumTrainingSteps THEN "get" ELSE "final_push"
    /\ step = StartStep + 1
    /\ batch = <<>>
    /\ runPc = "running" /\ outcome = "none"
    /\ untrainable = 0 /\ oversized = 0

-----------------------------------------------------------------------------
(* _data_input_loop                                                        *)

\* Mutant: a wakeup is taken for a slot.
BugInputWaitForSlot ==
    /\ inputPc = "wait"
    /\ inputPc' = IF closed THEN "done" ELSE "fetch"
    /\ UNCHANGED <<bufferVars, syncVars, groupIndex, rollouts, batcherVars, queue,
                   trainerVars, runVars, dropVars>>

\* wait_for_slot: True starts the fetch of a sample in a thread, False ends
\* the loop.
InputWaitForSlot ==
    /\ inputPc = "wait"
    /\ \/ Buffer!SlotGranted /\ inputPc' = "fetch"
       \/ closed /\ inputPc' = "done"
    /\ UNCHANGED <<bufferVars, syncVars, groupIndex, rollouts, batcherVars, queue,
                   trainerVars, runVars, dropVars>>

\* Mutant: the id is used again.
BugInputAddWork ==
    /\ inputPc = "fetch"
    /\ Buffer!AddWork(groupIndex)
    /\ inputPc' = "wait"
    /\ UNCHANGED <<syncVars, groupIndex, rollouts, batcherVars, queue, trainerVars, runVars,
                   dropVars>>

InputAddWork ==
    /\ inputPc = "fetch"
    /\ Buffer!AddWork(groupIndex)
    /\ groupIndex' = groupIndex + 1
    /\ inputPc' = "wait"
    /\ UNCHANGED <<syncVars, rollouts, batcherVars, queue, trainerVars, runVars, dropVars>>

\* add_work raises without a slot, get_training_sample when the dataset does.
InputCrashes ==
    /\ inputPc = "fetch"
    /\ ~Buffer!HasActiveSlot \/ "data" \in Faults
    /\ inputPc' = "crashed"
    /\ UNCHANGED <<bufferVars, syncVars, groupIndex, rollouts, batcherVars, queue,
                   trainerVars, runVars, dropVars>>

-----------------------------------------------------------------------------
(* _rollout_loop[N].  There is a worker per slot, so a WAITING group always *)
(* finds one; a worker's state is the group it rolls out.                   *)

RolloutClaim ==
    \E i \in DOMAIN work :
        /\ Buffer!ClaimNext(i)
        /\ rollouts' = Extend(rollouts, work[i].group_id, Failed)
        /\ UNCHANGED <<syncVars, inputVars, batcherVars, queue, trainerVars, runVars, dropVars>>

\* A generator samples for the group and stamps its policy version.
RolloutSample(id, g) ==
    /\ rollouts[id] = Failed
    /\ rollouts' = [rollouts EXCEPT ![id] = genVersion[g]]
    /\ UNCHANGED <<bufferVars, syncVars, inputVars, batcherVars, queue, trainerVars,
                   runVars, dropVars>>

\* finalize_work: the group is stored on its entry, or dropped when close()
\* took the entry away.
HandIn(id, group) ==
    /\ rollouts' = Without(rollouts, id)
    /\ \/ \E i \in DOMAIN work :
             /\ work[i].group_id = id
             /\ Buffer!FinalizeWork(i, group)
       \/ /\ \A i \in DOMAIN work : work[i].group_id # id
          /\ UNCHANGED bufferVars
    /\ UNCHANGED <<syncVars, inputVars, batcherVars, queue, trainerVars, runVars, oversized>>

RolloutFinish(id) ==
    /\ rollouts[id] # Failed
    /\ HandIn(id, rollouts[id])
    /\ UNCHANGED untrainable

\* run_group_rollouts raises: an empty group with a failure metric instead.
RolloutFails(id) ==
    /\ untrainable < MaxUntrainable
    /\ untrainable' = untrainable + 1
    /\ HandIn(id, Failed)

-----------------------------------------------------------------------------
(* _batcher_loop and Batcher.add_training_samples                          *)

BatcherTake ==
    /\ batcherPc = "take"
    /\ Buffer!TakeFinalized
    /\ taken' = <<[id |-> Head(work).group_id, version |-> Head(work).rollout_group]>>
    /\ batcherPc' = "build"
    /\ UNCHANGED <<syncVars, inputVars, rollouts, accumulated, ready, queue, trainerVars,
                   runVars, dropVars>>

\* Mutant: the slot of a group without samples is not released.
BugBatcherBuild ==
    /\ batcherPc = "build"
    /\ \/ UNCHANGED <<taken, untrainable>>
       \/ /\ untrainable < MaxUntrainable
          /\ untrainable' = untrainable + 1
          /\ taken' = <<>>
    /\ batcherPc' = "pack"
    /\ UNCHANGED <<bufferVars, syncVars, inputVars, rollouts, accumulated, ready, queue,
                   trainerVars, runVars, oversized>>

\* build_from_group, and the release of the slot of a group without samples.
BatcherBuild ==
    /\ batcherPc = "build"
    /\ \/ /\ Head(taken).version # Failed
          /\ batcherPc' = "pack"
          /\ UNCHANGED <<bufferVars, taken, untrainable>>
       \/ /\ IF Head(taken).version = Failed
                THEN UNCHANGED untrainable
                ELSE /\ untrainable < MaxUntrainable
                     /\ untrainable' = untrainable + 1
          /\ \/ /\ Buffer!ReleaseActiveGroups(1)
                /\ taken' = <<>>
                /\ batcherPc' = "pack"
             \/ /\ Buffer!ReleaseRejected(1)
                /\ batcherPc' = "crashed"
                /\ UNCHANGED <<bufferVars, taken>>
    /\ UNCHANGED <<syncVars, inputVars, rollouts, accumulated, ready, queue, trainerVars,
                   runVars, oversized>>

\* Mutant: the newest group goes first.
BugAccumulatedWith(group, fits) == IF fits THEN group \o accumulated ELSE accumulated

\* The trainable groups the Batcher holds after it is given the group: a group
\* without samples, or with none that fits a row, adds only metrics.
AccumulatedWith(group, fits) == IF fits THEN accumulated \o group ELSE accumulated

\* add_training_samples, in a thread: once enough trainable groups are there
\* the oldest of them become a batch and the surplus stays.
BatcherPack ==
    \E fits \in BOOLEAN :
        LET groups == AccumulatedWith(taken, fits)
        IN  /\ batcherPc = "pack"
            /\ IF fits \/ taken = <<>>
                  THEN UNCHANGED oversized
                  ELSE oversized < MaxOversized /\ oversized' = oversized + 1
            /\ taken' = <<>>
            /\ IF Len(groups) < NumGroupsPerTrainStep
                  THEN /\ accumulated' = groups
                       /\ batcherPc' = "take"
                       /\ UNCHANGED ready
                  ELSE /\ ready' = SubSeq(groups, 1, NumGroupsPerTrainStep)
                       /\ accumulated' = SubSeq(groups, NumGroupsPerTrainStep + 1, Len(groups))
                       /\ batcherPc' = "put"
            /\ UNCHANGED <<bufferVars, syncVars, inputVars, rollouts, queue, trainerVars,
                           runVars, untrainable>>

\* build_from_group or add_training_samples raises (a completion without a
\* token, a missing log-probability, a routing layout that changed).
BatcherRaises ==
    /\ "build" \in Faults
    /\ batcherPc \in {"build", "pack"}
    /\ batcherPc' = "crashed"
    /\ UNCHANGED <<bufferVars, syncVars, inputVars, rollouts, taken, accumulated, ready,
                   queue, trainerVars, runVars, dropVars>>

BatcherPut ==
    /\ batcherPc = "put"
    /\ queue = <<>>
    /\ queue' = <<ready>>
    /\ ready' = <<>>
    /\ batcherPc' = "take"
    /\ UNCHANGED <<bufferVars, syncVars, inputVars, rollouts, taken, accumulated,
                   trainerVars, runVars, dropVars>>

\* take_finalized returned None: forward the sentinel and stop.
BatcherClosed ==
    /\ batcherPc = "take"
    /\ closed
    /\ batcherPc' = "put_stop"
    /\ UNCHANGED <<bufferVars, syncVars, inputVars, rollouts, taken, accumulated, ready,
                   queue, trainerVars, runVars, dropVars>>

BatcherPutStop ==
    /\ batcherPc = "put_stop"
    /\ queue = <<>>
    /\ queue' = <<Stop>>
    /\ batcherPc' = "done"
    /\ UNCHANGED <<bufferVars, syncVars, inputVars, rollouts, taken, accumulated, ready,
                   trainerVars, runVars, dropVars>>

-----------------------------------------------------------------------------
(* _trainer_loop                                                           *)

TrainerGet ==
    /\ trainerPc = "get"
    /\ queue # <<>>
    /\ queue' = <<>>
    /\ batch' = Head(queue)
    /\ trainerPc' = IF Head(queue) = Stop THEN "final_push" ELSE "fwd"
    /\ UNCHANGED <<bufferVars, syncVars, inputVars, rollouts, batcherVars, step, runVars,
                   dropVars>>

\* forward_backward on every microbatch; a loss that is not finite ends the
\* loop before the optimizer step.
TrainerForwardBackward ==
    /\ trainerPc = "fwd"
    /\ \/ trainerPc' = "wait_push"
       \/ "nan" \in Faults /\ trainerPc' = "final_push"
    /\ UNCHANGED <<bufferVars, syncVars, inputVars, rollouts, batcherVars, queue, step, batch,
                   runVars, dropVars>>

\* sync_log_step, forward_backward or optim_step raises, on any rank of the
\* trainer or of a generator.
TrainerRaises ==
    /\ "step" \in Faults
    /\ trainerPc \in {"get", "fwd", "optim"}
    /\ trainerPc' = "crashed"
    /\ UNCHANGED <<bufferVars, syncVars, inputVars, rollouts, batcherVars, queue, step, batch,
                   runVars, dropVars>>

\* Mutant: the push is not waited for.
BugTrainerWaitPush ==
    /\ trainerPc = "wait_push"
    /\ trainerPc' = "optim"
    /\ UNCHANGED <<bufferVars, syncVars, inputVars, rollouts, batcherVars, queue, step, batch,
                   runVars, dropVars>>

\* wait_prev_push re-raises a failed push.
TrainerWaitPush ==
    /\ trainerPc = "wait_push"
    /\ \/ pushTask = "done" /\ trainerPc' = "optim"
       \/ pushTask = "failed" /\ trainerPc' = "crashed"
    /\ UNCHANGED <<bufferVars, syncVars, inputVars, rollouts, batcherVars, queue, step, batch,
                   runVars, dropVars>>

TrainerOptimStep ==
    /\ trainerPc = "optim"
    /\ Sync!OptimStep
    /\ batch' = <<>>
    /\ trainerPc' = "wait_pull"
    /\ UNCHANGED <<bufferVars, inputVars, rollouts, batcherVars, queue, step, runVars, dropVars>>

\* Mutant: the pull is not waited for.
BugTrainerWaitPull ==
    /\ trainerPc = "wait_pull"
    /\ Sync!StartAsyncPushPull
    /\ Buffer!FlushMetrics
    /\ trainerPc' = "save"
    /\ UNCHANGED <<inputVars, rollouts, batcherVars, queue, step, batch, runVars, dropVars>>

\* wait_prev_pull, then, without another await, the next handoff is fired and
\* the buffer's metrics are flushed.
TrainerWaitPull ==
    /\ trainerPc = "wait_pull"
    /\ \/ /\ pullTask = "done"
          /\ Sync!StartAsyncPushPull
          /\ Buffer!FlushMetrics
          /\ trainerPc' = "save"
       \/ /\ pullTask = "failed"
          /\ trainerPc' = "crashed"
          /\ UNCHANGED <<bufferVars, syncVars>>
    /\ UNCHANGED <<inputVars, rollouts, batcherVars, queue, step, batch, runVars, dropVars>>

\* save_checkpoint, the last call of an iteration, after the metrics are logged.
TrainerSaveCheckpoint ==
    /\ trainerPc = "save"
    /\ \/ /\ step' = step + 1
          /\ trainerPc' = IF step < NumTrainingSteps THEN "get" ELSE "final_push"
       \/ /\ "save" \in Faults
          /\ trainerPc' = "crashed"
          /\ UNCHANGED step
    /\ UNCHANGED <<bufferVars, syncVars, inputVars, rollouts, batcherVars, queue, batch,
                   runVars, dropVars>>

\* wait_inflight_push_pull: the last handoff is joined before the loop ends.
TrainerFinalPush ==
    /\ trainerPc = "final_push"
    /\ \/ pushTask = "done" /\ trainerPc' = "final_pull"
       \/ pushTask = "failed" /\ trainerPc' = "crashed"
    /\ UNCHANGED <<bufferVars, syncVars, inputVars, rollouts, batcherVars, queue, step, batch,
                   runVars, dropVars>>

TrainerFinalPull ==
    /\ trainerPc = "final_pull"
    /\ \/ pullTask = "done" /\ trainerPc' = "done"
       \/ pullTask = "failed" /\ trainerPc' = "crashed"
    /\ UNCHANGED <<bufferVars, syncVars, inputVars, rollouts, batcherVars, queue, step, batch,
                   runVars, dropVars>>

-----------------------------------------------------------------------------
(* The two tasks of the weight sync.                                       *)

NotSync == <<inputVars, rollouts, batcherVars, queue, trainerVars, runVars, dropVars>>

SyncPush ==
    /\ Sync!PushBegin \/ Sync!PushEnd
    /\ UNCHANGED <<bufferVars, NotSync>>

SyncPullBegin ==
    /\ Sync!PullBegin
    /\ UNCHANGED <<bufferVars, NotSync>>

SyncPullOne ==
    /\ \E g \in Generators : Sync!PullOne(g)
    /\ UNCHANGED <<bufferVars, NotSync>>

\* release_active_groups(num_groups_per_train_step, "trained") once rank 0 of
\* every generator has pulled.
SyncRelease ==
    /\ Sync!PullComplete
    /\ \/ /\ Buffer!ReleaseActiveGroups(NumGroupsPerTrainStep)
          /\ Sync!PullReturns
       \/ /\ Buffer!ReleaseRejected(NumGroupsPerTrainStep)
          /\ pullTask' = "failed"
          /\ UNCHANGED <<bufferVars, policyVersion, pushTask, syncVersion, store, reading,
                         genVersion, genWeights>>
    /\ UNCHANGED NotSync

SyncFails ==
    /\ \/ "push" \in Faults /\ Sync!PushFails
       \/ "pull" \in Faults /\ \E g \in Generators : Sync!PullFails(g)
    /\ UNCHANGED <<bufferVars, NotSync>>

-----------------------------------------------------------------------------
(* run()                                                                   *)

\* asyncio.wait(FIRST_COMPLETED) returns the tasks that are done by now: a
\* producer among them is an error whether it crashed or returned.
RunWakes ==
    /\ runPc = "running"
    /\ Finished(inputPc) \/ Finished(batcherPc) \/ Finished(trainerPc)
    /\ outcome' = IF Finished(inputPc) \/ Finished(batcherPc) \/ trainerPc = "crashed"
                  THEN "raised"
                  ELSE "trained"
    /\ runPc' = "close"
    /\ UNCHANGED <<bufferVars, syncVars, inputVars, rollouts, batcherVars, queue, trainerVars,
                   dropVars>>

\* The finally block: buffer.close(), then cancel() on every task, which the
\* gather waits for.  A push or a pull that is under way is not cancelled.
RunClose ==
    /\ runPc = "close"
    /\ Buffer!Close
    /\ runPc' = "cancel"
    /\ UNCHANGED <<syncVars, inputVars, rollouts, batcherVars, queue, trainerVars, outcome,
                   dropVars>>

Cancelled(pc) == IF Finished(pc) THEN pc ELSE "cancelled"

RunCancel ==
    /\ runPc = "cancel"
    /\ inputPc' = Cancelled(inputPc)
    /\ batcherPc' = Cancelled(batcherPc)
    /\ trainerPc' = Cancelled(trainerPc)
    /\ rollouts' = <<>>
    /\ runPc' = "done"
    /\ UNCHANGED <<bufferVars, syncVars, groupIndex, taken, accumulated, ready, queue, step,
                   batch, outcome, dropVars>>

\* A push or a pull has raised, and nobody has awaited it yet.
HandoffFailed == "failed" \in {pushTask, pullTask}

\* The slots that never come back: those of the groups dropped for being too
\* long, and those of a step whose handoff has failed.
SlotsLost == oversized + (IF HandoffFailed THEN NumGroupsPerTrainStep ELSE 0)

\* The window can still hold a whole batch.
WindowHoldsBatch == SlotsLost <= MaxOffpolicySteps * NumGroupsPerTrainStep

Settled == {pushTask, pullTask} \subseteq {"done", "failed"} /\ reading = {}

\* The run is over and its last handoff has settled.
Terminated ==
    /\ runPc = "done"
    /\ Settled
    /\ UNCHANGED vars

\* Nothing is left to do, and the trainer waits in training_batch_queue.get()
\* for a batch that the slots left are too few to fill.
Starved ==
    /\ runPc = "running"
    /\ ~WindowHoldsBatch
    /\ inputPc = "wait" /\ ~Buffer!HasActiveSlot
    /\ work = <<>>
    /\ batcherPc = "take"
    /\ trainerPc = "get" /\ queue = <<>>
    /\ Settled
    /\ UNCHANGED vars

-----------------------------------------------------------------------------

Input == InputWaitForSlot \/ InputAddWork \/ InputCrashes

RolloutGoesOn ==
    \E id \in DOMAIN rollouts :
        \/ \E g \in Generators : RolloutSample(id, g)
        \/ RolloutFinish(id)
        \/ RolloutFails(id)

Rollout == RolloutClaim \/ RolloutGoesOn

Batching ==
    \/ BatcherTake \/ BatcherBuild \/ BatcherPack \/ BatcherRaises \/ BatcherPut
    \/ BatcherClosed \/ BatcherPutStop

TrainerWaits == TrainerWaitPush \/ TrainerWaitPull \/ TrainerFinalPush \/ TrainerFinalPull

\* Before it gets a batch the loop calls sync_log_step on every actor.
TrainerCalls ==
    TrainerGet \/ TrainerForwardBackward \/ TrainerOptimStep \/ TrainerSaveCheckpoint

Trainer == TrainerWaits \/ TrainerCalls \/ TrainerRaises

PushPull == SyncPush \/ SyncPullBegin \/ SyncPullOne \/ SyncRelease

Run == RunWakes \/ RunClose \/ RunCancel

Next ==
    \/ Input \/ Rollout \/ Batching \/ Trainer \/ PushPull \/ SyncFails \/ Run
    \/ Terminated \/ Starved

\* A task that waits for nothing outside the event loop and its threads.
LoopGoesOn ==
    \/ InputWaitForSlot \/ RolloutClaim \/ Batching \/ TrainerWaits
    \/ SyncPullBegin \/ SyncRelease \/ Run

\* A call to the dataset, a generator or the trainer returns, or a rollout
\* raises.
CallReturns ==
    InputAddWork \/ RolloutGoesOn \/ TrainerCalls \/ SyncPush \/ SyncPullOne

\* The event loop runs every task that can go on.  No behaviour has infinitely
\* many steps, so fairness to the tasks together is fairness to each of them.
\* That calls return is no part of it: it is a premise of the properties below.
Fairness == WF_vars(LoopGoesOn)

Spec == Init /\ [][Next]_vars

FairSpec == Spec /\ Fairness

-----------------------------------------------------------------------------
(* Properties.                                                             *)

Group == [id : Nat, version : Versions]

InQueue == IF queue = <<>> THEN <<>> ELSE Head(queue)

\* Every variable has the type the code gives it.
TypeOK ==
    /\ work \in Seq(Buffer!Work) /\ active \in Nat /\ peak \in Nat /\ closed \in BOOLEAN
    /\ Sync!SyncTypeOK
    /\ inputPc \in {"wait", "fetch", "done", "crashed", "cancelled"}
    /\ groupIndex \in Nat
    /\ DOMAIN rollouts \subseteq Nat
    /\ \A id \in DOMAIN rollouts : rollouts[id] \in Versions
    /\ batcherPc \in {"take", "build", "pack", "put", "put_stop", "done", "crashed", "cancelled"}
    /\ taken \in Seq(Group) /\ accumulated \in Seq(Group) /\ ready \in Seq(Group)
    /\ queue \in Seq(Seq(Group)) /\ Len(queue) <= 1
    /\ trainerPc \in {"get", "fwd", "wait_push", "optim", "wait_pull", "save",
                      "final_push", "final_pull", "done", "crashed", "cancelled"}
    /\ step \in Nat
    /\ batch \in Seq(Group)
    /\ runPc \in {"running", "close", "cancel", "done"}
    /\ outcome \in {"none", "trained", "raised"}
    /\ untrainable \in Nat /\ oversized \in Nat

\* What the loop holds between the work buffer and the optimizer, oldest first.
Downstream == batch \o InQueue \o ready \o accumulated \o taken

\* The version a group in the work buffer is sampled under so far.
SampledVersion(entry) ==
    CASE entry.state = "FINALIZED" -> entry.rollout_group
      [] entry.group_id \in DOMAIN rollouts -> rollouts[entry.group_id]
      [] OTHER -> Failed

InBuffer ==
    [i \in DOMAIN work |-> [id |-> work[i].group_id, version |-> SampledVersion(work[i])]]

\* Everything admitted and not yet consumed or dropped, oldest first.
Stream == Downstream \o InBuffer

Window == INSTANCE OffPolicyWindow WITH
    LastStep <- NumTrainingSteps,
    stream <- Stream,
    trained <- policyVersion,
    published <- Sync!SyncedVersion,
    admitted <- groupIndex

\* The charged slots are exactly the groups somewhere in the pipeline, the
\* groups of the steps whose weights the generators have not all pulled yet,
\* and the groups the Batcher dropped for being too long.  So the budget covers
\* "the entire pipeline (buffer+queue+training)", and the loop never trips over
\* its own checks: the slot of an admission is still free when the sample has
\* been fetched, and whoever releases slots releases no more than are charged.
SlotsAccountedFor ==
    /\ ~closed =>
           active = Len(work) + Len(Downstream) + oversized
                       + NumGroupsPerTrainStep * (policyVersion - Sync!SyncedVersion)
    /\ inputPc = "fetch" => Buffer!HasActiveSlot
    /\ batcherPc = "build" => ~Buffer!ReleaseRejected(1)
    /\ Sync!PullComplete => ~Buffer!ReleaseRejected(NumGroupsPerTrainStep)

\* At consumption no sample lags the trainer by more than max_offpolicy_steps,
\* however the rollouts, the pulls and the drops interleave ("keeps policy_age
\* <= max_offpolicy_steps").
PolicyAgeBounded ==
    trainerPc \in {"fwd", "wait_push", "optim"} =>
        \A i \in DOMAIN batch : policyVersion - batch[i].version <= MaxOffpolicySteps

\* The loops keep the protocol the work buffer is specified under (no slot is
\* taken or released twice, nothing is claimed after close), and the trainer
\* loop the one the weight sync is specified under (it waits for the push before
\* it updates the weights in place, and for the pull before it starts another).
KeepsProtocols == Buffer!Spec /\ Sync!SyncSpec

\* The five loops, the queue and the two tasks of the weight sync amount to one
\* stream of groups with a window on it ("keeps policy_age <=
\* max_offpolicy_steps").
ImplementsWindow == Window!Spec

\* Rank 0 of every generator samples with the weights whose version it stamps,
\* and never reads the key while a push writes it.
StampIsTrue == Sync!StampIsTrue

\* Rank 0 of a generator is never behind the version whose slots were released,
\* and the trainer runs at most two optimizer steps ahead of it ("admit the
\* next groups only now that the generators are on `version`").
GeneratorsFollow == Sync!GeneratorsFollow

\* Whatever the loops wait for outside the event loop returns or raises: the
\* dataset, every rollout in progress, the trainer, a push, a pull.  Behaviours
\* have finitely many steps, so this is weak fairness of the calls.
CallsReturn == []<>~ENABLED CallReturns

\* If calls return the run ends, whatever raises, and when it reports success
\* every step is trained or it still holds the batch whose loss was not finite:
\* it goes on "until training completes or a stage crashes" - unless the slots
\* lost leave no room for a batch.  With max_offpolicy_steps = 0 one failed
\* handoff is enough for that, otherwise it takes oversized groups.
TrainingCompletes ==
    CallsReturn =>
        <>(\/ runPc = "done" /\ (outcome = "trained" /\ batch = <<>> => policyVersion = LastVersion)
           \/ ~WindowHoldsBatch)

\* If calls return a failed push or pull is re-raised by the run, as a crashed
\* stage is - unless the slots lost leave no room for a batch: then the trainer
\* may never come to await it.
FailureSurfaces ==
    CallsReturn =>
        ((runPc = "running" /\ HandoffFailed) ~> (outcome = "raised" \/ ~WindowHoldsBatch))
=============================================================================
