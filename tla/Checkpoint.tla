----------------------------- MODULE Checkpoint -----------------------------
(***************************************************************************)
(* Checkpointing of a training run (components/checkpoint.py, driven by    *)
(* trainer.py): periodic saves, written in the background in the async     *)
(* modes, a thread that deletes the oldest checkpoints, and a restart that *)
(* resumes from the newest directory that has its metadata file.           *)
(*                                                                         *)
(* The ranks of the job save in lockstep and are one process here.  The    *)
(* distributed-checkpoint library writes the shards first and the metadata *)
(* last; a directory is                                                    *)
(*   "none"     absent                                                     *)
(*   "partial"  there, without metadata                                    *)
(*   "broken"   with metadata, but its shards are incomplete or mix steps  *)
(*   "model"    complete, model only (the seed, or the last step)          *)
(*   "full"     complete, the whole training state                         *)
(* load_step is -1 throughout, and load_only is off.                       *)
(***************************************************************************)
EXTENDS Integers, FiniteSets

CONSTANTS
    MaxStep,        \* bound on training.steps
    Schedules,      \* when checkpoints are due: what the operator may configure
    Keeps,          \* values of keep_latest_k
    MaxStarts       \* bound on the number of times the job is started

ASSUME CheckpointAssumption ==
    /\ MaxStep \in Nat \ {0}
    /\ MaxStarts \in Nat \ {0}
    /\ Schedules \subseteq [interval : Nat \ {0}, last : 1..MaxStep, first : BOOLEAN]
    \* Config.__post_init__ refuses a negative number and 1.
    /\ Keeps \subseteq Nat \ {1}

VARIABLES
    config,     \* the part of the Config that stays the same over restarts
    schedule,   \* interval, training.steps and enable_first_step_checkpoint
    changed,    \* some restart used another schedule than the one before
    starts,     \* number of times the job was started
    disk,       \* disk[s]: the directory step-s
    proc,       \* where the training loop is
    step,       \* trainer.step
    writing,    \* the step the writer works on: save_future is not done
    copy,       \* the copy the writer writes from
    failed,     \* save_future holds an exception
    doomed,     \* purge_queue; the order of deletion is left open
    removing    \* the directory the purge thread is deleting

procVars == <<proc, step, schedule, changed, starts>>
writerVars == <<writing, copy, failed>>
purgeVars == <<doomed, removing>>
vars == <<config, disk, procVars, writerVars, purgeVars>>

Steps == 0..MaxStep
NoStep == -1
Config == [async_mode : {"disabled", "async", "async_with_pinned_mem"},
           keep_latest_k : Keeps,
           last_save_model_only : BOOLEAN]

Dirs == {s \in Steps : disk[s] # "none"}
Valid == {s \in Steps : disk[s] \in {"broken", "model", "full"}}
NewestOf(S) == IF S = {} THEN NoStep ELSE CHOOSE s \in S : \A t \in S : t <= s

FindLoadStep == NewestOf(Valid)

ShouldSave(s) ==
    \/ s = 1 /\ schedule.first
    \/ s = schedule.last
    \/ s % schedule.interval = 0

\* training.steps is reached: save(..., last_step=True), always synchronous.
LastStep(s) == s = schedule.last
Synchronous(s) == LastStep(s) \/ config.async_mode = "disabled"

-----------------------------------------------------------------------------
Init ==
    /\ config \in Config
    /\ schedule \in Schedules
    /\ changed = FALSE
    /\ starts = 0
    /\ disk \in {[s \in Steps |-> IF s = 0 THEN seed ELSE "none"] : seed \in {"none", "model"}}
    /\ proc = "down"
    /\ step = 0
    /\ writing = NoStep
    /\ copy = "clean"
    /\ failed = FALSE
    /\ doomed = {}
    /\ removing = NoStep

\* load(): a model-only checkpoint is enough at step 0 only; loading another one
\* into the whole training state raises, and the job does not start.
Loadable(s) == s > 0 => disk[s] = "full"

Start ==
    /\ proc = "down"
    /\ starts < MaxStarts
    /\ Loadable(FindLoadStep)
    /\ schedule' \in Schedules
    /\ changed' = (changed \/ (starts > 0 /\ schedule' # schedule))
    /\ starts' = starts + 1
    /\ step' = IF FindLoadStep = NoStep THEN 0 ELSE FindLoadStep
    /\ proc' = "train"
    /\ UNCHANGED <<config, disk, writerVars, purgeVars>>

\* The optimizer updates the weights in place: a copy still being staged would mix
\* the weights of two steps.
CopyAfterUpdate == IF copy = "staging" THEN "mixed" ELSE copy
StagingWaited == copy # "staging"

ShouldContinueTraining == step < schedule.last

TrainStep ==
    /\ proc = "train"
    /\ ShouldContinueTraining
    /\ StagingWaited
    /\ step' = step + 1
    /\ copy' = CopyAfterUpdate
    /\ proc' = "save"
    /\ UNCHANGED <<config, schedule, changed, starts, disk, writing, failed, purgeVars>>

\* Training steps are done, the data runs out, or a step raises.
LeaveLoop ==
    /\ proc = "train"
    /\ proc' = "close"
    /\ UNCHANGED <<config, step, schedule, changed, starts, disk, writerVars, purgeVars>>

SkipSave ==
    /\ proc = "save"
    /\ ~ShouldSave(step)
    /\ proc' = "train"
    /\ UNCHANGED <<config, step, schedule, changed, starts, disk, writerVars, purgeVars>>

\* Mutant: the wait is left out; two saves overlap and the first future is forgotten.
BugSaveWaited == TRUE

\* maybe_wait_for_saving()
SaveWaited == writing = NoStep

BeginSave ==
    /\ proc = "save"
    /\ ShouldSave(step)
    /\ SaveWaited
    /\ ~failed
    /\ writing' = step
    /\ copy' = IF config.async_mode = "async_with_pinned_mem" /\ ~LastStep(step)
                 THEN "staging" ELSE "clean"
    /\ proc' = IF Synchronous(step) THEN "write" ELSE "purge"
    /\ UNCHANGED <<config, step, schedule, changed, starts, disk, failed, purgeVars>>

\* The previous save failed: its exception is raised here and ends the run.
SaveRaises ==
    /\ proc = "save"
    /\ ShouldSave(step)
    /\ SaveWaited
    /\ failed
    /\ proc' = "close"
    /\ UNCHANGED <<config, step, schedule, changed, starts, disk, writerVars, purgeVars>>

\* A synchronous save returns or raises.  The save of the last step does not purge.
SaveReturns ==
    /\ proc = "write"
    /\ writing = NoStep
    /\ proc' = IF failed THEN "close" ELSE IF LastStep(step) THEN "train" ELSE "purge"
    /\ UNCHANGED <<config, step, schedule, changed, starts, disk, writerVars, purgeVars>>

\* Mutant: the slice cuts one directory too many.
BugStale(dirs) == {s \in dirs : Cardinality({t \in dirs : t > s}) >= config.keep_latest_k - 1}

\* All but the keep_latest_k newest directories, complete or not.
Stale(dirs) == {s \in dirs : Cardinality({t \in dirs : t > s}) >= config.keep_latest_k}

PurgeStale ==
    /\ proc = "purge"
    /\ doomed' = IF config.keep_latest_k = 0 THEN doomed ELSE doomed \union Stale(Dirs)
    /\ proc' = "train"
    /\ UNCHANGED <<config, step, schedule, changed, starts, disk, writerVars, removing>>

-----------------------------------------------------------------------------
(* The writer of the distributed-checkpoint library (external).            *)

StagingDone ==
    /\ copy = "staging"
    /\ copy' = "clean"
    /\ UNCHANGED <<config, disk, procVars, writing, failed, purgeVars>>

CreateDir ==
    /\ writing # NoStep
    /\ copy # "staging"
    /\ disk[writing] = "none"
    /\ disk' = [disk EXCEPT ![writing] = "partial"]
    /\ UNCHANGED <<config, procVars, writerVars, purgeVars>>

Complete(s) ==
    IF copy = "mixed" THEN "broken"
    ELSE IF LastStep(s) /\ config.last_save_model_only THEN "model" ELSE "full"

Commit ==
    /\ writing # NoStep
    /\ copy # "staging"
    /\ disk[writing] = "partial"
    /\ disk' = [disk EXCEPT ![writing] = Complete(writing)]
    /\ writing' = NoStep
    /\ UNCHANGED <<config, procVars, copy, failed, purgeVars>>

WriteFails ==
    /\ writing # NoStep
    /\ copy # "staging"
    /\ writing' = NoStep
    /\ failed' = TRUE
    /\ UNCHANGED <<config, disk, procVars, copy, purgeVars>>

-----------------------------------------------------------------------------
(* The purge thread.  Deleting a directory takes a while and may fail: the *)
(* thread then goes on with the next path.                                 *)

TakePath ==
    /\ removing = NoStep
    /\ \E s \in doomed :
          /\ removing' = s
          /\ doomed' = doomed \ {s}
    /\ UNCHANGED <<config, disk, procVars, writerVars>>

\* A copy being written into the directory loses shards with it.
Damaged == IF removing = writing THEN "mixed" ELSE copy

\* Some files are gone, the metadata file among them or not yet.
RemoveSome ==
    /\ removing \in Dirs
    /\ \E d \in {"partial"} \union (IF removing \in Valid THEN {"broken"} ELSE {}) :
          disk' = [disk EXCEPT ![removing] = d]
    /\ copy' = Damaged
    /\ UNCHANGED <<config, procVars, writing, failed, purgeVars>>

RemoveEnds ==
    /\ removing # NoStep
    /\ removing' = NoStep
    /\ \/ disk' = [disk EXCEPT ![removing] = "none"] /\ copy' = Damaged
       \/ UNCHANGED <<disk, copy>>
    /\ UNCHANGED <<config, procVars, writing, failed, doomed>>

-----------------------------------------------------------------------------
\* close() waits for the purge thread, not for a save still being written.
Close ==
    /\ proc = "close"
    /\ doomed = {} /\ removing = NoStep
    /\ proc' = "down"
    /\ writing' = NoStep /\ copy' = "clean" /\ failed' = FALSE
    /\ UNCHANGED <<config, disk, step, schedule, changed, starts, purgeVars>>

\* The job is killed: the directories stay as they are.
Crash ==
    /\ proc # "down"
    /\ proc' = "down"
    /\ writing' = NoStep /\ copy' = "clean" /\ failed' = FALSE
    /\ doomed' = {} /\ removing' = NoStep
    /\ UNCHANGED <<config, disk, step, schedule, changed, starts>>

Next ==
    \/ Start \/ TrainStep \/ LeaveLoop \/ SkipSave
    \/ BeginSave \/ SaveRaises \/ SaveReturns \/ PurgeStale
    \/ StagingDone \/ CreateDir \/ Commit \/ WriteFails
    \/ TakePath \/ RemoveSome \/ RemoveEnds
    \/ Close \/ Crash

Spec == Init /\ [][Next]_vars

-----------------------------------------------------------------------------
TypeOK ==
    /\ config \in Config
    /\ schedule \in Schedules
    /\ changed \in BOOLEAN
    /\ starts \in 0..MaxStarts
    /\ disk \in [Steps -> {"none", "partial", "broken", "model", "full"}]
    /\ proc \in {"down", "train", "save", "write", "purge", "close"}
    /\ step \in Steps
    /\ writing \in Steps \union {NoStep}
    /\ copy \in {"staging", "clean", "mixed"}
    /\ failed \in BOOLEAN
    /\ doomed \subseteq Steps
    /\ removing \in Steps \union {NoStep}

\* Where a restart would resume; nowhere if what load() selects is not whole.
ResumePoint ==
    IF FindLoadStep # NoStep /\ disk[FindLoadStep] = "broken" THEN NoStep ELSE FindLoadStep

\* Incomplete directories newer than every complete one, left by an earlier start.
LeftOver == {s \in Steps : disk[s] = "partial" /\ s # writing /\ s > FindLoadStep}

\* Left-overs count among the keep_latest_k newest.  A job restarted with the
\* same schedule writes over them before it deletes anything; one restarted
\* with another schedule may not.
LeftOversHarmless == changed => LeftOver = {}

\* Whatever is saved, deleted, interrupted or killed, a restart never resumes from
\* an earlier step than it would have a moment before, and never from a directory
\* whose content is not that of one step: the purge, which counts incomplete
\* directories, leaves the newest complete one alone while the next is written.
ResumeNeverRegresses == [][LeftOversHarmless => ResumePoint' >= ResumePoint]_vars

\* A crash loses at most the checkpoint being written and the one due now: a save
\* waits for the one before it.
LossBounded ==
    proc \in {"train", "save", "write", "purge"} /\ LeftOversHarmless =>
        Cardinality({s \in (ResumePoint + 1)..step : s > 0 /\ ShouldSave(s)})
            <= IF proc = "save" THEN 2 ELSE 1
=============================================================================
