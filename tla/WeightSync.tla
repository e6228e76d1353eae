----------------------------- MODULE WeightSync -----------------------------
(***************************************************************************)
(* The WeightSyncManager of experiments/rl/components/weight_sync.py with  *)
(* the two ends it drives: the trainer's optim_step and push_model_state   *)
(* dict (actors/trainer.py), which stages the weights under one TorchStore *)
(* key, and the pull of that key on every generator mesh                   *)
(* (actors/generator.py, through the router's gather).                     *)
(*                                                                         *)
(* start_async_push_pull fires two tasks and returns; the pull task awaits *)
(* its push.  A push takes time, during which the staged copy is unusable, *)
(* and a pull takes a different time on each generator.  Weights are       *)
(* abstracted to the number of optimizer steps they went through, Torn     *)
(* when they mix two of them.                                              *)
(*                                                                         *)
(* A generator is here what the manager sees of it: rank 0 of its mesh,    *)
(* which answers the pull when its own copy is done, whatever its peers    *)
(* have read, and which stamps the minimum version of a completion.  The   *)
(* peers are in GeneratorEngine: they may read when the next push has      *)
(* begun, so nothing said here of the weights holds of them.               *)
(*                                                                         *)
(* SyncNext drives the manager as _trainer_loop does: the previous push is *)
(* joined before optim_step and the previous pull before the next start.   *)
(***************************************************************************)
EXTENDS Integers

CONSTANTS
    Generators,     \* rank 0 of every generator mesh behind the router
    StartStep,      \* policy version restored from a checkpoint, 0 if fresh
    LastStep        \* bound on the policy version, num_training_steps

\* What the theorems ask of the constants; AsyncLoop assumes it of its own.
SyncAssumption ==
    /\ Generators # {}
    /\ StartStep \in Nat
    /\ LastStep \in Nat

VARIABLES
    policyVersion,   \* trainer actor: completed optimizer steps
    pushTask,        \* _trainer_push_task
    pullTask,        \* _generator_pull_task
    syncVersion,     \* version given to the last start_async_push_pull
    store,           \* what the "model_state_dict" key holds
    reading,         \* generators whose rank 0 has not read the key yet
    genVersion,      \* policy_version of rank 0, which it stamps on completions
    genWeights       \* the weights rank 0 really samples with

syncVars ==
    <<policyVersion, pushTask, pullTask, syncVersion, store, reading, genVersion, genWeights>>

Torn == -1

-----------------------------------------------------------------------------
(* setup_async has already pushed the restored weights and pulled them into *)
(* every generator, and the manager starts with two no-op tasks.            *)
SyncInit ==
    /\ policyVersion = StartStep
    /\ pushTask = "done"
    /\ pullTask = "done"
    /\ syncVersion = StartStep
    /\ store = StartStep
    /\ reading = {}
    /\ genVersion = [g \in Generators |-> StartStep]
    /\ genWeights = [g \in Generators |-> StartStep]

\* optim_step: mutates the weights in place, under the feet of a push that is
\* still copying them.
OptimStep ==
    /\ policyVersion' = policyVersion + 1
    /\ pushTask' = IF pushTask = "writing" THEN "torn" ELSE pushTask
    /\ UNCHANGED <<pullTask, syncVersion, store, reading, genVersion, genWeights>>

\* Mutant: the version counts the steps since the restart.
BugStartAsyncPushPull ==
    /\ pushTask' = "ready"
    /\ pullTask' = "wait_push"
    /\ syncVersion' = policyVersion - StartStep
    /\ UNCHANGED <<policyVersion, store, reading, genVersion, genWeights>>

StartAsyncPushPull ==
    /\ pushTask' = "ready"
    /\ pullTask' = "wait_push"
    /\ syncVersion' = policyVersion
    /\ UNCHANGED <<policyVersion, store, reading, genVersion, genWeights>>

\* _trainer_push: the key is overwritten while the copy runs.
PushBegin ==
    /\ pushTask = "ready"
    /\ pushTask' = "writing"
    /\ store' = Torn
    /\ UNCHANGED <<policyVersion, pullTask, syncVersion, reading, genVersion, genWeights>>

PushEnd ==
    /\ pushTask \in {"writing", "torn"}
    /\ pushTask' = "done"
    /\ store' = IF pushTask = "torn" THEN Torn ELSE policyVersion
    /\ UNCHANGED <<policyVersion, pullTask, syncVersion, reading, genVersion, genWeights>>

PushFails ==
    /\ pushTask \in {"writing", "torn"}
    /\ pushTask' = "failed"
    /\ UNCHANGED <<policyVersion, pullTask, syncVersion, store, reading, genVersion, genWeights>>

\* _generator_pull_and_release_buffer_slots: `await push_task` re-raises a
\* failed push; otherwise every generator starts to pull.
PullBegin ==
    /\ pullTask = "wait_push"
    /\ \/ /\ pushTask = "done"
          /\ pullTask' = "pulling"
          /\ reading' = Generators
       \/ /\ pushTask = "failed"
          /\ pullTask' = "failed"
          /\ UNCHANGED reading
    /\ UNCHANGED <<policyVersion, pushTask, syncVersion, store, genVersion, genWeights>>

\* Rank 0 of one generator has loaded the state dict; it takes the version it
\* was given and resolves the future its mesh was called through.
PullOne(g) ==
    /\ g \in reading
    /\ reading' = reading \ {g}
    /\ genVersion' = [genVersion EXCEPT ![g] = syncVersion]
    /\ genWeights' = [genWeights EXCEPT ![g] = store]
    /\ UNCHANGED <<policyVersion, pushTask, pullTask, syncVersion, store>>

\* One generator's pull raises: the gather raises, the others go on.
PullFails(g) ==
    /\ g \in reading
    /\ reading' = reading \ {g}
    /\ pullTask' = "failed"
    /\ UNCHANGED <<policyVersion, pushTask, syncVersion, store, genVersion, genWeights>>

\* Mutant: the slots come back while rank 0s still pull.
BugPullComplete == pullTask = "pulling"

\* Every rank 0 has answered, so the gather is complete; the caller releases the
\* trained slots and returns.
PullComplete == pullTask = "pulling" /\ reading = {}

PullReturns ==
    /\ pullTask' = "done"
    /\ UNCHANGED <<policyVersion, pushTask, syncVersion, store, reading, genVersion, genWeights>>

-----------------------------------------------------------------------------
(* The manager under the trainer loop's protocol.                          *)

\* wait_prev_push, then optim_step.
Optim ==
    /\ policyVersion = syncVersion
    /\ policyVersion < LastStep
    /\ pushTask = "done"
    /\ OptimStep

\* wait_prev_pull, then start_async_push_pull.
Start ==
    /\ policyVersion # syncVersion
    /\ pullTask = "done"
    /\ StartAsyncPushPull

Push == PushBegin \/ PushEnd \/ PushFails

Pull ==
    \/ PullBegin
    \/ \E g \in Generators : PullOne(g) \/ PullFails(g)
    \/ PullComplete /\ PullReturns

SyncNext == Optim \/ Start \/ Push \/ Pull

SyncSpec == SyncInit /\ [][SyncNext]_syncVars

-----------------------------------------------------------------------------
(* Properties.                                                             *)

\* Every variable has the type the code gives it.
SyncTypeOK ==
    /\ policyVersion \in Nat
    /\ pushTask \in {"ready", "writing", "torn", "done", "failed"}
    /\ pullTask \in {"wait_push", "pulling", "done", "failed"}
    /\ syncVersion \in Nat
    /\ store \in Nat \cup {Torn}
    /\ reading \in SUBSET Generators
    /\ genVersion \in [Generators -> Nat]
    /\ genWeights \in [Generators -> Nat \cup {Torn}]

\* Rank 0 of every generator samples with the weights of the version it stamps,
\* and reads the key when no push writes it: neither a half-written key, nor one
\* that a later push has overwritten, nor weights that optim_step mutated
\* mid-push.
StampIsTrue ==
    /\ \A g \in Generators : genWeights[g] = genVersion[g]
    /\ pushTask \in {"writing", "torn"} => reading = {}

\* The last version every rank 0 was given before its slots were released.
SyncedVersion == IF pullTask = "done" THEN syncVersion ELSE syncVersion - 1

\* A rank 0 is never behind the version whose slots were released, and the
\* trainer runs at most two optimizer steps ahead of it ("admit the next
\* groups only now that the generators are on `version`").
GeneratorsFollow ==
    \A g \in Generators :
        /\ SyncedVersion <= genVersion[g]
        /\ genVersion[g] <= policyVersion
        /\ policyVersion <= SyncedVersion + 2

\* No rank 0 goes back to an older version.
VersionsNeverRegress == [][\A g \in Generators : genVersion'[g] >= genVersion[g]]_syncVars
=============================================================================
