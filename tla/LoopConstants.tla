---------------------------- MODULE LoopConstants ----------------------------
(***************************************************************************)
(* The sizes that the asynchronous RL loop and the window it implements    *)
(* share (AsyncLoopConfig of experiments/rl/controller.py).                *)
(***************************************************************************)
EXTENDS Integers

CONSTANTS
    MaxOffpolicySteps,       \* train steps a group may lag the trainer
    NumGroupsPerTrainStep,   \* groups consumed by a train step
    StartStep                \* the version training starts from, restored

ASSUME WindowAssumption ==
    /\ MaxOffpolicySteps \in Nat
    /\ NumGroupsPerTrainStep \in Nat \ {0}
    /\ StartStep \in Nat
=============================================================================
