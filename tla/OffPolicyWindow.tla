--------------------------- MODULE OffPolicyWindow ---------------------------
(***************************************************************************)
(* What the asynchronous loop of experiments/rl promises, without tasks,   *)
(* threads, queues or a work buffer: prompt groups form one stream, oldest *)
(* first.  A group is admitted at the end of the stream when the window of *)
(* (max_offpolicy_steps + 1) * num_groups_per_train_step slots has room;   *)
(* it is sampled under some version between the last one that every        *)
(* generator has pulled and the trainer's own; and the trainer consumes    *)
(* the oldest num_groups_per_train_step groups at a time.  A slot comes    *)
(* back when its group is dropped, or, for a trained group, when the       *)
(* version it was trained into is published to every generator.            *)
(*                                                                         *)
(* Nothing here compares a group's version with the trainer's: that no     *)
(* sample is too old when it is consumed follows from the window alone     *)
(* (WeightSyncProofs).  AsyncLoop implements this module.                  *)
(***************************************************************************)
EXTENDS LoopConstants, Sequences

CONSTANTS
    LastStep                 \* bound on the trainer's version

VARIABLES
    stream,      \* admitted groups that are neither consumed nor dropped
    trained,     \* the trainer's policy version
    published,   \* the last version that every generator has pulled
    admitted     \* groups admitted so far, and the id of the next one

vars == <<stream, trained, published, admitted>>

NotSampled == -1

Group == [id : Nat, version : Nat \cup {NotSampled}]

\* Slots charged to groups that were trained and not yet given back.
AwaitingPublish == NumGroupsPerTrainStep * (trained - published)

Init ==
    /\ stream = <<>>
    /\ trained = StartStep
    /\ published = StartStep
    /\ admitted = 0

Admit ==
    /\ Len(stream) + AwaitingPublish < (MaxOffpolicySteps + 1) * NumGroupsPerTrainStep
    /\ stream' = Append(stream, [id |-> admitted, version |-> NotSampled])
    /\ admitted' = admitted + 1
    /\ UNCHANGED <<trained, published>>

Sample(i, v) ==
    /\ stream' = [stream EXCEPT ![i].version = v]
    /\ UNCHANGED <<trained, published, admitted>>

\* A group is sampled, or sampled again by a later attempt.
SampleSome == \E i \in DOMAIN stream, v \in published .. trained : Sample(i, v)

\* A rollout that raises loses what it has sampled.
LoseSamples == \E i \in DOMAIN stream : Sample(i, NotSampled)

\* A group turns out to be of no use to training.
Drop ==
    /\ \E i \in DOMAIN stream :
          stream' = SubSeq(stream, 1, i - 1) \o SubSeq(stream, i + 1, Len(stream))
    /\ UNCHANGED <<trained, published, admitted>>

\* A shutdown discards the youngest groups.
Shutdown ==
    /\ \E n \in 0 .. Len(stream) : stream' = SubSeq(stream, 1, n)
    /\ UNCHANGED <<trained, published, admitted>>

Train ==
    /\ trained < LastStep
    /\ Len(stream) >= NumGroupsPerTrainStep
    /\ \A i \in 1 .. NumGroupsPerTrainStep : stream[i].version # NotSampled
    /\ stream' = SubSeq(stream, NumGroupsPerTrainStep + 1, Len(stream))
    /\ trained' = trained + 1
    /\ UNCHANGED <<published, admitted>>

Publish ==
    /\ published < trained
    /\ published' = published + 1
    /\ UNCHANGED <<stream, trained, admitted>>

Next == Admit \/ SampleSome \/ LoseSamples \/ Drop \/ Shutdown \/ Train \/ Publish

Spec == Init /\ [][Next]_vars

-----------------------------------------------------------------------------
(* Properties.                                                             *)

\* Every variable has the type it should have.
TypeOK ==
    /\ stream \in Seq(Group)
    /\ trained \in Nat
    /\ published \in Nat
    /\ published <= trained
    /\ admitted \in Nat

\* The window is never exceeded, neither by an admission nor by a train step
\* whose slots are not yet given back.
WithinWindow ==
    Len(stream) + AwaitingPublish <= (MaxOffpolicySteps + 1) * NumGroupsPerTrainStep

\* A group at position i is consumed (i - 1) \div NumGroupsPerTrainStep steps
\* from now or earlier: by then its version lags at most MaxOffpolicySteps.
EveryGroupOnTime ==
    \A i \in DOMAIN stream :
        stream[i].version # NotSampled =>
            trained * NumGroupsPerTrainStep + i - 1
                < (stream[i].version + MaxOffpolicySteps + 1) * NumGroupsPerTrainStep

\* The samples of the next train step lag the trainer by at most
\* max_offpolicy_steps ("the buffer guarantees that no sample will be born
\* stale"), although no step looks at their age.
NextBatchFresh ==
    \A i \in DOMAIN stream :
        (i <= NumGroupsPerTrainStep /\ stream[i].version # NotSampled)
            => trained - stream[i].version <= MaxOffpolicySteps

\* Groups stand in the stream in the order of their admission.
StreamInOrder ==
    /\ \A i \in DOMAIN stream : stream[i].id < admitted
    /\ \A i, j \in DOMAIN stream : i < j => stream[i].id < stream[j].id
=============================================================================
