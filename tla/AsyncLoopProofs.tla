--------------------------- MODULE AsyncLoopProofs ---------------------------
(***************************************************************************)
(* The asynchronous RL loop for every window, batch size, number of steps  *)
(* and set of generators.                                                  *)
(*                                                                         *)
(* The proof is put together the way the loop is.  The work buffer and the *)
(* weight sync keep the invariants proved in their own modules, because    *)
(* the loops keep the protocols these were proved under.  What the loop    *)
(* adds is what it holds between the two: which groups the workers have,   *)
(* what passes through the batcher, the queue and the trainer, where the   *)
(* trainer stands, and that the charged slots are the groups on the way.   *)
(* From it every step of the loop is a step of the window or invisible to  *)
(* it, and the bound on the policy age is the one proved of the window.    *)
(***************************************************************************)
EXTENDS AsyncLoop, SequenceTheorems, FiniteSetTheorems, TLAPS

SyncP == INSTANCE WeightSyncProofs WITH
    RolloutGroups <- Versions,
    departed <- active - Len(work),
    LastStep <- NumTrainingSteps,
    stream <- Stream,
    trained <- policyVersion,
    published <- Sync!SyncedVersion,
    admitted <- groupIndex

-----------------------------------------------------------------------------
(* The inductive invariant.                                                *)

\* The workers hold the groups in flight and, after close(), some whose entry
\* is gone; what close() leaves, or is admitted after it, nobody claims.
WorkersInv ==
    /\ \A i \in DOMAIN work :
          work[i].state = "INFLIGHT" <=> work[i].group_id \in DOMAIN rollouts
    /\ \A id \in DOMAIN rollouts : id < groupIndex
    /\ closed => \A i \in DOMAIN work : work[i].state = "WAITING"

\* The tasks are cancelled after the buffer is closed.
CloseInv == runPc \in {"cancel", "done"} => closed

AllSampled(groups) == \A i \in DOMAIN groups : groups[i].version # Failed

\* What each stage of the batcher, the queue and the trainer may hold.
HandoffInv ==
    /\ batcherPc \in {"take", "put"} => taken = <<>>
    /\ batcherPc = "build" => Len(taken) = 1
    /\ batcherPc = "pack" => Len(taken) <= 1 /\ AllSampled(taken)
    /\ batcherPc \in {"take", "build", "pack"} => ready = <<>>
    /\ batcherPc = "put" => Len(ready) = NumGroupsPerTrainStep
    /\ queue # <<>> => Head(queue) = Stop \/ Len(Head(queue)) = NumGroupsPerTrainStep
    /\ trainerPc \in {"get", "wait_pull", "save"} => batch = <<>>
    /\ trainerPc \in {"fwd", "wait_push", "optim"} => Len(batch) = NumGroupsPerTrainStep
    /\ AllSampled(accumulated) /\ AllSampled(ready)
    /\ AllSampled(InQueue) /\ AllSampled(batch)

\* Where the trainer stands between two handoffs of the weights.
TrainerInv ==
    /\ trainerPc \in {"get", "fwd", "wait_push", "optim", "save", "final_push", "final_pull"} =>
           policyVersion = syncVersion
    /\ trainerPc = "wait_pull" => policyVersion = syncVersion + 1
    /\ trainerPc = "optim" => pushTask = "done"
    /\ trainerPc \in {"get", "fwd", "wait_push", "optim"} =>
           step = policyVersion + 1 /\ step <= NumTrainingSteps
    /\ trainerPc \in {"wait_pull", "save"} => step = policyVersion
    /\ StartStep <= syncVersion /\ StartStep <= Sync!SyncedVersion /\ policyVersion <= LastVersion
    /\ \A g \in Generators : StartStep <= genVersion[g]

Awaiting == NumGroupsPerTrainStep * (policyVersion - Sync!SyncedVersion)

\* The slots: those charged are at least those of the groups on the way, and
\* until close() throws groups away they are exactly these.
SlotsInv ==
    /\ Len(work) + Len(Downstream) + oversized + Awaiting <= active
    /\ ~closed => active = Len(work) + Len(Downstream) + oversized + Awaiting
    /\ inputPc = "fetch" => Buffer!HasActiveSlot

\* The groups that failed and still hold their slot.
FailedGroups ==
    {work[i].group_id : i \in {j \in DOMAIN work : work[j].rollout_group = Failed}}
        \cup {taken[i].id : i \in {j \in DOMAIN taken : taken[j].version = Failed}}

\* Groups admitted are groups that hold a slot, were trained on, or were given
\* up: there are never more of them than MaxGroups.
CountInv ==
    /\ groupIndex + Cardinality(FailedGroups)
           <= active + NumGroupsPerTrainStep * (Sync!SyncedVersion - StartStep) + untrainable
    /\ untrainable <= MaxUntrainable
    /\ \A i \in DOMAIN taken : taken[i].id < groupIndex - Len(work)

IInv ==
    /\ TypeOK
    /\ SyncP!TypeOK /\ SyncP!BufferSafety
    /\ SyncP!IInv
    /\ CloseInv /\ WorkersInv /\ HandoffInv /\ TrainerInv /\ SlotsInv /\ CountInv

-----------------------------------------------------------------------------
(* Facts that several of the proofs below use.                             *)

\* The versions are numbers, the published one at most the trainer's, and a
\* pull that is complete has a version to publish.
LEMMA VersionFacts ==
    ASSUME TypeOK, SyncP!IInv
    PROVE  /\ policyVersion \in Nat /\ syncVersion \in Nat /\ Sync!SyncedVersion \in Int
           /\ Sync!SyncedVersion <= policyVersion
           /\ pullTask # "done" => Sync!SyncedVersion + 1 <= policyVersion
           /\ Awaiting \in Nat
           /\ pullTask # "done" => NumGroupsPerTrainStep <= Awaiting
<1>1. /\ policyVersion \in Nat /\ syncVersion \in Nat
      /\ policyVersion \in {syncVersion, syncVersion + 1}
  BY DEF TypeOK, Sync!SyncTypeOK, SyncP!IInv, SyncP!AheadInv
<1>2. /\ Sync!SyncedVersion \in Int
      /\ Sync!SyncedVersion <= policyVersion
      /\ pullTask # "done" => Sync!SyncedVersion + 1 <= policyVersion
  BY <1>1 DEF Sync!SyncedVersion
<1> DEFINE behind == policyVersion - Sync!SyncedVersion
<1>3. behind \in Nat /\ (pullTask # "done" => 1 <= behind)
  BY <1>1, <1>2
<1> HIDE DEF behind
<1>4. NumGroupsPerTrainStep * behind \in Nat
  BY <1>3, WindowAssumption
<1>5. 1 <= behind => NumGroupsPerTrainStep <= NumGroupsPerTrainStep * behind
  <2>1. 1 <= behind => 1 * NumGroupsPerTrainStep <= behind * NumGroupsPerTrainStep
    BY <1>3, WindowAssumption, SyncP!ProductMonotone DEF SyncP!ProductMonotone
  <2> QED
    BY <2>1, <1>3, WindowAssumption
<1> QED
  BY <1>1, <1>2, <1>3, <1>4, <1>5 DEF Awaiting, behind

\* What the pipeline holds outside the work buffer.
LEMMA DownstreamFacts ==
    ASSUME TypeOK
    PROVE  /\ InQueue \in Seq(Group)
           /\ Downstream \in Seq(Group)
           /\ Len(Downstream) = Len(batch) + Len(InQueue) + Len(ready)
                                   + Len(accumulated) + Len(taken)
           /\ Len(batch) \in Nat /\ Len(InQueue) \in Nat /\ Len(ready) \in Nat
           /\ Len(accumulated) \in Nat /\ Len(taken) \in Nat /\ Len(work) \in Nat
<1>1. InQueue \in Seq(Group)
  <2>1. CASE queue = <<>>
    BY <2>1, EmptySeq DEF InQueue
  <2>2. CASE queue # <<>>
    BY <2>2, HeadTailProperties DEF InQueue, TypeOK
  <2> QED
    BY <2>1, <2>2
<1>2. /\ batch \in Seq(Group) /\ ready \in Seq(Group) /\ accumulated \in Seq(Group)
      /\ taken \in Seq(Group) /\ work \in Seq(Buffer!Work)
  BY DEF TypeOK
<1>3. /\ Len(batch) \in Nat /\ Len(InQueue) \in Nat /\ Len(ready) \in Nat
      /\ Len(accumulated) \in Nat /\ Len(taken) \in Nat /\ Len(work) \in Nat
  BY <1>1, <1>2, LenProperties
<1> DEFINE a == batch \o InQueue
           b == a \o ready
           c == b \o accumulated
<1>4. a \in Seq(Group) /\ Len(a) = Len(batch) + Len(InQueue)
  BY <1>1, <1>2, ConcatProperties
<1> HIDE DEF a
<1>5. b \in Seq(Group) /\ Len(b) = Len(a) + Len(ready)
  BY <1>2, <1>4, ConcatProperties
<1> HIDE DEF b
<1>6. c \in Seq(Group) /\ Len(c) = Len(b) + Len(accumulated)
  BY <1>2, <1>5, ConcatProperties
<1> HIDE DEF c
<1>7. c \o taken \in Seq(Group) /\ Len(c \o taken) = Len(c) + Len(taken)
  BY <1>2, <1>6, ConcatProperties
<1>8. Downstream = c \o taken
  BY DEF Downstream, a, b, c
<1> QED
  BY <1>1, <1>3, <1>4, <1>5, <1>6, <1>7, <1>8

\* Rewriting an entry, or the state of one, leaves the others in their place.
LEMMA EntryChanged ==
    ASSUME work \in Seq(Buffer!Work), NEW i \in DOMAIN work, NEW x,
           work' = [work EXCEPT ![i] = x]
    PROVE  /\ Len(work') = Len(work) /\ DOMAIN work' = DOMAIN work
           /\ work'[i] = x
           /\ \A j \in DOMAIN work : j # i => work'[j] = work[j]
<1>1. i \in 1 .. Len(work) /\ DOMAIN work = 1 .. Len(work) /\ Len(work) \in Nat
  BY LenProperties
<1>2. \A j \in 1 .. Len(work) : work[j] \in Buffer!Work \cup {x}
  BY ElementOfSeq
<1>3. work \in Seq(Buffer!Work \cup {x})
  BY <1>1, <1>2, SeqDef, LenProperties
<1> QED
  BY <1>1, <1>3, ExceptSeq, LenProperties

\* The sizes that the loop gives its work buffer are ones it may have.
LEMMA SizesPositive ==
    /\ MaxActiveRolloutGroups \in Nat \ {0}
    /\ NoGroup \notin Versions
    /\ MaxGroups \in Nat
    /\ LastVersion \in Nat /\ StartStep <= LastVersion
<1> USE WindowAssumption, LoopAssumption
<1>1. MaxActiveRolloutGroups \in Nat \ {0}
  <2>1. MaxOffpolicySteps * NumGroupsPerTrainStep \in Nat
    OBVIOUS
  <2>2. (MaxOffpolicySteps + 1) * NumGroupsPerTrainStep
            = MaxOffpolicySteps * NumGroupsPerTrainStep + NumGroupsPerTrainStep
    OBVIOUS
  <2> QED
    BY <2>1, <2>2 DEF MaxActiveRolloutGroups
<1>2. LastVersion \in Nat /\ StartStep <= LastVersion
  BY DEF LastVersion
<1>3. NoGroup \notin Versions
  BY <1>2 DEF NoGroup, Versions, Failed
<1>4. NumGroupsPerTrainStep * (LastVersion - StartStep) \in Nat
  <2> DEFINE d == LastVersion - StartStep
  <2>1. d \in Nat
    BY <1>2
  <2> HIDE DEF d
  <2>2. NumGroupsPerTrainStep * d \in Nat
    BY <2>1
  <2> QED
    BY <2>2 DEF d
<1> QED
  BY <1>1, <1>2, <1>3, <1>4 DEF MaxGroups

\* The weight sync and the work buffer are ones their modules speak of.
LEMMA PartsAssumption == SyncP!SyncAssumption /\ SyncP!BufferAssumption
BY SizesPositive, LoopAssumption, WindowAssumption DEF SyncP!SyncAssumption, SyncP!BufferAssumption

\* Whoever gives slots back gives back no more than are charged.
LEMMA ReleaseCovered ==
    ASSUME IInv
    PROVE  /\ Sync!PullComplete => NumGroupsPerTrainStep <= active
           /\ batcherPc = "build" => 1 <= active
<1>1. Len(work) + Len(Downstream) + oversized + Awaiting <= active /\ oversized \in Nat
  BY DEF IInv, SlotsInv, TypeOK
<1>2. Awaiting \in Nat /\ (pullTask # "done" => NumGroupsPerTrainStep <= Awaiting)
  BY VersionFacts DEF IInv
<1>3. /\ Len(work) \in Nat /\ Len(Downstream) \in Nat
      /\ Len(taken) \in Nat /\ Len(taken) <= Len(Downstream)
  BY DownstreamFacts DEF IInv
<1>4. batcherPc = "build" => Len(taken) = 1
  BY DEF IInv, HandoffInv
<1>5. active \in Nat
  BY DEF IInv, TypeOK
<1> HIDE DEF Awaiting
<1> QED
  BY <1>1, <1>2, <1>3, <1>4, <1>5, WindowAssumption DEF Sync!PullComplete

-----------------------------------------------------------------------------
(* The weight sync: the trainer loop keeps the protocol of WeightSync.     *)

\* Only the trainer loop and the tasks of the sync touch the sync's state.
LEMMA SyncRefines == IInv /\ [Next]_vars => [Sync!SyncNext]_(Sync!syncVars)
<1> SUFFICES ASSUME IInv, [Next]_vars
             PROVE  [Sync!SyncNext]_(Sync!syncVars)
  OBVIOUS
<1> USE DEF syncVars, Sync!syncVars
<1>1. CASE Input \/ Rollout \/ Batching \/ Run
  BY <1>1 DEF Input, InputWaitForSlot, InputAddWork, InputCrashes, Rollout, RolloutGoesOn,
              RolloutClaim, RolloutSample, RolloutFinish, RolloutFails, HandIn, Batching,
              BatcherRaises, BatcherTake, BatcherBuild, BatcherPack, BatcherPut, BatcherClosed,
              BatcherPutStop, Run, RunWakes, RunClose, RunCancel
<1>2. CASE TrainerOptimStep
  <2>1. policyVersion = syncVersion /\ pushTask = "done" /\ policyVersion < NumTrainingSteps
    BY <1>2, LoopAssumption DEF TrainerOptimStep, IInv, TrainerInv, TypeOK, Sync!SyncTypeOK
  <2> QED
    BY <1>2, <2>1 DEF TrainerOptimStep, Sync!SyncNext, Sync!Optim
<1>3. CASE TrainerWaitPull
  <2>1. policyVersion # syncVersion
    BY <1>3 DEF TrainerWaitPull, IInv, TrainerInv, TypeOK, Sync!SyncTypeOK
  <2> QED
    BY <1>3, <2>1 DEF TrainerWaitPull, Sync!SyncNext, Sync!Start
<1>4. CASE Trainer /\ ~TrainerOptimStep /\ ~TrainerWaitPull
  BY <1>4 DEF Trainer, TrainerWaits, TrainerCalls, TrainerRaises, TrainerGet,
              TrainerForwardBackward, TrainerWaitPush, TrainerSaveCheckpoint, TrainerFinalPush,
              TrainerFinalPull
<1>5. CASE SyncPush \/ SyncPullBegin \/ SyncPullOne
  BY <1>5 DEF SyncPush, SyncPullBegin, SyncPullOne, Sync!SyncNext, Sync!Push, Sync!Pull
<1>6. CASE SyncRelease
  <2>1. NumGroupsPerTrainStep <= active
    BY <1>6, ReleaseCovered DEF SyncRelease
  <2>2. Sync!PullComplete /\ Sync!PullReturns
    BY <1>6, <2>1, WindowAssumption
       DEF SyncRelease, Buffer!ReleaseRejected, IInv, TypeOK
  <2> QED
    BY <2>2 DEF Sync!SyncNext, Sync!Pull
<1>7. CASE SyncFails
  BY <1>7 DEF SyncFails, Sync!SyncNext, Sync!Push, Sync!Pull
<1>8. CASE Terminated \/ Starved \/ UNCHANGED vars
  BY <1>8 DEF Terminated, Starved, vars
<1> QED
  BY <1>1, <1>2, <1>3, <1>4, <1>5, <1>6, <1>7, <1>8 DEF Next, PushPull

\* So it keeps the invariant of WeightSync.
LEMMA SyncKeeps == IInv /\ [Next]_vars => SyncP!IInv'
<1> SUFFICES ASSUME IInv, [Next]_vars
             PROVE  SyncP!IInv'
  OBVIOUS
<1>1. [Sync!SyncNext]_(Sync!syncVars)
  BY SyncRefines
<1>2. [SyncP!SyncNext]_(SyncP!syncVars)
  BY <1>1
     DEF Sync!syncVars, SyncP!syncVars, Sync!SyncNext, SyncP!SyncNext,
         Sync!Optim, SyncP!Optim, Sync!OptimStep, SyncP!OptimStep,
         Sync!Start, SyncP!Start, Sync!StartAsyncPushPull, SyncP!StartAsyncPushPull,
         Sync!Push, SyncP!Push, Sync!PushBegin, SyncP!PushBegin, Sync!PushEnd, SyncP!PushEnd,
         Sync!PushFails, SyncP!PushFails, Sync!Pull, SyncP!Pull,
         Sync!PullBegin, SyncP!PullBegin, Sync!PullOne, SyncP!PullOne,
         Sync!PullFails, SyncP!PullFails, Sync!PullComplete, SyncP!PullComplete,
         Sync!PullReturns, SyncP!PullReturns, Sync!Torn, SyncP!Torn
<1>3. SyncP!IInv
  BY DEF IInv
<1> QED
  BY <1>2, <1>3, SyncP!NextIInv, PartsAssumption DEF SyncP!NextIInv

-----------------------------------------------------------------------------
(* The work buffer: the loops keep the protocol of WorkBuffer.             *)

\* Groups that failed are groups that were admitted, so there are finitely many.
LEMMA FailedFinite ==
    ASSUME TypeOK, SyncP!BufferSafety, CountInv
    PROVE  /\ FailedGroups \subseteq 0 .. groupIndex
           /\ IsFiniteSet(FailedGroups) /\ Cardinality(FailedGroups) \in Nat
<1>1. /\ work \in Seq(Buffer!Work) /\ taken \in Seq(Group) /\ groupIndex \in Nat
      /\ Len(work) \in Nat /\ DOMAIN work = 1 .. Len(work)
  BY LenProperties DEF TypeOK
<1>2. ASSUME NEW i \in DOMAIN work
      PROVE  work[i].group_id \in 0 .. groupIndex
  <2>1. work[i] \in Buffer!Work /\ i \in 1 .. Len(work)
    BY <1>1, ElementOfSeq
  <2>2. work[i].group_id = groupIndex - Len(work) + i - 1
    BY DEF SyncP!BufferSafety, SyncP!StrictFifo
  <2> QED
    BY <1>1, <2>1, <2>2 DEF Buffer!Work
<1>3. ASSUME NEW i \in DOMAIN taken
      PROVE  taken[i].id \in 0 .. groupIndex
  <2>1. taken[i] \in Group
    BY <1>1, ElementOfSeq, LenProperties
  <2>2. taken[i].id < groupIndex - Len(work)
    BY DEF CountInv
  <2> QED
    BY <1>1, <2>1, <2>2 DEF Group
<1>4. FailedGroups \subseteq 0 .. groupIndex
  BY <1>2, <1>3 DEF FailedGroups
<1>5. IsFiniteSet(0 .. groupIndex)
  BY <1>1, FS_Interval
<1>6. IsFiniteSet(FailedGroups)
  BY <1>4, <1>5, FS_Subset
<1> QED
  BY <1>4, <1>6, FS_CardinalityType

\* The bound on the groups admitted is kept by the slots: a group that is
\* admitted finds one free, and no slot is given back for nothing.
LEMMA AdmissionBounded ==
    ASSUME IInv, Buffer!HasActiveSlot
    PROVE  groupIndex < MaxGroups
<1> DEFINE cap == MaxActiveRolloutGroups
           done == NumGroupsPerTrainStep * (Sync!SyncedVersion - StartStep)
           all == NumGroupsPerTrainStep * (LastVersion - StartStep)
<1>1. active < cap /\ active \in Nat /\ groupIndex \in Nat /\ untrainable \in Nat
  BY DEF Buffer!HasActiveSlot, IInv, TypeOK
<1>2. groupIndex + Cardinality(FailedGroups) <= active + done + untrainable
      /\ untrainable <= MaxUntrainable
  BY DEF IInv, CountInv
<1>3. Cardinality(FailedGroups) \in Nat
  BY FailedFinite DEF IInv
<1>4. /\ Sync!SyncedVersion \in Int /\ StartStep \in Nat /\ LastVersion \in Nat
      /\ Sync!SyncedVersion <= LastVersion
  BY VersionFacts, WindowAssumption, LoopAssumption DEF IInv, TrainerInv, LastVersion
<1>5. done \in Int /\ all \in Int /\ done <= all
  <2> DEFINE x == Sync!SyncedVersion - StartStep
             y == LastVersion - StartStep
  <2>1. x \in Int /\ y \in Int /\ x <= y
    BY <1>4
  <2> HIDE DEF x, y
  <2>2. x * NumGroupsPerTrainStep <= y * NumGroupsPerTrainStep
    BY <2>1, WindowAssumption, SyncP!ProductMonotone DEF SyncP!ProductMonotone
  <2>3. /\ NumGroupsPerTrainStep * x \in Int /\ NumGroupsPerTrainStep * y \in Int
        /\ NumGroupsPerTrainStep * x <= NumGroupsPerTrainStep * y
    BY <2>1, <2>2, WindowAssumption
  <2> QED
    BY <2>3 DEF x, y
<1>6. cap \in Nat /\ MaxUntrainable \in Nat
  BY WindowAssumption, LoopAssumption DEF MaxActiveRolloutGroups
<1>7. MaxGroups = all + cap + MaxUntrainable
  BY DEF MaxGroups
<1> HIDE DEF cap, done, all
<1> QED
  BY <1>1, <1>2, <1>3, <1>5, <1>6, <1>7

\* Every group outside the buffer that still holds a slot can give it back.
LEMMA ReleaseDeparted ==
    ASSUME IInv
    PROVE  /\ Sync!PullComplete => NumGroupsPerTrainStep <= active - Len(work)
           /\ batcherPc = "build" => 1 <= active - Len(work)
<1>1. Len(work) + Len(Downstream) + oversized + Awaiting <= active
      /\ oversized \in Nat /\ active \in Nat
  BY DEF IInv, SlotsInv, TypeOK
<1>2. Awaiting \in Nat /\ (pullTask # "done" => NumGroupsPerTrainStep <= Awaiting)
  BY VersionFacts DEF IInv
<1>3. /\ Len(work) \in Nat /\ Len(Downstream) \in Nat
      /\ Len(taken) \in Nat /\ Len(taken) <= Len(Downstream)
  BY DownstreamFacts DEF IInv
<1>4. batcherPc = "build" => Len(taken) = 1
  BY DEF IInv, HandoffInv
<1> DEFINE pipeline == Len(Downstream)
<1>5. Awaiting <= active - Len(work) /\ pipeline <= active - Len(work)
  <2> HIDE DEF Awaiting, pipeline
  <2> QED
    BY <1>1, <1>2, <1>3 DEF pipeline
<1>6. Sync!PullComplete => NumGroupsPerTrainStep <= Awaiting
  BY <1>2 DEF Sync!PullComplete
<1>7. batcherPc = "build" => 1 <= pipeline
  BY <1>3, <1>4
<1> HIDE DEF Awaiting, pipeline
<1> QED
  BY <1>1, <1>2, <1>3, <1>5, <1>6, <1>7, WindowAssumption DEF pipeline

\* Only these steps of the loop touch the buffer.
LEMMA BufferRefines == IInv /\ [Next]_vars => [Buffer!Next]_(Buffer!vars)
<1> SUFFICES ASSUME IInv, [Next]_vars
             PROVE  [Buffer!Next]_(Buffer!vars)
  OBVIOUS
<1> USE DEF Buffer!vars, Buffer!bufferVars, bufferVars
<1>0. /\ work \in Seq(Buffer!Work) /\ Len(work) \in Nat /\ DOMAIN work = 1 .. Len(work)
      /\ active \in Nat /\ groupIndex \in Nat
  BY LenProperties DEF IInv, TypeOK
<1>1. CASE InputAddWork
  <2>1. groupIndex < MaxGroups
    BY <1>1, AdmissionBounded DEF InputAddWork, Buffer!AddWork
  <2>2. Buffer!AddWork(groupIndex) /\ groupIndex' = groupIndex + 1
    BY <1>1 DEF InputAddWork
  <2>3. active' = active + 1 /\ Len(work') = Len(work) + 1
    BY <1>0, <2>2, AppendProperties DEF Buffer!AddWork
  <2> QED
    BY <1>0, <2>1, <2>2, <2>3 DEF Buffer!Next, Buffer!Admit
<1>2. CASE RolloutClaim
  <2>1. PICK i \in DOMAIN work : Buffer!ClaimNext(i)
    BY <1>2 DEF RolloutClaim
  <2>2. UNCHANGED groupIndex
    BY <1>2 DEF RolloutClaim, inputVars
  <2>3. active' = active /\ Len(work') = Len(work)
    BY <1>0, <2>1, EntryChanged DEF Buffer!ClaimNext
  <2> QED
    BY <1>0, <2>1, <2>2, <2>3 DEF Buffer!Next, Buffer!Claim
<1>3. ASSUME NEW id \in DOMAIN rollouts, RolloutFinish(id) \/ RolloutFails(id)
      PROVE  [Buffer!Next]_(Buffer!vars)
  <2>1. PICK group \in Versions : HandIn(id, group)
    BY <1>3 DEF RolloutFinish, RolloutFails, IInv, TypeOK, Versions
  <2>2. UNCHANGED groupIndex
    BY <2>1 DEF HandIn, inputVars
  <2>3. CASE UNCHANGED bufferVars
    BY <2>2, <2>3
  <2>4. CASE \E i \in DOMAIN work : Buffer!FinalizeWork(i, group)
    <3>1. PICK i \in DOMAIN work : Buffer!FinalizeWork(i, group)
      BY <2>4
    <3>2. active' = active /\ Len(work') = Len(work)
      BY <1>0, <3>1, EntryChanged DEF Buffer!FinalizeWork
    <3> QED
      BY <1>0, <2>2, <3>1, <3>2 DEF Buffer!Next, Buffer!Finalize
  <2> QED
    BY <2>1, <2>3, <2>4 DEF HandIn
<1>4. CASE BatcherTake
  <2>1. Buffer!TakeFinalized /\ UNCHANGED groupIndex
    BY <1>4 DEF BatcherTake, inputVars
  <2>2. active' = active /\ Len(work') = Len(work) - 1
    BY <1>0, <2>1, HeadTailProperties DEF Buffer!TakeFinalized
  <2> QED
    BY <1>0, <2>1, <2>2 DEF Buffer!Next, Buffer!Take
<1>5. CASE BatcherBuild
  <2>1. UNCHANGED groupIndex /\ (UNCHANGED bufferVars \/ Buffer!ReleaseActiveGroups(1))
    BY <1>5 DEF BatcherBuild, inputVars
  <2>2. CASE Buffer!ReleaseActiveGroups(1)
    <3>1. 1 \in 1 .. (active - Len(work))
      BY <1>0, <1>5, ReleaseDeparted DEF BatcherBuild
    <3>2. active' - Len(work') = (active - Len(work)) - 1
      BY <1>0, <2>2 DEF Buffer!ReleaseActiveGroups
    <3> QED
      BY <2>1, <2>2, <3>1, <3>2 DEF Buffer!Next, Buffer!Release
  <2> QED
    BY <2>1, <2>2
<1>6. CASE SyncRelease
  <2>1. UNCHANGED groupIndex
        /\ (UNCHANGED bufferVars \/ Buffer!ReleaseActiveGroups(NumGroupsPerTrainStep))
    BY <1>6 DEF SyncRelease, NotSync, inputVars
  <2>2. CASE Buffer!ReleaseActiveGroups(NumGroupsPerTrainStep)
    <3>1. NumGroupsPerTrainStep \in 1 .. (active - Len(work))
      BY <1>0, <1>6, ReleaseDeparted, WindowAssumption DEF SyncRelease
    <3>2. active' - Len(work') = (active - Len(work)) - NumGroupsPerTrainStep
      BY <1>0, <2>2, WindowAssumption DEF Buffer!ReleaseActiveGroups
    <3> QED
      BY <2>1, <2>2, <3>1, <3>2 DEF Buffer!Next, Buffer!Release
  <2> QED
    BY <2>1, <2>2
<1>7. CASE TrainerWaitPull
  <2>1. UNCHANGED groupIndex /\ (UNCHANGED bufferVars \/ Buffer!FlushMetrics)
    BY <1>7 DEF TrainerWaitPull, inputVars
  <2> QED
    BY <2>1 DEF Buffer!Next, Buffer!Flush, Buffer!FlushMetrics
<1>8. CASE RunClose
  <2>1. Buffer!Close /\ UNCHANGED groupIndex
    BY <1>8 DEF RunClose, inputVars
  <2>2. Len(work') = 0 /\ active' = active
    BY <2>1, EmptySeq DEF Buffer!Close
  <2> QED
    BY <1>0, <2>1, <2>2 DEF Buffer!Next, Buffer!Shutdown
<1>9. CASE \/ InputWaitForSlot \/ InputCrashes
           \/ \E id \in DOMAIN rollouts, g \in Generators : RolloutSample(id, g)
           \/ BatcherPack \/ BatcherPut \/ BatcherClosed \/ BatcherPutStop \/ BatcherRaises
           \/ Trainer /\ ~TrainerWaitPull
           \/ SyncPush \/ SyncPullBegin \/ SyncPullOne \/ SyncFails
           \/ RunWakes \/ RunCancel \/ Terminated \/ Starved \/ UNCHANGED vars
  BY <1>9 DEF InputWaitForSlot, InputCrashes, RolloutSample, BatcherPack, BatcherPut,
              BatcherClosed, BatcherPutStop, BatcherRaises, Trainer, TrainerWaits, TrainerCalls,
              TrainerRaises, TrainerGet, TrainerForwardBackward, TrainerWaitPush,
              TrainerOptimStep, TrainerSaveCheckpoint, TrainerFinalPush, TrainerFinalPull,
              SyncPush, SyncPullBegin, SyncPullOne, SyncFails, NotSync, RunWakes, RunCancel,
              Terminated, Starved, vars, inputVars
<1> QED
  BY <1>1, <1>2, <1>3, <1>4, <1>5, <1>6, <1>7, <1>8, <1>9
     DEF Next, Input, Rollout, RolloutGoesOn, Batching, PushPull, Run

\* So it keeps the invariants of WorkBuffer.
LEMMA BufferKeeps == IInv /\ [Next]_vars => SyncP!TypeOK' /\ SyncP!BufferSafety'
<1> SUFFICES ASSUME IInv, [Next]_vars
             PROVE  SyncP!TypeOK' /\ SyncP!BufferSafety'
  OBVIOUS
<1>1. [Buffer!Next]_(Buffer!vars)
  BY BufferRefines
<1>2. [SyncP!Next]_(SyncP!vars)
  BY <1>1
     DEF Buffer!vars, SyncP!vars, Buffer!bufferVars, SyncP!bufferVars,
         Buffer!Next, SyncP!Next, Buffer!Admit, SyncP!Admit,
         Buffer!AddWork, SyncP!AddWork, Buffer!HasActiveSlot, SyncP!HasActiveSlot,
         Buffer!Claim, SyncP!Claim, Buffer!ClaimNext, SyncP!ClaimNext,
         Buffer!InState, SyncP!InState, Buffer!Finalize, SyncP!Finalize,
         Buffer!FinalizeWork, SyncP!FinalizeWork, Buffer!Take, SyncP!Take,
         Buffer!TakeFinalized, SyncP!TakeFinalized, Buffer!Release, SyncP!Release,
         Buffer!ReleaseActiveGroups, SyncP!ReleaseActiveGroups,
         Buffer!ReleaseRejected, SyncP!ReleaseRejected, Buffer!Shutdown, SyncP!Shutdown,
         Buffer!Close, SyncP!Close, Buffer!Flush, SyncP!Flush,
         Buffer!FlushMetrics, SyncP!FlushMetrics
<1>3. SyncP!TypeOK /\ SyncP!BufferSafety
  BY DEF IInv
<1>4. SyncP!TypeOK'
  BY <1>2, <1>3, SyncP!BufferTypeStep, PartsAssumption DEF SyncP!BufferTypeStep
<1> QED
  BY <1>2, <1>3, <1>4, SyncP!BufferSafetyStep, PartsAssumption DEF SyncP!BufferSafetyStep

-----------------------------------------------------------------------------
(* The types.                                                              *)

\* The group the batcher takes has been handed in.
LEMMA HeadHandedIn ==
    ASSUME IInv, BatcherTake
    PROVE  /\ work # <<>> /\ 1 \in DOMAIN work /\ Head(work) = work[1]
           /\ work[1] \in Buffer!Work /\ work[1].state = "FINALIZED"
           /\ work[1].rollout_group \in Versions
           /\ [id |-> Head(work).group_id, version |-> Head(work).rollout_group] \in Group
<1>1. /\ work # <<>> /\ Head(work).state = "FINALIZED"
      /\ work \in Seq(Buffer!Work)
  BY DEF BatcherTake, Buffer!TakeFinalized, IInv, TypeOK
<1>2. 1 \in DOMAIN work /\ Head(work) = work[1] /\ work[1] \in Buffer!Work
  BY <1>1, HeadTailProperties, LenProperties, ElementOfSeq
<1>3. work[1].rollout_group # NoGroup
  BY <1>1, <1>2 DEF IInv, SyncP!BufferSafety, SyncP!ResultIffFinalized
<1> QED
  BY <1>1, <1>2, <1>3 DEF Buffer!Work, Group

\* What the components' invariants say of the types they share with the loop.
LEMMA ComponentTypes ==
    ASSUME SyncP!TypeOK', SyncP!IInv'
    PROVE  /\ work' \in Seq(Buffer!Work) /\ active' \in Nat /\ peak' \in Nat
           /\ closed' \in BOOLEAN /\ groupIndex' \in Nat
           /\ Sync!SyncTypeOK'
<1>1. SyncP!SyncTypeOK'
  BY DEF SyncP!IInv
<1>2. Sync!SyncTypeOK'
  BY <1>1 DEF SyncP!SyncTypeOK, Sync!SyncTypeOK, SyncP!Torn, Sync!Torn
<1> QED
  BY <1>2 DEF SyncP!TypeOK, SyncP!Work, Buffer!Work, SyncP!WorkState, Buffer!WorkState

\* The types of what the loop itself holds.
OwnTypes ==
    /\ inputPc \in {"wait", "fetch", "done", "crashed", "cancelled"}
    /\ DOMAIN rollouts \subseteq Nat
    /\ \A id \in DOMAIN rollouts : rollouts[id] \in Versions
    /\ batcherPc \in {"take", "build", "pack", "put", "put_stop", "done", "crashed", "cancelled"}
    /\ taken \in Seq(Group) /\ accumulated \in Seq(Group) /\ ready \in Seq(Group)
    /\ queue \in Seq(Seq(Group)) /\ Len(queue) <= 1
    /\ trainerPc \in {"get", "fwd", "wait_push", "optim", "wait_pull", "save",
                      "final_push", "final_pull", "done", "crashed", "cancelled"}
    /\ step \in Nat
    /\ batch \in Seq(Group)
    /\ runPc \in {"running", "close", "cancel", "done"}
    /\ outcome \in {"none", "trained", "raised"}
    /\ untrainable \in Nat /\ oversized \in Nat

\* A sequence of one element.
LEMMA Singleton ==
    ASSUME NEW S, NEW x \in S
    PROVE  <<x>> \in Seq(S) /\ Len(<<x>>) = 1 /\ Head(<<x>>) = x /\ <<x>>[1] = x /\ <<x>> # <<>>
OBVIOUS

\* The versions the generators stamp are among those a group may have.
LEMMA StampsAreVersions ==
    ASSUME IInv, NEW g \in Generators
    PROVE  /\ genVersion[g] \in Versions /\ genVersion[g] \in Nat
           /\ Sync!SyncedVersion <= genVersion[g]
           /\ genVersion[g] <= policyVersion
<1>1. /\ genVersion[g] \in Nat /\ syncVersion \in Nat /\ policyVersion \in {syncVersion, syncVersion + 1}
      /\ genVersion[g] \in {syncVersion - 1, syncVersion}
      /\ pullTask = "done" => genVersion[g] = syncVersion
  BY DEF IInv, SyncP!IInv, SyncP!SyncTypeOK, SyncP!AheadInv, SyncP!PullInv
<1>2. StartStep <= genVersion[g] /\ policyVersion <= LastVersion
  BY DEF IInv, TrainerInv
<1> QED
  BY <1>1, <1>2, SizesPositive, WindowAssumption DEF Versions, Sync!SyncedVersion

LEMMA RolloutTypes == IInv /\ Rollout => OwnTypes'
<1> SUFFICES ASSUME IInv, Rollout
             PROVE  OwnTypes'
  OBVIOUS
<1>0. OwnTypes
  BY DEF IInv, TypeOK, OwnTypes
<1> USE DEF batcherVars, trainerVars, runVars, dropVars, inputVars
<1>1. CASE RolloutClaim
  <2>1. PICK i \in DOMAIN work : rollouts' = Extend(rollouts, work[i].group_id, Failed)
    BY <1>1 DEF RolloutClaim
  <2>2. work[i].group_id \in Nat
    <3>1. work \in Seq(Buffer!Work)
      BY DEF IInv, TypeOK
    <3>2. work[i] \in Buffer!Work
      BY <3>1, ElementOfSeq, LenProperties
    <3> QED
      BY <3>2 DEF Buffer!Work
  <2>3. DOMAIN rollouts' \subseteq Nat /\ \A id \in DOMAIN rollouts' : rollouts'[id] \in Versions
    BY <1>0, <2>1, <2>2 DEF Extend, OwnTypes, Versions
  <2> QED
    BY <1>0, <1>1, <2>3 DEF RolloutClaim, OwnTypes
<1>2. ASSUME NEW id \in DOMAIN rollouts, NEW g \in Generators, RolloutSample(id, g)
      PROVE  OwnTypes'
  <2>1. rollouts' = [rollouts EXCEPT ![id] = genVersion[g]] /\ genVersion[g] \in Versions
    BY <1>2, StampsAreVersions DEF RolloutSample
  <2>2. DOMAIN rollouts' \subseteq Nat /\ \A k \in DOMAIN rollouts' : rollouts'[k] \in Versions
    BY <1>0, <2>1 DEF OwnTypes
  <2> QED
    BY <1>0, <1>2, <2>2 DEF RolloutSample, OwnTypes
<1>3. ASSUME NEW id \in DOMAIN rollouts, RolloutFinish(id) \/ RolloutFails(id)
      PROVE  OwnTypes'
  <2>1. PICK group : HandIn(id, group)
    BY <1>3 DEF RolloutFinish, RolloutFails
  <2>2. DOMAIN rollouts' \subseteq Nat /\ \A k \in DOMAIN rollouts' : rollouts'[k] \in Versions
    BY <1>0, <2>1 DEF HandIn, Without, OwnTypes
  <2>3. untrainable' \in Nat
    BY <1>0, <1>3 DEF RolloutFinish, RolloutFails, OwnTypes
  <2> QED
    BY <1>0, <2>1, <2>2, <2>3 DEF HandIn, OwnTypes
<1> QED
  BY <1>1, <1>2, <1>3 DEF Rollout, RolloutGoesOn

LEMMA BatchingTypes == IInv /\ Batching => OwnTypes'
<1> SUFFICES ASSUME IInv, Batching
             PROVE  OwnTypes'
  OBVIOUS
<1>0. OwnTypes
  BY DEF IInv, TypeOK, OwnTypes
<1> USE DEF trainerVars, runVars, dropVars, inputVars
<1>1. CASE BatcherTake
  BY <1>0, <1>1, HeadHandedIn, Singleton DEF BatcherTake, OwnTypes
<1>2. CASE BatcherBuild
  <2>1. taken' \in Seq(Group)
    BY <1>0, <1>2, EmptySeq DEF BatcherBuild, OwnTypes
  <2>2. untrainable' \in Nat
    BY <1>0, <1>2 DEF BatcherBuild, OwnTypes
  <2> QED
    BY <1>0, <1>2, <2>1, <2>2 DEF BatcherBuild, OwnTypes
<1>3. CASE BatcherPack
  <2>1. PICK fits \in BOOLEAN :
            LET groups == AccumulatedWith(taken, fits)
            IN  /\ taken' = <<>>
                /\ \/ accumulated' = groups /\ UNCHANGED ready /\ batcherPc' = "take"
                   \/ /\ NumGroupsPerTrainStep <= Len(groups)
                      /\ ready' = SubSeq(groups, 1, NumGroupsPerTrainStep)
                      /\ accumulated' = SubSeq(groups, NumGroupsPerTrainStep + 1, Len(groups))
                      /\ batcherPc' = "put"
    <3>1. \A fits \in BOOLEAN : Len(AccumulatedWith(taken, fits)) \in Nat
      BY <1>0, ConcatProperties, LenProperties DEF AccumulatedWith, OwnTypes
    <3> QED
      BY <1>3, <3>1, WindowAssumption DEF BatcherPack
  <2> DEFINE groups == AccumulatedWith(taken, fits)
  <2>2. groups \in Seq(Group) /\ Len(groups) \in Nat
    BY <1>0, ConcatProperties, LenProperties DEF AccumulatedWith, OwnTypes
  <2>3. \A i \in 1 .. Len(groups) : groups[i] \in Group
    BY <2>2, ElementOfSeq
  <2>4. accumulated' \in Seq(Group) /\ ready' \in Seq(Group) /\ taken' \in Seq(Group)
    <3> HIDE DEF groups
    <3>1. NumGroupsPerTrainStep <= Len(groups) =>
              /\ SubSeq(groups, 1, NumGroupsPerTrainStep) \in Seq(Group)
              /\ SubSeq(groups, NumGroupsPerTrainStep + 1, Len(groups)) \in Seq(Group)
      BY <2>2, <2>3, SubSeqProperties, WindowAssumption
    <3> QED
      BY <1>0, <2>1, <2>2, <3>1, EmptySeq DEF OwnTypes, groups
  <2>5. oversized' \in Nat
    BY <1>0, <1>3 DEF BatcherPack, OwnTypes
  <2> QED
    BY <1>0, <1>3, <2>1, <2>4, <2>5 DEF BatcherPack, OwnTypes
<1>4. CASE BatcherPut
  BY <1>0, <1>4, Singleton, EmptySeq DEF BatcherPut, OwnTypes
<1>5. CASE BatcherClosed
  BY <1>0, <1>5 DEF BatcherClosed, batcherVars, OwnTypes
<1>6. CASE BatcherPutStop
  <2>1. Stop \in Seq(Group)
    BY EmptySeq DEF Stop
  <2> QED
    BY <1>0, <1>6, <2>1, Singleton DEF BatcherPutStop, OwnTypes
<1>7. CASE BatcherRaises
  BY <1>0, <1>7 DEF BatcherRaises, OwnTypes
<1> QED
  BY <1>1, <1>2, <1>3, <1>4, <1>5, <1>6, <1>7 DEF Batching

LEMMA TypeKeeps == IInv /\ [Next]_vars => TypeOK'
<1> SUFFICES ASSUME IInv, [Next]_vars
             PROVE  TypeOK'
  OBVIOUS
<1>0. OwnTypes
  BY DEF IInv, TypeOK, OwnTypes
<1>1. OwnTypes'
  <2> USE DEF batcherVars, trainerVars, runVars, dropVars, inputVars
  <2>1. CASE Input
    BY <1>0, <2>1 DEF Input, InputWaitForSlot, InputAddWork, InputCrashes, OwnTypes
  <2>2. CASE TrainerGet
    <3>1. Head(queue) \in Seq(Group) /\ <<>> \in Seq(Seq(Group)) /\ Len(<<>>) = 0
      BY <1>0, <2>2, HeadTailProperties, EmptySeq DEF TrainerGet, OwnTypes
    <3> QED
      BY <1>0, <2>2, <3>1 DEF TrainerGet, OwnTypes
  <2>3. CASE TrainerOptimStep
    BY <1>0, <2>3, EmptySeq DEF TrainerOptimStep, OwnTypes
  <2>4. CASE Trainer /\ ~TrainerGet /\ ~TrainerOptimStep
    BY <1>0, <2>4
       DEF Trainer, TrainerWaits, TrainerCalls, TrainerRaises, TrainerForwardBackward,
           TrainerWaitPush, TrainerWaitPull, TrainerSaveCheckpoint, TrainerFinalPush,
           TrainerFinalPull, OwnTypes
  <2>5. CASE PushPull \/ SyncFails
    BY <1>0, <2>5
       DEF PushPull, SyncPush, SyncPullBegin, SyncPullOne, SyncRelease, SyncFails, NotSync, OwnTypes
  <2>6. CASE Run
    BY <1>0, <2>6, EmptySeq DEF Run, RunWakes, RunClose, RunCancel, Cancelled, OwnTypes
  <2>7. CASE Terminated \/ Starved \/ UNCHANGED vars
    BY <1>0, <2>7 DEF Terminated, Starved, vars, OwnTypes
  <2> QED
    BY RolloutTypes, BatchingTypes, <2>1, <2>2, <2>3, <2>4, <2>5, <2>6, <2>7 DEF Next
<1>2. SyncP!TypeOK' /\ SyncP!IInv'
  BY BufferKeeps, SyncKeeps
<1> QED
  BY <1>1, <1>2, ComponentTypes DEF TypeOK, OwnTypes, Buffer!Work, Buffer!WorkState, Group,
                                    Versions, LastVersion, Failed, NoGroup

-----------------------------------------------------------------------------
(* Where the trainer stands.                                               *)

LEMMA TrainerKeeps == IInv /\ [Next]_vars => TrainerInv'
<1> SUFFICES ASSUME IInv, [Next]_vars
             PROVE  TrainerInv'
  OBVIOUS
<1>0. /\ policyVersion \in Nat /\ syncVersion \in Nat /\ step \in Nat
      /\ policyVersion \in {syncVersion, syncVersion + 1}
      /\ pushTask # "torn"
      /\ pullTask \in {"pulling", "done"} => pushTask = "done"
      /\ pullTask \in {"wait_push", "done"} => reading = {}
      /\ genVersion \in [Generators -> Nat]
  BY DEF IInv, TypeOK, SyncP!IInv, SyncP!SyncTypeOK, SyncP!AheadInv, SyncP!PushInv, SyncP!PullInv
<1>a. TrainerInv
  BY DEF IInv
<1> USE WindowAssumption, LoopAssumption
<1> USE DEF Sync!SyncedVersion
<1>1. CASE Input \/ Rollout \/ Batching \/ Run
  <2>1. UNCHANGED syncVars
    BY <1>1 DEF Input, InputWaitForSlot, InputAddWork, InputCrashes, Rollout, RolloutGoesOn,
                RolloutClaim, RolloutSample, RolloutFinish, RolloutFails, HandIn, Batching,
                BatcherRaises, BatcherTake, BatcherBuild, BatcherPack, BatcherPut, BatcherClosed,
                BatcherPutStop, Run, RunWakes, RunClose, RunCancel
  <2>2. step' = step
    BY <1>1 DEF Input, InputWaitForSlot, InputAddWork, InputCrashes, Rollout, RolloutGoesOn,
                RolloutClaim, RolloutSample, RolloutFinish, RolloutFails, HandIn, Batching,
                BatcherRaises, BatcherTake, BatcherBuild, BatcherPack, BatcherPut, BatcherClosed,
                BatcherPutStop, Run, RunWakes, RunClose, RunCancel, trainerVars
  <2>3. trainerPc' \in {trainerPc, "done", "crashed", "cancelled"}
    BY <1>1 DEF Input, InputWaitForSlot, InputAddWork, InputCrashes, Rollout, RolloutGoesOn,
                RolloutClaim, RolloutSample, RolloutFinish, RolloutFails, HandIn, Batching,
                BatcherRaises, BatcherTake, BatcherBuild, BatcherPack, BatcherPut, BatcherClosed,
                BatcherPutStop, Run, RunWakes, RunClose, RunCancel, trainerVars, Cancelled,
                Finished
  <2> QED
    BY <1>a, <2>1, <2>2, <2>3 DEF TrainerInv, syncVars
<1>2. CASE TrainerGet
  BY <1>0, <1>a, <1>2 DEF TrainerGet, TrainerInv, syncVars
<1>3. CASE TrainerForwardBackward
  BY <1>0, <1>a, <1>3 DEF TrainerForwardBackward, TrainerInv, syncVars
<1>4. CASE TrainerWaitPush
  BY <1>0, <1>a, <1>4 DEF TrainerWaitPush, TrainerInv, syncVars
<1>5. CASE TrainerOptimStep
  BY <1>0, <1>a, <1>5
     DEF TrainerOptimStep, Sync!OptimStep, TrainerInv, LastVersion
<1>6. CASE TrainerWaitPull
  BY <1>0, <1>a, <1>6
     DEF TrainerWaitPull, Sync!StartAsyncPushPull, TrainerInv, syncVars
<1>7. CASE TrainerSaveCheckpoint
  BY <1>0, <1>a, <1>7 DEF TrainerSaveCheckpoint, TrainerInv, syncVars
<1>8. CASE TrainerFinalPush \/ TrainerFinalPull
  BY <1>0, <1>a, <1>8 DEF TrainerFinalPush, TrainerFinalPull, TrainerInv, syncVars
<1>9. ASSUME UNCHANGED <<trainerPc, step, policyVersion, syncVersion>>,
             pushTask = "done" => pushTask' = "done",
             pullTask' = pullTask \/ pullTask \in {"wait_push", "pulling"},
             \A g \in Generators : StartStep <= genVersion'[g]
      PROVE  TrainerInv'
  BY <1>0, <1>a, <1>9 DEF TrainerInv
<1>10. CASE SyncPush
  BY <1>a, <1>9, <1>10
     DEF SyncPush, Sync!PushBegin, Sync!PushEnd, NotSync, trainerVars, TrainerInv
<1>11. CASE SyncPullBegin
  BY <1>a, <1>9, <1>11 DEF SyncPullBegin, Sync!PullBegin, NotSync, trainerVars, TrainerInv
<1>12. CASE SyncPullOne
  BY <1>0, <1>a, <1>9, <1>12 DEF SyncPullOne, Sync!PullOne, NotSync, trainerVars, TrainerInv
<1>13. CASE SyncRelease
  BY <1>a, <1>9, <1>13
     DEF SyncRelease, Sync!PullComplete, Sync!PullReturns, NotSync, trainerVars, TrainerInv
<1>14. CASE SyncFails
  BY <1>0, <1>a, <1>9, <1>14
     DEF SyncFails, Sync!PushFails, Sync!PullFails, NotSync, trainerVars, TrainerInv
<1>15. CASE Terminated \/ Starved \/ UNCHANGED vars
  BY <1>a, <1>15 DEF Terminated, Starved, vars, syncVars, trainerVars, TrainerInv
<1>16. CASE TrainerRaises
  BY <1>a, <1>16 DEF TrainerRaises, TrainerInv, syncVars
<1> QED
  BY <1>1, <1>2, <1>3, <1>4, <1>5, <1>6, <1>7, <1>8, <1>10, <1>11, <1>12, <1>13, <1>14, <1>15,
     <1>16
     DEF Next, Trainer, TrainerWaits, TrainerCalls, PushPull

-----------------------------------------------------------------------------
(* What the stages between the work buffer and the optimizer hold.         *)

\* The groups are kept, or split into a batch and a surplus, oldest first.
KeptOrSplit(groups) ==
    LET n == NumGroupsPerTrainStep
    IN  \/ accumulated' = groups /\ ready' = ready /\ batcherPc' = "take"
        \/ /\ n <= Len(groups)
           /\ ready' \in Seq(Group) /\ Len(ready') = n
           /\ accumulated' \in Seq(Group) /\ Len(accumulated') = Len(groups) - n
           /\ \A i \in 1 .. n : ready'[i] = groups[i]
           /\ \A i \in 1 .. Len(groups) - n : accumulated'[i] = groups[n + i]
           /\ batcherPc' = "put"

\* The Batcher gives out the oldest groups it holds and keeps the others, or
\* holds on to them all.
LEMMA PackEffect ==
    ASSUME TypeOK, BatcherPack
    PROVE  \E fits \in BOOLEAN :
              /\ AccumulatedWith(taken, fits) \in Seq(Group)
              /\ Len(AccumulatedWith(taken, fits)) \in Nat
              /\ taken' = <<>>
              /\ fits \/ taken = <<>> => oversized' = oversized
              /\ ~fits /\ taken # <<>> => oversized' = oversized + 1
              /\ KeptOrSplit(AccumulatedWith(taken, fits))
<1> USE WindowAssumption
<1>1. accumulated \in Seq(Group) /\ taken \in Seq(Group)
  BY DEF TypeOK
<1>2. \A fits \in BOOLEAN : /\ AccumulatedWith(taken, fits) \in Seq(Group)
                            /\ Len(AccumulatedWith(taken, fits)) \in Nat
  BY <1>1, ConcatProperties, LenProperties DEF AccumulatedWith
<1>3. PICK fits \in BOOLEAN :
          LET groups == AccumulatedWith(taken, fits)
              n == NumGroupsPerTrainStep
          IN  /\ taken' = <<>>
              /\ fits \/ taken = <<>> => oversized' = oversized
              /\ ~fits /\ taken # <<>> => oversized' = oversized + 1
              /\ \/ accumulated' = groups /\ ready' = ready /\ batcherPc' = "take"
                 \/ /\ n <= Len(groups)
                    /\ ready' = SubSeq(groups, 1, n)
                    /\ accumulated' = SubSeq(groups, n + 1, Len(groups))
                    /\ batcherPc' = "put"
  BY <1>2 DEF BatcherPack
<1> DEFINE groups == AccumulatedWith(taken, fits)
           n == NumGroupsPerTrainStep
<1>4. groups \in Seq(Group) /\ Len(groups) \in Nat
  BY <1>2
<1>5. ASSUME n <= Len(groups)
      PROVE  /\ SubSeq(groups, 1, n) \in Seq(Group) /\ Len(SubSeq(groups, 1, n)) = n
             /\ \A i \in 1 .. n : SubSeq(groups, 1, n)[i] = groups[i]
             /\ SubSeq(groups, n + 1, Len(groups)) \in Seq(Group)
             /\ Len(SubSeq(groups, n + 1, Len(groups))) = Len(groups) - n
             /\ \A i \in 1 .. Len(groups) - n :
                   SubSeq(groups, n + 1, Len(groups))[i] = groups[n + i]
  <2> HIDE DEF groups
  <2>1. \A i \in 1 .. Len(groups) : groups[i] \in Group
    BY <1>4, ElementOfSeq
  <2> QED
    BY <1>4, <1>5, <2>1, SubSeqProperties
<1>6. KeptOrSplit(groups)
  <2>1. CASE accumulated' = groups /\ ready' = ready /\ batcherPc' = "take"
    BY <2>1 DEF KeptOrSplit
  <2>2. CASE ~(accumulated' = groups /\ ready' = ready /\ batcherPc' = "take")
    <3>1. /\ n <= Len(groups) /\ batcherPc' = "put"
          /\ ready' = SubSeq(groups, 1, n)
          /\ accumulated' = SubSeq(groups, n + 1, Len(groups))
      BY <1>3, <2>2
    <3> HIDE DEF groups
    <3> QED
      BY <1>5, <3>1 DEF KeptOrSplit
  <2> QED
    BY <2>1, <2>2
<1> QED
  BY <1>3, <1>4, <1>6

\* Samples in two sequences are samples in both together.
LEMMA ConcatSampled ==
    ASSUME NEW s \in Seq(Group), NEW t \in Seq(Group), AllSampled(s), AllSampled(t)
    PROVE  AllSampled(s \o t)
<1>1. /\ s \o t \in Seq(Group) /\ Len(s \o t) = Len(s) + Len(t)
      /\ DOMAIN (s \o t) = 1 .. Len(s) + Len(t)
      /\ \A i \in 1 .. Len(s) + Len(t) :
            (s \o t)[i] = IF i <= Len(s) THEN s[i] ELSE t[i - Len(s)]
  BY ConcatProperties, LenProperties
<1>2. /\ DOMAIN s = 1 .. Len(s) /\ DOMAIN t = 1 .. Len(t)
      /\ Len(s) \in Nat /\ Len(t) \in Nat
  BY LenProperties
<1>3. ASSUME NEW i \in 1 .. Len(s) + Len(t)
      PROVE  (s \o t)[i].version # Failed
  <2>1. CASE i <= Len(s)
    BY <1>1, <1>2, <2>1 DEF AllSampled
  <2>2. CASE ~(i <= Len(s))
    <3>1. i - Len(s) \in 1 .. Len(t)
      BY <1>2, <2>2
    <3> QED
      BY <1>1, <1>2, <2>2, <3>1 DEF AllSampled
  <2> QED
    BY <2>1, <2>2
<1> QED
  BY <1>1, <1>3 DEF AllSampled

LEMMA HandoffKeeps == IInv /\ [Next]_vars => HandoffInv'
<1> SUFFICES ASSUME IInv, [Next]_vars
             PROVE  HandoffInv'
  OBVIOUS
<1> USE WindowAssumption
<1>a. HandoffInv /\ TypeOK
  BY DEF IInv
<1>b. /\ taken \in Seq(Group) /\ accumulated \in Seq(Group) /\ ready \in Seq(Group)
      /\ batch \in Seq(Group) /\ queue \in Seq(Seq(Group))
  BY <1>a DEF TypeOK
<1>c. Len(<<>>) = 0 /\ DOMAIN <<>> = {} /\ AllSampled(<<>>)
  BY EmptySeq DEF AllSampled
<1>1. CASE Input \/ Rollout \/ PushPull \/ SyncFails \/ Terminated \/ Starved \/ UNCHANGED vars
  <2>1. UNCHANGED <<batcherVars, queue, trainerVars>>
    BY <1>1 DEF Input, InputWaitForSlot, InputAddWork, InputCrashes, Rollout, RolloutGoesOn,
                RolloutClaim, RolloutSample, RolloutFinish, RolloutFails, HandIn, PushPull,
                SyncPush, SyncPullBegin, SyncPullOne, SyncRelease, SyncFails, NotSync, Terminated,
                Starved, vars
  <2> QED
    BY <1>a, <2>1 DEF batcherVars, trainerVars, HandoffInv, InQueue, AllSampled
<1>2. CASE BatcherTake
  <2>1. /\ taken' = <<[id |-> Head(work).group_id, version |-> Head(work).rollout_group]>>
        /\ Len(taken') = 1 /\ batcherPc = "take" /\ batcherPc' = "build"
        /\ UNCHANGED <<accumulated, ready, queue, trainerVars>>
    BY <1>2, HeadHandedIn, Singleton DEF BatcherTake
  <2> QED
    BY <1>a, <2>1 DEF trainerVars, HandoffInv, InQueue, AllSampled
<1>3. CASE BatcherBuild
  <2>1. batcherPc' = "pack" /\ (taken' = <<>> \/ (UNCHANGED taken /\ Head(taken).version # Failed))
    <3>1. active \in Nat /\ batcherPc = "build"
      BY <1>a, <1>3 DEF BatcherBuild, TypeOK
    <3>2. ~Buffer!ReleaseRejected(1)
      BY <3>1, ReleaseCovered DEF Buffer!ReleaseRejected
    <3>3. \/ Head(taken).version # Failed /\ batcherPc' = "pack" /\ UNCHANGED taken
          \/ taken' = <<>> /\ batcherPc' = "pack"
          \/ Buffer!ReleaseRejected(1)
      BY <1>3 DEF BatcherBuild
    <3> QED
      BY <3>2, <3>3
  <2>2. batcherPc = "build" /\ UNCHANGED <<accumulated, ready, queue, trainerVars>>
    BY <1>3 DEF BatcherBuild
  <2>3. Len(taken') <= 1 /\ AllSampled(taken')
    <3>1. Len(taken) = 1 /\ ready = <<>>
      BY <1>a, <2>2 DEF HandoffInv
    <3>2. DOMAIN taken = {1} /\ Head(taken) = taken[1]
      BY <1>b, <3>1, HeadTailProperties, LenProperties, EmptySeq
    <3>3. CASE taken' = <<>>
      BY <1>c, <3>3 DEF AllSampled
    <3>4. CASE UNCHANGED taken /\ Head(taken).version # Failed
      <4>1. taken' = taken /\ taken[1].version # Failed
        BY <3>2, <3>4
      <4>2. AllSampled(taken)
        BY <3>2, <4>1 DEF AllSampled
      <4> QED
        BY <3>1, <4>1, <4>2
    <3> QED
      BY <2>1, <3>3, <3>4
  <2> QED
    BY <1>a, <2>1, <2>2, <2>3 DEF trainerVars, HandoffInv, InQueue, AllSampled
<1>4. CASE BatcherPack
  <2> DEFINE n == NumGroupsPerTrainStep
  <2>0. batcherPc = "pack" /\ UNCHANGED <<queue, trainerVars>>
    BY <1>4 DEF BatcherPack
  <2>1. AllSampled(taken) /\ AllSampled(accumulated) /\ ready = <<>>
    BY <1>a, <2>0 DEF HandoffInv
  <2>2. \A fits \in BOOLEAN : AllSampled(AccumulatedWith(taken, fits))
    BY <1>b, <2>1, ConcatSampled DEF AccumulatedWith
  <2>3. PICK fits \in BOOLEAN :
            /\ AccumulatedWith(taken, fits) \in Seq(Group)
            /\ Len(AccumulatedWith(taken, fits)) \in Nat
            /\ taken' = <<>>
            /\ KeptOrSplit(AccumulatedWith(taken, fits))
    BY <1>a, <1>4, PackEffect
  <2> DEFINE groups == AccumulatedWith(taken, fits)
  <2>4. CASE accumulated' = groups /\ ready' = ready /\ batcherPc' = "take"
    BY <1>a, <1>c, <2>0, <2>1, <2>2, <2>3, <2>4 DEF trainerVars, HandoffInv, InQueue, AllSampled
  <2>5. CASE /\ n <= Len(groups)
             /\ ready' \in Seq(Group) /\ Len(ready') = n
             /\ accumulated' \in Seq(Group) /\ Len(accumulated') = Len(groups) - n
             /\ \A i \in 1 .. n : ready'[i] = groups[i]
             /\ \A i \in 1 .. Len(groups) - n : accumulated'[i] = groups[n + i]
             /\ batcherPc' = "put"
    <3>1. /\ DOMAIN ready' = 1 .. n /\ DOMAIN accumulated' = 1 .. Len(groups) - n
          /\ DOMAIN groups = 1 .. Len(groups) /\ Len(groups) \in Nat
      BY <2>3, <2>5, LenProperties
    <3>2. AllSampled(groups)
      BY <2>2, Zenon
    <3> HIDE DEF groups
    <3>3. AllSampled(ready')
      BY <2>5, <3>1, <3>2 DEF AllSampled
    <3>4. AllSampled(accumulated')
      <4> SUFFICES ASSUME NEW i \in 1 .. Len(groups) - n
                   PROVE  accumulated'[i].version # Failed
        BY <3>1 DEF AllSampled
      <4>1. n + i \in DOMAIN groups
        BY <2>5, <3>1
      <4> QED
        BY <2>5, <3>2, <4>1 DEF AllSampled
    <3> QED
      BY <1>a, <1>c, <2>0, <2>3, <2>5, <3>3, <3>4
         DEF trainerVars, HandoffInv, InQueue, AllSampled
  <2> QED
    BY <2>3, <2>4, <2>5 DEF KeptOrSplit
<1>5. CASE BatcherPut
  <2>1. /\ batcherPc = "put" /\ batcherPc' = "take" /\ queue' = <<ready>> /\ ready' = <<>>
        /\ UNCHANGED <<taken, accumulated, trainerVars>>
    BY <1>5 DEF BatcherPut
  <2>2. Head(queue') = ready /\ queue' # <<>>
    BY <1>b, <2>1, Singleton
  <2> QED
    BY <1>a, <1>c, <2>1, <2>2 DEF trainerVars, HandoffInv, InQueue, AllSampled
<1>6. CASE BatcherClosed
  BY <1>a, <1>6 DEF BatcherClosed, trainerVars, HandoffInv, InQueue, AllSampled
<1>7. CASE BatcherPutStop
  <2>1. Head(queue') = Stop /\ queue' # <<>>
    BY <1>7 DEF BatcherPutStop
  <2> QED
    BY <1>a, <1>c, <1>7, <2>1
       DEF BatcherPutStop, trainerVars, HandoffInv, InQueue, AllSampled, Stop
<1>8. CASE TrainerGet
  <2>1. /\ batch' = InQueue /\ InQueue' = <<>> /\ queue' = <<>> /\ UNCHANGED batcherVars
        /\ IF InQueue = Stop THEN trainerPc' = "final_push" ELSE trainerPc' = "fwd"
        /\ queue # <<>> /\ InQueue = Head(queue)
    BY <1>8 DEF TrainerGet, InQueue
  <2>2. InQueue # Stop => Len(InQueue) = NumGroupsPerTrainStep
    BY <1>a, <2>1 DEF HandoffInv
  <2>3. AllSampled(InQueue)
    BY <1>a DEF HandoffInv
  <2>4. AllSampled(batch)' /\ AllSampled(InQueue)'
    BY <1>c, <2>1, <2>3 DEF AllSampled
  <2>5. /\ AllSampled(accumulated)' /\ AllSampled(ready)'
        /\ trainerPc' \in {"get", "wait_pull", "save"} => batch' = <<>>
        /\ trainerPc' \in {"fwd", "wait_push", "optim"} => Len(batch') = NumGroupsPerTrainStep
    BY <1>a, <2>1, <2>2 DEF HandoffInv, batcherVars, AllSampled
  <2> QED
    BY <1>a, <2>1, <2>4, <2>5 DEF HandoffInv, batcherVars
<1>9. CASE TrainerOptimStep
  BY <1>a, <1>c, <1>9 DEF TrainerOptimStep, batcherVars, HandoffInv, InQueue, AllSampled
<1>10. CASE Trainer /\ ~TrainerGet /\ ~TrainerOptimStep
  BY <1>a, <1>10
     DEF Trainer, TrainerWaits, TrainerCalls, TrainerRaises, TrainerForwardBackward,
         TrainerWaitPush, TrainerWaitPull, TrainerSaveCheckpoint, TrainerFinalPush,
         TrainerFinalPull, batcherVars, HandoffInv, InQueue, AllSampled
<1>11. CASE Run
  <2>1. /\ UNCHANGED <<taken, accumulated, ready, queue, batch>>
        /\ batcherPc' \in {batcherPc, "done", "cancelled"}
        /\ trainerPc' \in {trainerPc, "done", "crashed", "cancelled"}
    BY <1>a, <1>11
       DEF Run, RunWakes, RunClose, RunCancel, Cancelled, Finished, batcherVars, trainerVars,
           HandoffInv
  <2> QED
    BY <1>a, <2>1 DEF HandoffInv, InQueue, AllSampled
<1>12. CASE BatcherRaises
  BY <1>a, <1>12 DEF BatcherRaises, trainerVars, HandoffInv, InQueue, AllSampled
<1> QED
  BY <1>1, <1>2, <1>3, <1>4, <1>5, <1>6, <1>7, <1>8, <1>9, <1>10, <1>11, <1>12
     DEF Next, Batching

-----------------------------------------------------------------------------
(* Who holds the groups of the work buffer.                                *)

\* The entries of the buffer, whose ids are consecutive.
LEMMA EntryFacts ==
    ASSUME IInv
    PROVE  /\ work \in Seq(Buffer!Work) /\ Len(work) \in Nat /\ DOMAIN work = 1 .. Len(work)
           /\ groupIndex \in Nat
           /\ \A i \in DOMAIN work :
                 /\ work[i] \in Buffer!Work
                 /\ work[i].group_id \in Nat
                 /\ work[i].group_id = groupIndex - Len(work) + i - 1
                 /\ work[i].group_id < groupIndex
                 /\ work[i].state = "FINALIZED" <=> work[i].rollout_group # NoGroup
           /\ \A i, j \in DOMAIN work : work[i].group_id = work[j].group_id => i = j
<1>1. /\ work \in Seq(Buffer!Work) /\ Len(work) \in Nat /\ DOMAIN work = 1 .. Len(work)
      /\ groupIndex \in Nat
  BY LenProperties DEF IInv, TypeOK
<1>2. \A i \in DOMAIN work : work[i] \in Buffer!Work /\ work[i].group_id \in Nat
  <2>1. \A i \in DOMAIN work : work[i] \in Buffer!Work
    BY <1>1, ElementOfSeq
  <2> QED
    BY <2>1 DEF Buffer!Work
<1>3. \A i \in DOMAIN work :
          /\ work[i].group_id = groupIndex - Len(work) + i - 1
          /\ work[i].state = "FINALIZED" <=> work[i].rollout_group # NoGroup
  BY DEF IInv, SyncP!BufferSafety, SyncP!StrictFifo, SyncP!ResultIffFinalized
<1>4. \A i \in DOMAIN work : work[i].group_id < groupIndex
  BY <1>1, <1>3
<1>5. \A i, j \in DOMAIN work : work[i].group_id = work[j].group_id => i = j
  BY <1>1, <1>3
<1> QED
  BY <1>1, <1>2, <1>3, <1>4, <1>5

\* A claim marks one WAITING entry.
LEMMA ClaimEffect ==
    ASSUME IInv, NEW i \in DOMAIN work, Buffer!ClaimNext(i)
    PROVE  /\ ~closed /\ work[i].state = "WAITING" /\ UNCHANGED closed
           /\ Len(work') = Len(work) /\ DOMAIN work' = DOMAIN work
           /\ work'[i].state = "INFLIGHT" /\ work'[i].group_id = work[i].group_id
           /\ work'[i].rollout_group = work[i].rollout_group
           /\ \A j \in DOMAIN work : j # i => work'[j] = work[j]
<1> DEFINE entry == [work[i] EXCEPT !.state = "INFLIGHT"]
<1>1. ~closed /\ work[i].state = "WAITING" /\ UNCHANGED closed
  BY DEF Buffer!ClaimNext, Buffer!InState
<1>2. work' = [work EXCEPT ![i] = entry]
  BY DEF Buffer!ClaimNext
<1>3. work \in Seq(Buffer!Work) /\ work[i] \in Buffer!Work
  BY EntryFacts
<1>4. /\ entry.state = "INFLIGHT" /\ entry.group_id = work[i].group_id
      /\ entry.rollout_group = work[i].rollout_group
  BY <1>3 DEF Buffer!Work
<1> HIDE DEF entry
<1> QED
  BY <1>1, <1>2, <1>3, <1>4, EntryChanged

\* A result that is handed in closes one entry in flight.
LEMMA FinalizeEffect ==
    ASSUME IInv, NEW i \in DOMAIN work, NEW group, Buffer!FinalizeWork(i, group)
    PROVE  /\ work[i].state = "INFLIGHT" /\ UNCHANGED closed
           /\ Len(work') = Len(work) /\ DOMAIN work' = DOMAIN work
           /\ work'[i].state = "FINALIZED" /\ work'[i].group_id = work[i].group_id
           /\ work'[i].rollout_group = group
           /\ \A j \in DOMAIN work : j # i => work'[j] = work[j]
<1> DEFINE entry == [work[i] EXCEPT !.state = "FINALIZED", !.rollout_group = group]
<1>1. work[i].state = "INFLIGHT" /\ UNCHANGED closed
  BY DEF Buffer!FinalizeWork
<1>2. work' = [work EXCEPT ![i] = entry]
  BY DEF Buffer!FinalizeWork
<1>3. work \in Seq(Buffer!Work) /\ work[i] \in Buffer!Work
  BY EntryFacts
<1>4. /\ entry.state = "FINALIZED" /\ entry.group_id = work[i].group_id
      /\ entry.rollout_group = group
  BY <1>3 DEF Buffer!Work
<1> HIDE DEF entry
<1> QED
  BY <1>1, <1>2, <1>3, <1>4, EntryChanged

\* An admitted group is the last of the buffer.
LEMMA AddEffect ==
    ASSUME IInv, InputAddWork
    PROVE  /\ Len(work') = Len(work) + 1 /\ DOMAIN work' = 1 .. Len(work) + 1
           /\ \A i \in DOMAIN work : work'[i] = work[i]
           /\ work'[Len(work) + 1] =
                 [group_id |-> groupIndex, state |-> "WAITING", rollout_group |-> NoGroup]
           /\ groupIndex' = groupIndex + 1
           /\ active' = active + 1 /\ UNCHANGED <<closed, rollouts>>
<1> DEFINE entry == [group_id |-> groupIndex, state |-> "WAITING", rollout_group |-> NoGroup]
<1>1. work \in Seq(Buffer!Work) /\ DOMAIN work = 1 .. Len(work) /\ Len(work) \in Nat
      /\ groupIndex \in Nat
  BY EntryFacts
<1>2. entry \in Buffer!Work
  BY <1>1 DEF Buffer!Work, Buffer!WorkState
<1>3. /\ work' = Append(work, entry) /\ groupIndex' = groupIndex + 1
      /\ active' = active + 1 /\ UNCHANGED <<closed, rollouts>>
  BY DEF InputAddWork, Buffer!AddWork
<1> HIDE DEF entry
<1>4. /\ Len(work') = Len(work) + 1 /\ DOMAIN work' = 1 .. Len(work) + 1
      /\ \A i \in DOMAIN work : work'[i] = work[i]
      /\ work'[Len(work) + 1] = entry
  BY <1>1, <1>2, <1>3, AppendProperties, LenProperties
<1> QED
  BY <1>3, <1>4 DEF entry

\* The batcher takes the oldest entry.
LEMMA TakeEffect ==
    ASSUME IInv, BatcherTake
    PROVE  /\ Len(work') = Len(work) - 1 /\ DOMAIN work' = 1 .. Len(work) - 1
           /\ \A i \in 1 .. Len(work) - 1 : i + 1 \in DOMAIN work /\ work'[i] = work[i + 1]
           /\ ~closed /\ UNCHANGED <<closed, active, groupIndex, rollouts>>
           /\ taken = <<>>
           /\ taken' = <<[id |-> work[1].group_id, version |-> work[1].rollout_group]>>
           /\ Len(taken') = 1
           /\ taken'[1] = [id |-> work[1].group_id, version |-> work[1].rollout_group]
<1>1. /\ work # <<>> /\ work' = Tail(work) /\ ~closed
      /\ UNCHANGED <<closed, active, groupIndex, rollouts>>
      /\ batcherPc = "take"
      /\ taken' = <<[id |-> Head(work).group_id, version |-> Head(work).rollout_group]>>
  BY DEF BatcherTake, Buffer!TakeFinalized, inputVars
<1>2. work \in Seq(Buffer!Work) /\ Len(work) \in Nat /\ DOMAIN work = 1 .. Len(work)
  BY EntryFacts
<1>3. /\ Len(work') = Len(work) - 1 /\ DOMAIN work' = 1 .. Len(work) - 1
      /\ \A i \in 1 .. Len(work) - 1 : i + 1 \in DOMAIN work /\ work'[i] = work[i + 1]
  BY <1>1, <1>2, HeadTailProperties, LenProperties
<1>4. Head(work) = work[1]
  BY HeadHandedIn
<1>5. taken = <<>>
  BY <1>1 DEF IInv, HandoffInv
<1> DEFINE group == [id |-> work[1].group_id, version |-> work[1].rollout_group]
<1>6. taken' = <<group>>
  BY <1>1, <1>4
<1> HIDE DEF group
<1>7. Len(taken') = 1 /\ taken'[1] = group
  BY <1>6
<1> QED
  BY <1>1, <1>3, <1>5, <1>6, <1>7 DEF group

\* The steps that leave the buffer, the workers and the producer alone.
Elsewhere ==
    \/ InputWaitForSlot \/ InputCrashes
    \/ BatcherBuild \/ BatcherPack \/ BatcherPut \/ BatcherClosed \/ BatcherPutStop \/ BatcherRaises
    \/ Trainer \/ PushPull \/ SyncFails
    \/ RunWakes \/ Terminated \/ Starved \/ UNCHANGED vars

LEMMA ElsewhereEffect ==
    ASSUME Elsewhere
    PROVE  UNCHANGED <<work, closed, groupIndex, rollouts>>
<1> USE DEF bufferVars, inputVars
<1>1. CASE InputWaitForSlot \/ InputCrashes
  BY <1>1 DEF InputWaitForSlot, InputCrashes
<1>2. CASE BatcherBuild \/ BatcherPack \/ BatcherPut \/ BatcherClosed \/ BatcherPutStop \/ BatcherRaises
  BY <1>2 DEF BatcherBuild, Buffer!ReleaseActiveGroups, BatcherPack, BatcherPut, BatcherClosed,
              BatcherPutStop, BatcherRaises
<1>3. CASE Trainer
  BY <1>3 DEF Trainer, TrainerWaits, TrainerCalls, TrainerRaises, TrainerGet,
              TrainerForwardBackward, TrainerWaitPush, TrainerOptimStep, TrainerWaitPull,
              Buffer!FlushMetrics, TrainerSaveCheckpoint, TrainerFinalPush, TrainerFinalPull
<1>4. CASE PushPull \/ SyncFails
  BY <1>4 DEF PushPull, SyncPush, SyncPullBegin, SyncPullOne, SyncRelease,
              Buffer!ReleaseActiveGroups, SyncFails, NotSync
<1>5. CASE RunWakes \/ Terminated \/ Starved \/ UNCHANGED vars
  BY <1>5 DEF RunWakes, Terminated, Starved, vars
<1> QED
  BY <1>1, <1>2, <1>3, <1>4, <1>5 DEF Elsewhere

LEMMA CloseKeeps == IInv /\ [Next]_vars => CloseInv'
<1> SUFFICES ASSUME IInv, [Next]_vars
             PROVE  CloseInv'
  OBVIOUS
<1> USE DEF bufferVars, runVars, CloseInv
<1>a. CloseInv
  BY DEF IInv
<1>1. CASE Input
  BY <1>a, <1>1 DEF Input, InputWaitForSlot, InputAddWork, Buffer!AddWork, InputCrashes
<1>2. CASE Rollout
  <2>1. CASE RolloutClaim
    BY <1>a, <2>1 DEF RolloutClaim, Buffer!ClaimNext
  <2>2. CASE \E id \in DOMAIN rollouts, g \in Generators : RolloutSample(id, g)
    BY <1>a, <2>2 DEF RolloutSample
  <2>3. ASSUME NEW id \in DOMAIN rollouts, NEW group, HandIn(id, group)
        PROVE  CloseInv'
    BY <1>a, <2>3 DEF HandIn, Buffer!FinalizeWork
  <2> QED
    BY <1>2, <2>1, <2>2, <2>3 DEF Rollout, RolloutGoesOn, RolloutFinish, RolloutFails
<1>3. CASE BatcherTake
  BY <1>a, <1>3 DEF BatcherTake, Buffer!TakeFinalized
<1>4. CASE BatcherBuild \/ BatcherPack \/ BatcherPut \/ BatcherClosed \/ BatcherPutStop \/ BatcherRaises
  BY <1>a, <1>4
     DEF BatcherBuild, Buffer!ReleaseActiveGroups, BatcherPack, BatcherPut, BatcherClosed,
         BatcherPutStop, BatcherRaises
<1>5. CASE Trainer
  BY <1>a, <1>5
     DEF Trainer, TrainerWaits, TrainerCalls, TrainerRaises, TrainerGet, TrainerForwardBackward,
         TrainerWaitPush, TrainerOptimStep, TrainerWaitPull, Buffer!FlushMetrics,
         TrainerSaveCheckpoint, TrainerFinalPush, TrainerFinalPull
<1>6. CASE PushPull \/ SyncFails
  BY <1>a, <1>6
     DEF PushPull, SyncPush, SyncPullBegin, SyncPullOne, SyncRelease,
         Buffer!ReleaseActiveGroups, SyncFails, NotSync
<1>7. CASE Run
  BY <1>a, <1>7 DEF Run, RunWakes, RunClose, Buffer!Close, RunCancel
<1>8. CASE Terminated \/ Starved \/ UNCHANGED vars
  BY <1>a, <1>8 DEF Terminated, Starved, vars
<1> QED
  BY <1>1, <1>2, <1>3, <1>4, <1>5, <1>6, <1>7, <1>8 DEF Next, Batching

LEMMA WorkersKeeps == IInv /\ [Next]_vars => WorkersInv'
<1> SUFFICES ASSUME IInv, [Next]_vars
             PROVE  WorkersInv'
  OBVIOUS
<1>a. /\ WorkersInv
      /\ DOMAIN rollouts \subseteq Nat
  BY DEF IInv, TypeOK
<1>b. /\ \A i \in DOMAIN work : work[i].state = "INFLIGHT" <=> work[i].group_id \in DOMAIN rollouts
      /\ \A id \in DOMAIN rollouts : id \in Nat /\ id < groupIndex
      /\ closed => \A i \in DOMAIN work : work[i].state = "WAITING"
      /\ Len(work) \in Nat /\ DOMAIN work = 1 .. Len(work) /\ groupIndex \in Nat
      /\ \A i \in DOMAIN work : work[i].group_id < groupIndex
      /\ \A i, j \in DOMAIN work : work[i].group_id = work[j].group_id => i = j
  BY <1>a, EntryFacts DEF WorkersInv
<1>1. CASE InputAddWork
  <2>1. work'[Len(work) + 1].group_id = groupIndex /\ work'[Len(work) + 1].state = "WAITING"
    BY <1>1, AddEffect
  <2>2. groupIndex \notin DOMAIN rollouts
    BY <1>a, EntryFacts DEF WorkersInv
  <2> QED
    <3>1. /\ DOMAIN work' = 1 .. Len(work) + 1 /\ \A i \in DOMAIN work : work'[i] = work[i]
          /\ groupIndex' = groupIndex + 1 /\ UNCHANGED <<closed, rollouts>>
      BY <1>1, AddEffect
    <3>2. DOMAIN work' = DOMAIN work \cup {Len(work) + 1}
      BY <1>b, <3>1
    <3>3. \A i \in DOMAIN work' :
              work'[i].state = "INFLIGHT" <=> work'[i].group_id \in DOMAIN rollouts'
      BY <1>b, <2>1, <2>2, <3>1, <3>2
    <3>4. \A id \in DOMAIN rollouts' : id < groupIndex'
      BY <1>b, <3>1
    <3>5. closed' => \A i \in DOMAIN work' : work'[i].state = "WAITING"
      BY <1>b, <2>1, <3>1, <3>2
    <3> QED
      BY <3>3, <3>4, <3>5 DEF WorkersInv
<1>2. CASE RolloutClaim
  <2>1. PICK i \in DOMAIN work : /\ Buffer!ClaimNext(i)
                                 /\ rollouts' = Extend(rollouts, work[i].group_id, Failed)
                                 /\ UNCHANGED groupIndex
    BY <1>2 DEF RolloutClaim, inputVars
  <2>2. DOMAIN rollouts' = DOMAIN rollouts \cup {work[i].group_id}
    BY <2>1 DEF Extend
  <2> QED
    <3>1. /\ ~closed /\ UNCHANGED closed /\ DOMAIN work' = DOMAIN work
          /\ work'[i].state = "INFLIGHT" /\ work'[i].group_id = work[i].group_id
          /\ \A j \in DOMAIN work : j # i => work'[j] = work[j]
      BY <2>1, ClaimEffect
    <3>2. \A j \in DOMAIN work : j # i => work[j].group_id # work[i].group_id
      BY <1>b
    <3>3. \A j \in DOMAIN work' :
              work'[j].state = "INFLIGHT" <=> work'[j].group_id \in DOMAIN rollouts'
      <4> SUFFICES ASSUME NEW j \in DOMAIN work
                   PROVE  work'[j].state = "INFLIGHT" <=> work'[j].group_id \in DOMAIN rollouts'
        BY <3>1
      <4>1. CASE j = i
        BY <2>2, <3>1, <4>1
      <4>2. CASE j # i
        BY <1>b, <2>2, <3>1, <3>2, <4>2
      <4> QED
        BY <4>1, <4>2
    <3>4. \A id \in DOMAIN rollouts' : id < groupIndex'
      BY <1>b, <2>1, <2>2
    <3> QED
      BY <3>1, <3>3, <3>4 DEF WorkersInv
<1>3. ASSUME NEW id \in DOMAIN rollouts, NEW g \in Generators, RolloutSample(id, g)
      PROVE  WorkersInv'
  BY <1>a, <1>3 DEF RolloutSample, bufferVars, inputVars, WorkersInv
<1>4. ASSUME NEW id \in DOMAIN rollouts, NEW group, HandIn(id, group)
      PROVE  WorkersInv'
  <2>1. DOMAIN rollouts' = DOMAIN rollouts \ {id} /\ UNCHANGED groupIndex
    BY <1>4 DEF HandIn, Without, inputVars
  <2>2. CASE \E i \in DOMAIN work : work[i].group_id = id /\ Buffer!FinalizeWork(i, group)
    <3>1. PICK i \in DOMAIN work : work[i].group_id = id /\ Buffer!FinalizeWork(i, group)
      BY <2>2
    <3> QED
      <4>1. /\ UNCHANGED closed /\ DOMAIN work' = DOMAIN work
            /\ work[i].state = "INFLIGHT"
            /\ work'[i].state = "FINALIZED" /\ work'[i].group_id = id
            /\ \A j \in DOMAIN work : j # i => work'[j] = work[j]
        BY <3>1, FinalizeEffect
      <4>2. \A j \in DOMAIN work : j # i => work[j].group_id # id
        BY <1>b, <3>1
      <4>3. \A j \in DOMAIN work' :
                work'[j].state = "INFLIGHT" <=> work'[j].group_id \in DOMAIN rollouts'
        <5> SUFFICES ASSUME NEW j \in DOMAIN work
                     PROVE  work'[j].state = "INFLIGHT" <=> work'[j].group_id \in DOMAIN rollouts'
          BY <4>1
        <5>1. CASE j = i
          BY <2>1, <4>1, <5>1
        <5>2. CASE j # i
          BY <1>b, <2>1, <4>1, <4>2, <5>2
        <5> QED
          BY <5>1, <5>2
      <4>4. \A k \in DOMAIN rollouts' : k < groupIndex'
        BY <1>b, <2>1
      <4>5. ~closed
        BY <1>b, <4>1
      <4> QED
        BY <4>1, <4>3, <4>4, <4>5 DEF WorkersInv
  <2>3. CASE UNCHANGED bufferVars /\ \A i \in DOMAIN work : work[i].group_id # id
    BY <1>a, <2>1, <2>3 DEF bufferVars, WorkersInv
  <2> QED
    BY <1>4, <2>2, <2>3 DEF HandIn
<1>5. CASE BatcherTake
  <2>1. /\ DOMAIN work' = 1 .. Len(work) - 1
        /\ \A i \in 1 .. Len(work) - 1 : i + 1 \in DOMAIN work /\ work'[i] = work[i + 1]
        /\ ~closed /\ UNCHANGED <<closed, groupIndex, rollouts>>
    BY <1>5, TakeEffect
  <2>2. ASSUME NEW i \in DOMAIN work'
        PROVE  work'[i].state = "INFLIGHT" <=> work'[i].group_id \in DOMAIN rollouts'
    <3>1. i + 1 \in DOMAIN work /\ work'[i] = work[i + 1] /\ rollouts' = rollouts
      BY <2>1, <2>2
    <3> QED
      BY <1>b, <3>1
  <2>3. \A id \in DOMAIN rollouts' : id < groupIndex'
    BY <1>b, <2>1
  <2> QED
    BY <2>1, <2>2, <2>3 DEF WorkersInv
<1>6. CASE RunClose
  BY <1>a, <1>6, EmptySeq DEF RunClose, Buffer!Close, inputVars, WorkersInv
<1>7. CASE RunCancel
  <2>1. closed /\ rollouts' = <<>> /\ UNCHANGED <<work, closed, groupIndex>>
    BY <1>7 DEF RunCancel, bufferVars, IInv, CloseInv
  <2>2. DOMAIN rollouts' = {}
    BY <2>1
  <2> QED
    BY <1>a, <2>1, <2>2 DEF WorkersInv
<1>8. CASE Elsewhere
  BY <1>a, <1>8, ElsewhereEffect DEF WorkersInv
<1> QED
  BY <1>1, <1>2, <1>3, <1>4, <1>5, <1>6, <1>7, <1>8
     DEF Next, Input, Rollout, RolloutGoesOn, RolloutFinish, RolloutFails, Batching, Run, Elsewhere

-----------------------------------------------------------------------------
(* The slots.                                                              *)

\* Five sequences one after the other.
LEMMA ChainLength ==
    ASSUME NEW S, NEW a \in Seq(S), NEW b \in Seq(S), NEW c \in Seq(S), NEW d \in Seq(S),
           NEW e \in Seq(S)
    PROVE  /\ a \o b \o c \o d \o e \in Seq(S)
           /\ Len(a \o b \o c \o d \o e) = Len(a) + Len(b) + Len(c) + Len(d) + Len(e)
<1>1. a \o b \in Seq(S) /\ Len(a \o b) = Len(a) + Len(b)
  BY ConcatProperties
<1>2. (a \o b) \o c \in Seq(S) /\ Len((a \o b) \o c) = Len(a \o b) + Len(c)
  BY <1>1, ConcatProperties
<1>3. (a \o b \o c) \o d \in Seq(S) /\ Len((a \o b \o c) \o d) = Len(a \o b \o c) + Len(d)
  BY <1>2, ConcatProperties
<1>4. /\ (a \o b \o c \o d) \o e \in Seq(S)
      /\ Len((a \o b \o c \o d) \o e) = Len(a \o b \o c \o d) + Len(e)
  BY <1>3, ConcatProperties
<1> QED
  BY <1>1, <1>2, <1>3, <1>4

\* The same facts as in DownstreamFacts after a step.
LEMMA DownstreamFactsNext ==
    ASSUME TypeOK'
    PROVE  /\ InQueue' \in Seq(Group)
           /\ Downstream' \in Seq(Group)
           /\ Len(Downstream)' = Len(batch') + Len(InQueue)' + Len(ready')
                                    + Len(accumulated') + Len(taken')
           /\ Len(batch') \in Nat /\ Len(InQueue)' \in Nat /\ Len(ready') \in Nat
           /\ Len(accumulated') \in Nat /\ Len(taken') \in Nat /\ Len(work') \in Nat
<1>1. /\ batch' \in Seq(Group) /\ ready' \in Seq(Group) /\ accumulated' \in Seq(Group)
      /\ taken' \in Seq(Group) /\ work' \in Seq(Buffer!Work) /\ queue' \in Seq(Seq(Group))
  BY DEF TypeOK, Buffer!Work, Buffer!WorkState, Group, Versions, LastVersion, Failed, NoGroup
<1>2. InQueue' \in Seq(Group)
  <2>1. CASE queue' = <<>>
    BY <2>1, EmptySeq DEF InQueue
  <2>2. CASE queue' # <<>>
    BY <1>1, <2>2, HeadTailProperties DEF InQueue
  <2> QED
    BY <2>1, <2>2
<1>3. Downstream' = batch' \o InQueue' \o ready' \o accumulated' \o taken'
  BY DEF Downstream
<1>4. /\ Downstream' \in Seq(Group)
      /\ Len(Downstream') = Len(batch') + Len(InQueue') + Len(ready')
                               + Len(accumulated') + Len(taken')
  BY <1>1, <1>2, <1>3, ChainLength
<1>5. /\ Len(batch') \in Nat /\ Len(InQueue)' \in Nat /\ Len(ready') \in Nat
      /\ Len(accumulated') \in Nat /\ Len(taken') \in Nat /\ Len(work') \in Nat
  BY <1>1, <1>2, LenProperties
<1> QED
  BY <1>2, <1>4, <1>5

\* A step of the trainer puts a train step's groups behind the generators, a
\* completed pull takes them off, and nothing else moves either end.
LEMMA AwaitingSame ==
    ASSUME IInv, [Next]_vars, ~TrainerOptimStep, ~SyncRelease
    PROVE  /\ policyVersion' = policyVersion /\ Sync!SyncedVersion' = Sync!SyncedVersion
           /\ Awaiting' = Awaiting
<1>0. /\ policyVersion \in Nat /\ syncVersion \in Nat
      /\ policyVersion \in {syncVersion, syncVersion + 1}
      /\ pullTask \in {"wait_push", "done"} => reading = {}
  BY DEF IInv, SyncP!IInv, SyncP!SyncTypeOK, SyncP!AheadInv, SyncP!PullInv
<1>1. policyVersion' = policyVersion /\ Sync!SyncedVersion' = Sync!SyncedVersion
  <2> USE DEF Sync!SyncedVersion
  <2>1. CASE Input \/ Rollout \/ Batching \/ Run
    BY <2>1 DEF Input, InputWaitForSlot, InputAddWork, InputCrashes, Rollout, RolloutGoesOn,
                RolloutClaim, RolloutSample, RolloutFinish, RolloutFails, HandIn, Batching,
                BatcherRaises, BatcherTake, BatcherBuild, BatcherPack, BatcherPut, BatcherClosed,
                BatcherPutStop, Run, RunWakes, RunClose, RunCancel, syncVars
  <2>2. CASE TrainerWaitPull
    <3>1. pullTask = "done" => policyVersion = syncVersion + 1
      BY <2>2 DEF TrainerWaitPull, IInv, TrainerInv
    <3> QED
      BY <1>0, <2>2, <3>1 DEF TrainerWaitPull, Sync!StartAsyncPushPull, syncVars
  <2>3. CASE Trainer /\ ~TrainerWaitPull
    BY <2>3 DEF Trainer, TrainerWaits, TrainerCalls, TrainerRaises, TrainerGet,
                TrainerForwardBackward, TrainerWaitPush, TrainerSaveCheckpoint, TrainerFinalPush,
                TrainerFinalPull, syncVars
  <2>4. CASE SyncPush \/ SyncPullBegin
    BY <2>4 DEF SyncPush, Sync!PushBegin, Sync!PushEnd, SyncPullBegin, Sync!PullBegin
  <2>5. CASE SyncPullOne
    BY <2>5 DEF SyncPullOne, Sync!PullOne
  <2>6. CASE SyncFails
    BY <1>0, <2>6 DEF SyncFails, Sync!PushFails, Sync!PullFails
  <2>7. CASE Terminated \/ Starved \/ UNCHANGED vars
    BY <2>7 DEF Terminated, Starved, vars, syncVars
  <2> QED
    BY <2>1, <2>2, <2>3, <2>4, <2>5, <2>6, <2>7 DEF Next, PushPull
<1> QED
  BY <1>1 DEF Awaiting

LEMMA AwaitingMore ==
    ASSUME IInv, TrainerOptimStep
    PROVE  /\ policyVersion' = policyVersion + 1 /\ Sync!SyncedVersion' = Sync!SyncedVersion
           /\ Awaiting' = Awaiting + NumGroupsPerTrainStep
<1>1. policyVersion' = policyVersion + 1 /\ Sync!SyncedVersion' = Sync!SyncedVersion
  BY DEF TrainerOptimStep, Sync!OptimStep, Sync!SyncedVersion
<1>2. policyVersion \in Nat /\ Sync!SyncedVersion \in Int
  BY VersionFacts DEF IInv
<1> DEFINE behind == policyVersion - Sync!SyncedVersion
<1>3. behind \in Int /\ policyVersion' - Sync!SyncedVersion' = behind + 1
  BY <1>1, <1>2
<1>4. Awaiting = NumGroupsPerTrainStep * behind
      /\ Awaiting' = NumGroupsPerTrainStep * (behind + 1)
  BY <1>3 DEF Awaiting
<1> HIDE DEF behind
<1>5. NumGroupsPerTrainStep * (behind + 1) = NumGroupsPerTrainStep * behind + NumGroupsPerTrainStep
  BY <1>3, WindowAssumption
<1> QED
  BY <1>1, <1>4, <1>5

LEMMA AwaitingLess ==
    ASSUME IInv, SyncRelease
    PROVE  /\ policyVersion' = policyVersion /\ Sync!SyncedVersion' = Sync!SyncedVersion + 1
           /\ Awaiting' = Awaiting - NumGroupsPerTrainStep
           /\ Buffer!ReleaseActiveGroups(NumGroupsPerTrainStep) /\ UNCHANGED NotSync
<1>1. Sync!PullComplete /\ NumGroupsPerTrainStep <= active /\ active \in Nat
  BY ReleaseCovered DEF SyncRelease, IInv, TypeOK
<1>2. ~Buffer!ReleaseRejected(NumGroupsPerTrainStep)
  BY <1>1, WindowAssumption DEF Buffer!ReleaseRejected
<1>3. /\ Sync!PullReturns /\ UNCHANGED NotSync
      /\ Buffer!ReleaseActiveGroups(NumGroupsPerTrainStep)
  BY <1>2 DEF SyncRelease
<1>4. policyVersion \in Nat /\ syncVersion \in Nat /\ Sync!SyncedVersion \in Int
  BY VersionFacts DEF IInv
<1>5. policyVersion' = policyVersion /\ Sync!SyncedVersion' = Sync!SyncedVersion + 1
  BY <1>1, <1>3, <1>4 DEF Sync!PullComplete, Sync!PullReturns, Sync!SyncedVersion
<1> DEFINE behind == policyVersion - Sync!SyncedVersion
<1>6. behind \in Int /\ policyVersion' - Sync!SyncedVersion' = behind - 1
  BY <1>4, <1>5
<1>7. Awaiting = NumGroupsPerTrainStep * behind
      /\ Awaiting' = NumGroupsPerTrainStep * (behind - 1)
  BY <1>6 DEF Awaiting
<1> HIDE DEF behind
<1>8. NumGroupsPerTrainStep * (behind - 1) = NumGroupsPerTrainStep * behind - NumGroupsPerTrainStep
  BY <1>6, WindowAssumption
<1> QED
  BY <1>3, <1>5, <1>7, <1>8

\* A slot is free from its grant to the admission.
LEMMA GrantKeeps == IInv /\ [Next]_vars => (inputPc' = "fetch" => Buffer!HasActiveSlot')
<1> SUFFICES ASSUME IInv, [Next]_vars, inputPc' = "fetch"
             PROVE  active' < MaxActiveRolloutGroups
  BY DEF Buffer!HasActiveSlot
<1>0. active \in Nat /\ MaxActiveRolloutGroups \in Nat
      /\ (inputPc = "fetch" => active < MaxActiveRolloutGroups)
  BY SizesPositive DEF IInv, TypeOK, SlotsInv, Buffer!HasActiveSlot
<1> USE DEF bufferVars, inputVars
<1>1. CASE Input
  <2>1. inputPc = "wait" /\ active' = active /\ active < MaxActiveRolloutGroups
    BY <1>1 DEF Input, InputWaitForSlot, InputAddWork, InputCrashes, Buffer!SlotGranted,
                Buffer!HasActiveSlot
  <2> QED
    BY <2>1
<1>2. CASE Rollout
  <2>1. active' = active /\ inputPc' = inputPc
    BY <1>2 DEF Rollout, RolloutGoesOn, RolloutClaim, Buffer!ClaimNext, RolloutSample,
                RolloutFinish, RolloutFails, HandIn, Buffer!FinalizeWork
  <2> QED
    BY <1>0, <2>1
<1>3. CASE Batching
  <2>1. (active' = active \/ Buffer!ReleaseActiveGroups(1)) /\ inputPc' = inputPc
    BY <1>3 DEF Batching, BatcherRaises, BatcherTake, Buffer!TakeFinalized, BatcherBuild,
                BatcherPack, BatcherPut, BatcherClosed, BatcherPutStop
  <2>2. active' <= active
    BY <1>0, <2>1 DEF Buffer!ReleaseActiveGroups
  <2>3. active' \in Int
    BY <1>0, <2>1 DEF Buffer!ReleaseActiveGroups
  <2> QED
    BY <1>0, <2>1, <2>2, <2>3
<1>4. CASE Trainer \/ SyncPush \/ SyncPullBegin \/ SyncPullOne \/ SyncFails
  <2>1. active' = active /\ inputPc' = inputPc
    BY <1>4 DEF Trainer, TrainerWaits, TrainerCalls, TrainerRaises, TrainerGet,
                TrainerForwardBackward, TrainerWaitPush, TrainerOptimStep, TrainerWaitPull,
                Buffer!FlushMetrics, TrainerSaveCheckpoint, TrainerFinalPush, TrainerFinalPull,
                SyncPush, SyncPullBegin, SyncPullOne, SyncFails, NotSync
  <2> QED
    BY <1>0, <2>1
<1>5. CASE SyncRelease
  <2>1. /\ active' = active - NumGroupsPerTrainStep /\ inputPc' = inputPc
    BY <1>5, AwaitingLess DEF Buffer!ReleaseActiveGroups, NotSync
  <2> QED
    BY <1>0, <2>1, WindowAssumption
<1>6. CASE Run \/ Terminated \/ Starved \/ UNCHANGED vars
  <2>1. active' = active /\ inputPc' = inputPc
    BY <1>6 DEF Run, RunWakes, RunClose, Buffer!Close, RunCancel, Cancelled, Terminated, Starved,
                vars
  <2> QED
    BY <1>0, <2>1
<1> QED
  BY <1>1, <1>2, <1>3, <1>4, <1>5, <1>6 DEF Next, PushPull

\* The groups that hold a slot change with the slots, until close() takes those
\* of the buffer away.
LEMMA SlotsMoveTogether ==
    ASSUME IInv, [Next]_vars
    PROVE  \/ /\ closed' = closed
              /\ (Len(work') + Len(Downstream)' + oversized' + Awaiting') - active'
                     = (Len(work) + Len(Downstream) + oversized + Awaiting) - active
           \/ /\ closed' /\ active' = active
              /\ Len(work') + Len(Downstream)' + oversized' + Awaiting'
                     <= Len(work) + Len(Downstream) + oversized + Awaiting
<1> DEFINE Goal ==
        \/ /\ closed' = closed
           /\ (Len(work') + Len(Downstream)' + oversized' + Awaiting') - active'
                  = (Len(work) + Len(Downstream) + oversized + Awaiting) - active
        \/ /\ closed' /\ active' = active
           /\ Len(work') + Len(Downstream)' + oversized' + Awaiting'
                  <= Len(work) + Len(Downstream) + oversized + Awaiting
<1> SUFFICES Goal
  OBVIOUS
<1>0. TypeOK /\ TypeOK' /\ HandoffInv
  BY TypeKeeps DEF IInv
<1>1. /\ Len(Downstream) = Len(batch) + Len(InQueue) + Len(ready) + Len(accumulated) + Len(taken)
      /\ Len(batch) \in Nat /\ Len(InQueue) \in Nat /\ Len(ready) \in Nat
      /\ Len(accumulated) \in Nat /\ Len(taken) \in Nat /\ Len(work) \in Nat
  BY <1>0, DownstreamFacts
<1>2. /\ Len(Downstream)' = Len(batch') + Len(InQueue)' + Len(ready') + Len(accumulated')
                               + Len(taken')
      /\ Len(batch') \in Nat /\ Len(InQueue)' \in Nat /\ Len(ready') \in Nat
      /\ Len(accumulated') \in Nat /\ Len(taken') \in Nat /\ Len(work') \in Nat
  BY <1>0, DownstreamFactsNext
<1>3. Awaiting \in Nat /\ active \in Nat /\ oversized \in Nat /\ active' \in Nat /\ oversized' \in Nat
  BY <1>0, VersionFacts DEF IInv, TypeOK
<1>4. Len(<<>>) = 0
  BY EmptySeq
<1> DEFINE total == Len(work) + Len(batch) + Len(InQueue) + Len(ready) + Len(accumulated)
                       + Len(taken) + oversized + Awaiting
           totalNext == Len(work') + Len(batch') + Len(InQueue)' + Len(ready')
                           + Len(accumulated') + Len(taken') + oversized' + Awaiting'
<1>5. ASSUME closed' = closed, Awaiting' \in Int, totalNext - active' = total - active
      PROVE  Goal
  <2>1. (Len(work') + Len(Downstream)' + oversized' + Awaiting') - active'
            = (Len(work) + Len(Downstream) + oversized + Awaiting) - active
    <3> DEFINE w == Len(work)  wN == Len(work')  d == Len(Downstream)  dN == Len(Downstream)'
               parts == Len(batch) + Len(InQueue) + Len(ready) + Len(accumulated) + Len(taken)
               partsN == Len(batch') + Len(InQueue)' + Len(ready') + Len(accumulated') + Len(taken')
    <3>1. w \in Nat /\ wN \in Nat /\ d = parts /\ dN = partsN /\ parts \in Nat /\ partsN \in Nat
      BY <1>1, <1>2
    <3>2. (wN + partsN + oversized' + Awaiting') - active'
              = (w + parts + oversized + Awaiting) - active
      BY <1>1, <1>2, <1>3, <1>5
    <3>3. dN \in Nat /\ d \in Nat
      BY <3>1
    <3> HIDE DEF w, wN, d, dN, parts, partsN, Awaiting
    <3>4. (wN + dN + oversized' + Awaiting') - active' = (w + d + oversized + Awaiting) - active
      BY <3>1, <3>2
    <3> QED
      BY <3>4 DEF w, wN, d, dN
  <2> QED
    BY <1>5, <2>1
<1> HIDE DEF Awaiting, Goal
\* The steps after which everything is where it was.
<1>6. ASSUME UNCHANGED <<batch, InQueue, ready, accumulated, taken, oversized, active, closed>>,
             Len(work') = Len(work), ~TrainerOptimStep, ~SyncRelease
      PROVE  Goal
  <2>1. Awaiting' = Awaiting
    BY <1>6, AwaitingSame
  <2> QED
    BY <1>3, <1>5, <1>6, <2>1
<1> USE DEF bufferVars, inputVars, batcherVars, trainerVars, dropVars
<1>7. CASE InputWaitForSlot \/ InputCrashes
  <2>1. /\ UNCHANGED <<work, active, closed, batch, queue, ready, accumulated, taken, oversized>>
        /\ UNCHANGED <<trainerPc, pullTask>>
    BY <1>7 DEF InputWaitForSlot, InputCrashes, syncVars
  <2>2. ~TrainerOptimStep /\ ~SyncRelease
    BY <2>1 DEF TrainerOptimStep, SyncRelease, Sync!PullComplete, Sync!PullReturns
  <2> QED
    BY <1>6, <2>1, <2>2 DEF InQueue
<1>8. CASE InputAddWork
  <2>1. /\ UNCHANGED <<closed, batch, queue, ready, accumulated, taken, oversized>>
        /\ UNCHANGED <<trainerPc, pullTask>>
    BY <1>8 DEF InputAddWork, Buffer!AddWork, syncVars
  <2>2. ~TrainerOptimStep /\ ~SyncRelease
    BY <2>1 DEF TrainerOptimStep, SyncRelease, Sync!PullComplete, Sync!PullReturns
  <2>3. Len(work') = Len(work) + 1 /\ active' = active + 1
    BY <1>8, AddEffect
  <2>4. Awaiting' = Awaiting /\ InQueue' = InQueue
    BY <2>1, <2>2, AwaitingSame DEF InQueue
  <2> QED
    BY <1>1, <1>3, <1>5, <2>1, <2>3, <2>4
<1>9. CASE Rollout
  <2>1. /\ UNCHANGED <<active, closed, batch, queue, ready, accumulated, taken, oversized>>
        /\ UNCHANGED <<trainerPc, pullTask>>
    BY <1>9 DEF Rollout, RolloutGoesOn, RolloutClaim, Buffer!ClaimNext, RolloutSample,
                RolloutFinish, RolloutFails, HandIn, Buffer!FinalizeWork, syncVars
  <2>2. ~TrainerOptimStep /\ ~SyncRelease
    BY <2>1 DEF TrainerOptimStep, SyncRelease, Sync!PullComplete, Sync!PullReturns
  <2>3. Len(work') = Len(work)
    <3>1. CASE RolloutClaim
      BY <3>1, ClaimEffect DEF RolloutClaim
    <3>2. ASSUME NEW id \in DOMAIN rollouts, NEW group, HandIn(id, group)
          PROVE  Len(work') = Len(work)
      BY <3>2, FinalizeEffect DEF HandIn
    <3> QED
      BY <1>9, <3>1, <3>2 DEF Rollout, RolloutGoesOn, RolloutSample, RolloutFinish, RolloutFails
  <2> QED
    BY <1>6, <2>1, <2>2, <2>3 DEF InQueue
<1>10. CASE BatcherTake
  <2>1. /\ UNCHANGED <<active, closed, batch, queue, ready, accumulated, oversized>>
        /\ UNCHANGED <<trainerPc, pullTask>>
    BY <1>10 DEF BatcherTake, Buffer!TakeFinalized, syncVars
  <2>2. ~TrainerOptimStep /\ ~SyncRelease
    BY <2>1 DEF TrainerOptimStep, SyncRelease, Sync!PullComplete, Sync!PullReturns
  <2>3. Len(work') = Len(work) - 1 /\ Len(taken) = 0 /\ Len(taken') = 1
    BY <1>4, <1>10, TakeEffect
  <2>4. Awaiting' = Awaiting /\ InQueue' = InQueue
    BY <2>1, <2>2, AwaitingSame DEF InQueue
  <2> QED
    BY <1>1, <1>3, <1>5, <2>1, <2>3, <2>4
<1>11. CASE BatcherBuild
  <2>1. /\ UNCHANGED <<work, closed, batch, queue, ready, accumulated, oversized>>
        /\ UNCHANGED <<trainerPc, pullTask>> /\ batcherPc = "build"
    BY <1>11 DEF BatcherBuild, Buffer!ReleaseActiveGroups, syncVars
  <2>2. ~TrainerOptimStep /\ ~SyncRelease
    BY <2>1 DEF TrainerOptimStep, SyncRelease, Sync!PullComplete, Sync!PullReturns
  <2>3. Awaiting' = Awaiting /\ InQueue' = InQueue
    BY <2>1, <2>2, AwaitingSame DEF InQueue
  <2>4. Len(taken) = 1
    BY <1>0, <2>1 DEF HandoffInv
  <2>5. \/ UNCHANGED <<active, taken>>
        \/ taken' = <<>> /\ active' = active - 1
    BY <1>11 DEF BatcherBuild, Buffer!ReleaseActiveGroups
  <2>6. totalNext - active' = total - active
    <3> DEFINE r == Len(work) + Len(batch) + Len(InQueue) + Len(ready) + Len(accumulated)
               rest == r + oversized + Awaiting
               t == Len(taken)
               u == Len(taken')
    <3>1. /\ r \in Nat /\ t \in Nat /\ u \in Nat /\ oversized \in Nat /\ Awaiting \in Nat
          /\ active \in Nat /\ active' \in Nat
      BY <1>1, <1>2, <1>3
    <3>2. totalNext = r + u + oversized + Awaiting
      BY <2>1, <2>3
    <3>3. total = r + t + oversized + Awaiting
      OBVIOUS
    <3>4. t = 1
      BY <2>4
    <3>5. \/ active' = active /\ u = t
          \/ active' = active - 1 /\ u = 0
      BY <1>4, <2>5
    <3> HIDE DEF r, t, u, total, totalNext
    <3>6. rest \in Nat /\ totalNext = rest + u
      BY <3>1, <3>2
    <3>7. total = rest + t
      BY <3>1, <3>3
    <3> HIDE DEF rest
    <3>8. CASE active' = active /\ u = t
      BY <3>6, <3>7, <3>8
    <3>9. CASE active' = active - 1 /\ u = 0
      <4>1. totalNext = rest /\ total = rest + 1
        BY <3>4, <3>6, <3>7, <3>9
      <4> QED
        BY <3>1, <3>6, <3>9, <4>1
    <3> QED
      BY <3>5, <3>8, <3>9
  <2> QED
    BY <1>3, <1>5, <2>1, <2>3, <2>6
<1>12. CASE BatcherPack
  <2>1. /\ UNCHANGED <<work, closed, active, batch, queue>>
        /\ UNCHANGED <<trainerPc, pullTask>> /\ batcherPc = "pack"
    BY <1>12 DEF BatcherPack, syncVars
  <2>2. ~TrainerOptimStep /\ ~SyncRelease
    BY <2>1 DEF TrainerOptimStep, SyncRelease, Sync!PullComplete, Sync!PullReturns
  <2>3. Awaiting' = Awaiting /\ InQueue' = InQueue
    BY <2>1, <2>2, AwaitingSame DEF InQueue
  <2>4. ready = <<>> /\ Len(taken) <= 1
    BY <1>0, <2>1 DEF HandoffInv
  <2>5. PICK fits \in BOOLEAN :
            /\ Len(AccumulatedWith(taken, fits)) \in Nat
            /\ taken' = <<>>
            /\ fits \/ taken = <<>> => oversized' = oversized
            /\ ~fits /\ taken # <<>> => oversized' = oversized + 1
            /\ KeptOrSplit(AccumulatedWith(taken, fits))
    BY <1>0, <1>12, PackEffect
  <2>6. Len(AccumulatedWith(taken, fits)) + oversized'
            = Len(accumulated) + Len(taken) + oversized
    <3>1. accumulated \in Seq(Group) /\ taken \in Seq(Group)
      BY <1>0 DEF TypeOK
    <3>2. CASE fits
      <4>1. Len(accumulated \o taken) = Len(accumulated) + Len(taken)
        BY <3>1, ConcatProperties
      <4> QED
        BY <1>1, <1>3, <2>5, <3>2, <4>1 DEF AccumulatedWith
    <3>3. CASE ~fits /\ taken # <<>>
      <4>1. Len(taken) = 1
        <5>1. Len(taken) # 0
          BY <3>1, <3>3, EmptySeq
        <5> DEFINE t == Len(taken)
        <5>2. t \in Nat /\ t <= 1 /\ t # 0
          BY <1>1, <2>4, <5>1
        <5> HIDE DEF t
        <5>3. t = 1
          BY <5>2
        <5> QED
          BY <5>3 DEF t
      <4> QED
        BY <1>1, <1>3, <2>5, <3>3, <4>1 DEF AccumulatedWith
    <3>4. CASE ~fits /\ taken = <<>>
      BY <1>1, <1>3, <1>4, <2>5, <3>4 DEF AccumulatedWith
    <3> QED
      BY <3>2, <3>3, <3>4
  <2>7. Len(accumulated') + Len(ready') = Len(AccumulatedWith(taken, fits))
    BY <1>2, <1>4, <2>4, <2>5, WindowAssumption DEF KeptOrSplit
  <2>8. Len(taken') = 0 /\ Len(ready) = 0
    BY <1>4, <2>4, <2>5
  <2>9. totalNext - active' = total - active
    <3>1. UNCHANGED <<work, active, batch>> /\ InQueue' = InQueue /\ Awaiting' = Awaiting
      BY <2>1, <2>3
    <3>2. Len(accumulated') + Len(ready') + oversized' = Len(accumulated) + Len(taken) + oversized
      BY <1>2, <2>6, <2>7
    <3> DEFINE w == Len(work)  b == Len(batch)  q == Len(InQueue)  r == Len(ready)
               a == Len(accumulated)  t == Len(taken)
               wN == Len(work')  bN == Len(batch')  qN == Len(InQueue)'  rN == Len(ready')
               aN == Len(accumulated')  tN == Len(taken')
               over == oversized  overN == oversized'
    <3>3. /\ w \in Nat /\ b \in Nat /\ q \in Nat /\ r \in Nat /\ a \in Nat /\ t \in Nat
          /\ rN \in Nat /\ aN \in Nat /\ tN \in Nat /\ over \in Nat /\ overN \in Nat
          /\ wN = w /\ bN = b /\ qN = q
      BY <1>1, <1>2, <1>3, <2>8, <3>1
    <3>a. /\ aN + rN + overN = a + t + over
          /\ r = 0 /\ tN = 0
      BY <2>8, <3>2
    <3> HIDE DEF w, b, q, r, a, t, wN, bN, qN, rN, aN, tN, over, overN
    <3>b. rN + aN + tN + overN = r + a + t + over
      BY <3>3, <3>a
    <3>4. wN + bN + qN + rN + aN + tN + overN = w + b + q + r + a + t + over
      BY <3>3, <3>b
    <3> QED
      BY <3>1, <3>4 DEF w, b, q, r, a, t, wN, bN, qN, rN, aN, tN, over, overN
  <2> QED
    BY <1>3, <1>5, <2>1, <2>3, <2>9
<1>13. CASE BatcherPut
  <2>1. /\ UNCHANGED <<work, closed, active, batch, accumulated, taken, oversized>>
        /\ UNCHANGED <<trainerPc, pullTask>> /\ queue = <<>> /\ queue' = <<ready>> /\ ready' = <<>>
    BY <1>13 DEF BatcherPut, syncVars
  <2>2. ~TrainerOptimStep /\ ~SyncRelease
    BY <2>1 DEF TrainerOptimStep, SyncRelease, Sync!PullComplete, Sync!PullReturns
  <2>3. Awaiting' = Awaiting /\ InQueue' = ready /\ InQueue = <<>>
    BY <2>1, <2>2, AwaitingSame DEF InQueue
  <2> QED
    BY <1>1, <1>3, <1>4, <1>5, <2>1, <2>3
<1>14. CASE BatcherClosed \/ BatcherPutStop \/ BatcherRaises
  <2>1. /\ UNCHANGED <<work, closed, active, batch, ready, accumulated, taken, oversized>>
        /\ UNCHANGED <<trainerPc, pullTask>>
        /\ queue' = queue \/ (queue = <<>> /\ queue' = <<Stop>>)
    BY <1>14 DEF BatcherClosed, BatcherPutStop, BatcherRaises, syncVars
  <2>2. ~TrainerOptimStep /\ ~SyncRelease
    BY <2>1 DEF TrainerOptimStep, SyncRelease, Sync!PullComplete, Sync!PullReturns
  <2>3. InQueue' = InQueue
    BY <2>1 DEF InQueue, Stop
  <2> QED
    BY <1>6, <2>1, <2>2, <2>3
<1>15. CASE TrainerGet
  <2>1. /\ UNCHANGED <<work, closed, active, ready, accumulated, taken, oversized, pullTask>>
        /\ trainerPc = "get" /\ batch' = InQueue /\ InQueue' = <<>>
    BY <1>15 DEF TrainerGet, syncVars, InQueue
  <2>2. ~TrainerOptimStep /\ ~SyncRelease
    BY <2>1 DEF TrainerOptimStep, SyncRelease, Sync!PullComplete, Sync!PullReturns
  <2>3. batch = <<>> /\ Awaiting' = Awaiting
    BY <1>0, <2>1, <2>2, AwaitingSame DEF HandoffInv
  <2> QED
    BY <1>1, <1>3, <1>4, <1>5, <2>1, <2>3
<1>16. CASE TrainerOptimStep
  <2>1. /\ UNCHANGED <<work, closed, active, queue, ready, accumulated, taken, oversized>>
        /\ trainerPc = "optim" /\ batch' = <<>>
    BY <1>16 DEF TrainerOptimStep
  <2>2. Awaiting' = Awaiting + NumGroupsPerTrainStep /\ InQueue' = InQueue
    BY <1>16, <2>1, AwaitingMore DEF InQueue
  <2>3. Len(batch) = NumGroupsPerTrainStep
    BY <1>0, <2>1 DEF HandoffInv
  <2> QED
    BY <1>1, <1>3, <1>4, <1>5, <2>1, <2>2, <2>3, WindowAssumption
<1>17. CASE Trainer /\ ~TrainerGet /\ ~TrainerOptimStep
  <2>1. /\ UNCHANGED <<work, closed, active, batch, queue, ready, accumulated, taken, oversized>>
        /\ pullTask' \in {pullTask, "wait_push"}
    BY <1>17
       DEF Trainer, TrainerWaits, TrainerCalls, TrainerRaises, TrainerForwardBackward,
           TrainerWaitPush, TrainerWaitPull, Sync!StartAsyncPushPull, Buffer!FlushMetrics,
           TrainerSaveCheckpoint, TrainerFinalPush, TrainerFinalPull, syncVars
  <2>2. ~SyncRelease
    BY <2>1 DEF SyncRelease, Sync!PullComplete, Sync!PullReturns
  <2> QED
    BY <1>6, <1>17, <2>1, <2>2 DEF InQueue
<1>18. CASE SyncRelease
  <2>1. UNCHANGED <<work, closed, batch, queue, ready, accumulated, taken, oversized>>
        /\ active' = active - NumGroupsPerTrainStep
    BY <1>18, AwaitingLess DEF Buffer!ReleaseActiveGroups, NotSync
  <2>2. Awaiting' = Awaiting - NumGroupsPerTrainStep /\ InQueue' = InQueue
    BY <1>18, <2>1, AwaitingLess DEF InQueue
  <2> QED
    BY <1>1, <1>3, <1>5, <2>1, <2>2, WindowAssumption
<1>19. CASE SyncPush \/ SyncPullBegin \/ SyncPullOne \/ SyncFails
  <2>1. /\ UNCHANGED <<work, closed, active, batch, queue, ready, accumulated, taken, oversized>>
        /\ trainerPc' = trainerPc
    BY <1>19 DEF SyncPush, SyncPullBegin, SyncPullOne, SyncFails, NotSync
  <2>2. ~TrainerOptimStep
    BY <2>1 DEF TrainerOptimStep
  <2>3. CASE ~SyncRelease
    BY <1>6, <2>1, <2>2, <2>3 DEF InQueue
  <2> QED
    BY <1>18, <2>3
<1>20. CASE RunClose
  <2>1. /\ UNCHANGED <<active, batch, queue, ready, accumulated, taken, oversized, trainerPc>>
        /\ UNCHANGED pullTask /\ closed' /\ work' = <<>>
    BY <1>20 DEF RunClose, Buffer!Close, syncVars
  <2>2. ~TrainerOptimStep /\ ~SyncRelease
    BY <2>1 DEF TrainerOptimStep, SyncRelease, Sync!PullComplete, Sync!PullReturns
  <2>3. Awaiting' = Awaiting /\ InQueue' = InQueue
    BY <2>1, <2>2, AwaitingSame DEF InQueue
  <2>4. Len(work') + Len(Downstream)' + oversized' + Awaiting'
                     <= Len(work) + Len(Downstream) + oversized + Awaiting
    BY <1>1, <1>2, <1>3, <1>4, <2>1, <2>3
  <2> QED
    BY <2>1, <2>4 DEF Goal
<1>21. CASE RunWakes \/ RunCancel
  <2>1. /\ UNCHANGED <<work, closed, active, batch, queue, ready, accumulated, taken, oversized>>
        /\ UNCHANGED pullTask /\ trainerPc' \in {trainerPc, "cancelled"}
    BY <1>21 DEF RunWakes, RunCancel, Cancelled, syncVars
  <2>2. ~TrainerOptimStep /\ ~SyncRelease
    BY <2>1 DEF TrainerOptimStep, SyncRelease, Sync!PullComplete, Sync!PullReturns
  <2> QED
    BY <1>6, <2>1, <2>2 DEF InQueue
<1>22. CASE Terminated \/ Starved \/ UNCHANGED vars
  <2>1. /\ UNCHANGED <<work, closed, active, batch, queue, ready, accumulated, taken, oversized>>
        /\ UNCHANGED <<trainerPc, pullTask>>
    BY <1>22 DEF Terminated, Starved, vars, syncVars
  <2>2. ~TrainerOptimStep /\ ~SyncRelease
    BY <2>1 DEF TrainerOptimStep, SyncRelease, Sync!PullComplete, Sync!PullReturns
  <2> QED
    BY <1>6, <2>1, <2>2 DEF InQueue
<1> QED
  BY <1>7, <1>8, <1>9, <1>10, <1>11, <1>12, <1>13, <1>14, <1>15, <1>16, <1>17, <1>18, <1>19,
     <1>20, <1>21, <1>22
     DEF Next, Input, Batching, PushPull, Run

\* Two numbers that move together stay as far apart as they were.
LEMMA SameDistance ==
    ASSUME NEW m \in Int, NEW n \in Int, NEW a \in Int, NEW b \in Int, n - b = m - a, m <= a
    PROVE  n <= b /\ (a = m => b = n)
<1>1. a <= m => b <= n
  OBVIOUS
<1>2. n <= b
  OBVIOUS
<1> QED
  BY <1>1, <1>2

LEMMA SlotsKeeps == IInv /\ [Next]_vars => SlotsInv'
<1> SUFFICES ASSUME IInv, [Next]_vars
             PROVE  SlotsInv'
  OBVIOUS
<1>1. inputPc' = "fetch" => Buffer!HasActiveSlot'
  BY GrantKeeps
<1>2. SlotsInv /\ TypeOK /\ TypeOK'
  BY TypeKeeps DEF IInv
<1>3. Len(work) + Len(Downstream) + oversized + Awaiting \in Nat
      /\ active \in Nat /\ active' \in Nat /\ closed \in BOOLEAN /\ closed' \in BOOLEAN
  <2>1. Awaiting \in Nat
    BY VersionFacts DEF IInv
  <2>2. Len(work) \in Nat /\ Len(Downstream) \in Nat
    BY <1>2, DownstreamFacts
  <2>3. active \in Nat /\ active' \in Nat /\ closed \in BOOLEAN /\ closed' \in BOOLEAN
        /\ oversized \in Nat
    BY <1>2 DEF TypeOK
  <2> HIDE DEF Awaiting
  <2> QED
    BY <2>1, <2>2, <2>3
<1>4. Len(work') + Len(Downstream)' + oversized' + Awaiting' \in Int
  <2>1. Awaiting' \in Int
    <3>1. policyVersion' \in Nat /\ syncVersion' \in Nat
      BY <1>2 DEF TypeOK, Sync!SyncTypeOK
    <3>2. Sync!SyncedVersion' \in Int
      BY <3>1 DEF Sync!SyncedVersion
    <3> DEFINE behind == policyVersion' - Sync!SyncedVersion'
    <3>3. behind \in Int /\ Awaiting' = NumGroupsPerTrainStep * behind
      BY <3>1, <3>2 DEF Awaiting
    <3> HIDE DEF behind
    <3> QED
      BY <3>3, WindowAssumption
  <2>2. oversized' \in Nat
    BY <1>2 DEF TypeOK
  <2> QED
    BY <1>2, <2>1, <2>2, DownstreamFactsNext
<1> DEFINE total == Len(work) + Len(Downstream) + oversized + Awaiting
           totalNext == Len(work') + Len(Downstream)' + oversized' + Awaiting'
<1>5. \/ closed' = closed /\ totalNext - active' = total - active
      \/ closed' /\ active' = active /\ totalNext <= total
  BY SlotsMoveTogether, Zenon
<1>6. total <= active /\ (~closed => active = total)
  BY <1>2 DEF SlotsInv
<1>7. total \in Int /\ totalNext \in Int /\ active \in Int /\ active' \in Int
  BY <1>3, <1>4
<1>8. totalNext <= active' /\ (~closed' => active' = totalNext)
  <2> HIDE DEF total, totalNext
  <2>1. CASE closed' = closed /\ totalNext - active' = total - active
    <3>1. totalNext <= active' /\ (active = total => active' = totalNext)
      <4>1. totalNext - active' = total - active
        BY <2>1
      <4>2. total <= active
        BY <1>6
      <4> QED
        BY <1>7, <4>1, <4>2, SameDistance
    <3> QED
      BY <1>6, <2>1, <3>1
  <2>2. CASE closed' /\ active' = active /\ totalNext <= total
    <3>1. totalNext <= total /\ total <= active /\ active' = active
      BY <1>6, <2>2
    <3>2. totalNext <= active'
      BY <1>7, <3>1
    <3> QED
      BY <2>2, <3>2
  <2> QED
    BY <1>5, <2>1, <2>2
<1> QED
  BY <1>1, <1>8 DEF SlotsInv

-----------------------------------------------------------------------------
(* How many groups are admitted.                                           *)

\* The groups whose slot the generators' pulls have given back.
Handed == NumGroupsPerTrainStep * (Sync!SyncedVersion - StartStep)

\* A set of numbers below a bound that grows by one element at most.
LEMMA GrowsByOne ==
    ASSUME NEW S, IsFiniteSet(S), NEW T, NEW x, T \subseteq S \cup {x}
    PROVE  IsFiniteSet(T) /\ Cardinality(T) \in Nat /\ Cardinality(T) <= Cardinality(S) + 1
<1>1. /\ IsFiniteSet(S \cup {x}) /\ Cardinality(S) \in Nat
      /\ Cardinality(S \cup {x}) <= Cardinality(S) + 1
  <2>1. IsFiniteSet(S \cup {x})
        /\ Cardinality(S \cup {x}) = IF x \in S THEN Cardinality(S) ELSE Cardinality(S) + 1
    BY FS_AddElement
  <2>2. Cardinality(S) \in Nat
    BY FS_CardinalityType
  <2> QED
    BY <2>1, <2>2
<1>2. IsFiniteSet(T) /\ Cardinality(T) <= Cardinality(S \cup {x})
  BY <1>1, FS_Subset
<1>3. Cardinality(T) \in Nat /\ Cardinality(S \cup {x}) \in Nat
  BY <1>1, <1>2, FS_CardinalityType
<1> QED
  BY <1>1, <1>2, <1>3

LEMMA Shrinks ==
    ASSUME NEW S, IsFiniteSet(S), NEW T, T \subseteq S
    PROVE  IsFiniteSet(T) /\ Cardinality(T) \in Nat /\ Cardinality(T) <= Cardinality(S)
BY FS_Subset, FS_CardinalityType

\* The ids in FailedGroups, one by one.
LEMMA FailedMember ==
    /\ \A x : x \in FailedGroups <=>
          \/ \E i \in DOMAIN work : work[i].rollout_group = Failed /\ x = work[i].group_id
          \/ \E i \in DOMAIN taken : taken[i].version = Failed /\ x = taken[i].id
    /\ \A x : x \in FailedGroups' <=>
          \/ \E i \in DOMAIN work' : work'[i].rollout_group = Failed /\ x = work'[i].group_id
          \/ \E i \in DOMAIN taken' : taken'[i].version = Failed /\ x = taken'[i].id
BY DEF FailedGroups

\* A group joins the failed ones only when its rollout raises.
LEMMA FailedEffect ==
    ASSUME IInv, [Next]_vars
    PROVE  \/ FailedGroups' \subseteq FailedGroups
           \/ \E id \in DOMAIN rollouts :
                 RolloutFails(id) /\ FailedGroups' \subseteq FailedGroups \cup {id}
<1>a. /\ work \in Seq(Buffer!Work) /\ Len(work) \in Nat /\ DOMAIN work = 1 .. Len(work)
      /\ taken \in Seq(Group)
  BY EntryFacts DEF IInv, TypeOK
<1>b. Failed # NoGroup
  BY DEF Failed, NoGroup
<1>1. CASE InputAddWork
  <2>1. /\ DOMAIN work' = DOMAIN work \cup {Len(work) + 1}
        /\ \A i \in DOMAIN work : work'[i] = work[i]
        /\ work'[Len(work) + 1].rollout_group = NoGroup
        /\ UNCHANGED taken
    <3>1. UNCHANGED taken
      BY <1>1 DEF InputAddWork, batcherVars
    <3>2. /\ DOMAIN work' = 1 .. Len(work) + 1 /\ \A i \in DOMAIN work : work'[i] = work[i]
          /\ work'[Len(work) + 1].rollout_group = NoGroup
      BY <1>1, AddEffect
    <3>3. 1 .. Len(work) + 1 = 1 .. Len(work) \cup {Len(work) + 1}
      BY <1>a
    <3> QED
      BY <1>a, <3>1, <3>2, <3>3
  <2> QED
    BY <1>b, <2>1, FailedMember
<1>2. CASE RolloutClaim
  <2>1. PICK i \in DOMAIN work : Buffer!ClaimNext(i)
    BY <1>2 DEF RolloutClaim
  <2>2. UNCHANGED taken
    BY <1>2 DEF RolloutClaim, batcherVars
  <2>3. /\ DOMAIN work' = DOMAIN work
        /\ \A j \in DOMAIN work : /\ work'[j].group_id = work[j].group_id
                                  /\ work'[j].rollout_group = work[j].rollout_group
    BY <2>1, ClaimEffect
  <2> QED
    BY <2>2, <2>3, FailedMember
<1>3. ASSUME NEW id \in DOMAIN rollouts, NEW group, HandIn(id, group)
      PROVE  /\ group # Failed => FailedGroups' \subseteq FailedGroups
             /\ FailedGroups' \subseteq FailedGroups \cup {id}
  <2>1. UNCHANGED taken
    BY <1>3 DEF HandIn, batcherVars
  <2>2. CASE UNCHANGED work
    BY <2>1, <2>2, FailedMember
  <2>3. CASE \E i \in DOMAIN work : work[i].group_id = id /\ Buffer!FinalizeWork(i, group)
    <3>1. PICK i \in DOMAIN work : work[i].group_id = id /\ Buffer!FinalizeWork(i, group)
      BY <2>3
    <3>2. /\ DOMAIN work' = DOMAIN work
          /\ work'[i].group_id = id /\ work'[i].rollout_group = group
          /\ \A j \in DOMAIN work : j # i => work'[j] = work[j]
      BY <3>1, FinalizeEffect
    <3> QED
      BY <2>1, <3>2, FailedMember
  <2> QED
    BY <1>3, <2>2, <2>3 DEF HandIn, bufferVars
<1>4. CASE \E id \in DOMAIN rollouts : RolloutFinish(id) \/ RolloutFails(id)
  BY <1>3, <1>4 DEF RolloutFinish, RolloutFails
<1>5. CASE \E id \in DOMAIN rollouts, g \in Generators : RolloutSample(id, g)
  BY <1>5, FailedMember DEF RolloutSample, bufferVars, batcherVars
<1>6. CASE BatcherTake
  <2>1. /\ DOMAIN work' = 1 .. Len(work) - 1
        /\ \A i \in 1 .. Len(work) - 1 : i + 1 \in DOMAIN work /\ work'[i] = work[i + 1]
        /\ 1 \in DOMAIN work /\ DOMAIN taken' = {1}
        /\ taken'[1].id = work[1].group_id /\ taken'[1].version = work[1].rollout_group
    BY <1>6, TakeEffect, HeadHandedIn
  <2> QED
    BY <2>1, FailedMember
<1>7. CASE BatcherBuild \/ BatcherPack
  <2>1. work' = work /\ (taken' = taken \/ taken' = <<>>)
    BY <1>7 DEF BatcherBuild, BatcherPack, Buffer!ReleaseActiveGroups, bufferVars
  <2> QED
    BY <2>1, FailedMember
<1>8. CASE RunClose
  <2>1. work' = <<>> /\ UNCHANGED taken
    BY <1>8 DEF RunClose, Buffer!Close, batcherVars
  <2> QED
    BY <2>1, FailedMember
<1>9. CASE RunCancel
  BY <1>9, FailedMember DEF RunCancel, bufferVars
<1>10. CASE Elsewhere /\ ~BatcherBuild /\ ~BatcherPack
  <2>1. UNCHANGED work
    BY <1>10, ElsewhereEffect
  <2>2. UNCHANGED taken
    BY <1>10
       DEF Elsewhere, InputWaitForSlot, InputCrashes, BatcherPut, BatcherClosed, BatcherPutStop,
           BatcherRaises, Trainer, TrainerWaits, TrainerCalls, TrainerRaises, TrainerGet,
           TrainerForwardBackward, TrainerWaitPush, TrainerOptimStep, TrainerWaitPull,
           TrainerSaveCheckpoint, TrainerFinalPush, TrainerFinalPull, PushPull, SyncPush,
           SyncPullBegin, SyncPullOne, SyncRelease, SyncFails, NotSync, RunWakes, Terminated,
           Starved, vars, batcherVars
  <2> QED
    BY <2>1, <2>2, FailedMember
<1> QED
  BY <1>1, <1>2, <1>4, <1>5, <1>6, <1>7, <1>8, <1>9, <1>10
     DEF Next, Input, Rollout, RolloutGoesOn, Batching, Run, Elsewhere

\* The four numbers that the count relates.
LEMMA CountFacts ==
    ASSUME IInv, [Next]_vars
    PROVE  /\ groupIndex \in Nat /\ groupIndex' \in Nat /\ active \in Nat /\ active' \in Nat
           /\ untrainable \in Nat /\ untrainable' \in Nat
           /\ Handed \in Int
           /\ ~SyncRelease => Handed' = Handed
           /\ SyncRelease => Handed' = Handed + NumGroupsPerTrainStep
           /\ IsFiniteSet(FailedGroups) /\ Cardinality(FailedGroups) \in Nat
<1>1. TypeOK /\ TypeOK'
  BY TypeKeeps DEF IInv
<1>2. /\ groupIndex \in Nat /\ groupIndex' \in Nat /\ active \in Nat /\ active' \in Nat
      /\ untrainable \in Nat /\ untrainable' \in Nat
  BY <1>1 DEF TypeOK
<1>3. IsFiniteSet(FailedGroups) /\ Cardinality(FailedGroups) \in Nat
  BY FailedFinite DEF IInv
<1> DEFINE behind == Sync!SyncedVersion - StartStep
<1>4. behind \in Int /\ Sync!SyncedVersion \in Int /\ StartStep \in Nat
  BY VersionFacts, WindowAssumption DEF IInv
<1>5. Handed = NumGroupsPerTrainStep * behind
  BY DEF Handed
<1>6. ~SyncRelease => Handed' = Handed
  BY AwaitingSame, AwaitingMore DEF Handed
<1>7. SyncRelease => Handed' = NumGroupsPerTrainStep * (behind + 1)
  <2>1. ASSUME SyncRelease
        PROVE  Sync!SyncedVersion' - StartStep = behind + 1
    BY <1>4, <2>1, AwaitingLess
  <2> QED
    BY <2>1 DEF Handed
<1> HIDE DEF behind
<1>8. /\ NumGroupsPerTrainStep * behind \in Int
      /\ NumGroupsPerTrainStep * (behind + 1) = NumGroupsPerTrainStep * behind + NumGroupsPerTrainStep
  BY <1>4, WindowAssumption
<1> QED
  BY <1>2, <1>3, <1>5, <1>6, <1>7, <1>8

\* A group that failed waits in the batcher's hand for its slot to be released.
LEMMA BuildDropsFailed ==
    ASSUME IInv, BatcherBuild
    PROVE  \/ UNCHANGED <<active, taken, untrainable>>
           \/ /\ active' = active - 1 /\ taken' = <<>>
              /\ \/ untrainable' = untrainable + 1 /\ untrainable' <= MaxUntrainable
                 \/ /\ untrainable' = untrainable
                    /\ Cardinality(FailedGroups)' + 1 <= Cardinality(FailedGroups)
<1>1. batcherPc = "build" /\ Len(taken) = 1 /\ 1 <= active /\ active \in Nat
      /\ taken \in Seq(Group) /\ untrainable \in Nat /\ MaxUntrainable \in Nat
  BY ReleaseCovered, LoopAssumption DEF BatcherBuild, IInv, HandoffInv, TypeOK
<1>2. DOMAIN taken = {1} /\ Head(taken) = taken[1]
  BY <1>1, HeadTailProperties, LenProperties, EmptySeq
<1>3. ~Buffer!ReleaseRejected(1)
  BY <1>1 DEF Buffer!ReleaseRejected
<1>4. CASE UNCHANGED <<bufferVars, taken, untrainable>>
  BY <1>4 DEF bufferVars
<1>5. CASE /\ taken[1].version # Failed /\ untrainable < MaxUntrainable
           /\ untrainable' = untrainable + 1
           /\ Buffer!ReleaseActiveGroups(1) /\ taken' = <<>>
  BY <1>1, <1>5 DEF Buffer!ReleaseActiveGroups
<1>6. CASE /\ taken[1].version = Failed /\ UNCHANGED untrainable
           /\ Buffer!ReleaseActiveGroups(1) /\ taken' = <<>>
  <2> DEFINE id == taken[1].id
  <2>1. id \in FailedGroups
    BY <1>2, <1>6, FailedMember
  <2>2. FailedGroups' \subseteq FailedGroups \ {id}
    <3>1. work' = work /\ DOMAIN taken' = {}
      BY <1>6 DEF Buffer!ReleaseActiveGroups
    <3>2. FailedGroups' \subseteq FailedGroups
      BY <3>1, FailedMember
    <3>3. id \notin FailedGroups'
      <4>1. \A i \in DOMAIN work : work[i].group_id >= groupIndex - Len(work)
        BY EntryFacts
      <4>2. id < groupIndex - Len(work)
        BY <1>2 DEF IInv, CountInv
      <4>3. \A i \in DOMAIN work : work[i].group_id # id
        <5> SUFFICES ASSUME NEW i \in DOMAIN work, work[i].group_id = id
                     PROVE  FALSE
          OBVIOUS
        <5>1. id >= groupIndex - Len(work) /\ id \in Nat
          BY <4>1, EntryFacts
        <5>2. groupIndex - Len(work) \in Int
          BY EntryFacts
        <5> HIDE DEF id
        <5> QED
          BY <4>2, <5>1, <5>2
      <4> QED
        BY <3>1, <4>3, FailedMember
    <3> QED
      BY <3>2, <3>3
  <2>3. Cardinality(FailedGroups)' + 1 <= Cardinality(FailedGroups)
    <3> DEFINE S == FailedGroups
               T == FailedGroups'
    <3>1. IsFiniteSet(S) /\ Cardinality(S) \in Nat
      BY FailedFinite DEF IInv
    <3>2. IsFiniteSet(S \ {id}) /\ Cardinality(S \ {id}) = Cardinality(S) - 1
      BY <2>1, <3>1, FS_RemoveElement
    <3>3. Cardinality(T) \in Nat /\ Cardinality(T) <= Cardinality(S \ {id})
      BY <2>2, <3>2, Shrinks
    <3>4. Cardinality(T) + 1 <= Cardinality(S)
      <4> HIDE DEF S, T
      <4> QED
        BY <3>1, <3>2, <3>3
    <3> QED
      BY <3>4
  <2> QED
    BY <1>6, <2>3 DEF Buffer!ReleaseActiveGroups
<1> QED
  BY <1>2, <1>3, <1>4, <1>5, <1>6 DEF BatcherBuild

LEMMA CountKeeps == IInv /\ [Next]_vars => CountInv'
<1> SUFFICES ASSUME IInv, [Next]_vars
             PROVE  CountInv'
  OBVIOUS
<1> DEFINE f == Cardinality(FailedGroups)
           fN == Cardinality(FailedGroups)'
<1>1. /\ groupIndex \in Nat /\ groupIndex' \in Nat /\ active \in Nat /\ active' \in Nat
      /\ untrainable \in Nat /\ untrainable' \in Nat
      /\ Handed \in Int
      /\ ~SyncRelease => Handed' = Handed
      /\ SyncRelease => Handed' = Handed + NumGroupsPerTrainStep
      /\ IsFiniteSet(FailedGroups) /\ f \in Nat
  BY CountFacts
<1>2. /\ groupIndex + f <= active + Handed + untrainable /\ untrainable <= MaxUntrainable
      /\ \A i \in DOMAIN taken : taken[i].id < groupIndex - Len(work)
  BY DEF IInv, CountInv, Handed
<1>3. ASSUME groupIndex' + fN <= active' + Handed' + untrainable',
             untrainable' <= MaxUntrainable,
             \A i \in DOMAIN taken' : taken'[i].id < groupIndex' - Len(work')
      PROVE  CountInv'
  BY <1>3 DEF CountInv, Handed
<1>4. (~\E id \in DOMAIN rollouts : RolloutFails(id)) => fN \in Nat /\ fN <= f
  BY <1>1, FailedEffect, Shrinks
<1>5. (\E id \in DOMAIN rollouts : RolloutFails(id)) => fN \in Nat /\ fN <= f + 1
  <2>1. CASE FailedGroups' \subseteq FailedGroups
    BY <1>1, <2>1, Shrinks
  <2>2. CASE \E id \in DOMAIN rollouts : FailedGroups' \subseteq FailedGroups \cup {id}
    BY <1>1, <2>2, GrowsByOne
  <2> QED
    BY <2>1, <2>2, FailedEffect
<1> HIDE DEF f, fN, Handed
<1>6. CASE InputAddWork
  <2>1. /\ groupIndex' = groupIndex + 1 /\ active' = active + 1 /\ Len(work') = Len(work) + 1
        /\ UNCHANGED <<taken, untrainable>>
    BY <1>6, AddEffect DEF InputAddWork, batcherVars, dropVars
  <2>2. ~SyncRelease /\ ~\E id \in DOMAIN rollouts : RolloutFails(id)
    BY <1>1, <2>1 DEF SyncRelease, NotSync, inputVars, RolloutFails, HandIn
  <2>3. groupIndex' + fN <= active' + Handed' + untrainable'
    BY <1>1, <1>2, <1>4, <2>1, <2>2
  <2>4. \A i \in DOMAIN taken' : taken'[i].id < groupIndex' - Len(work')
    <3>1. groupIndex' - Len(work') = groupIndex - Len(work)
      BY <2>1, EntryFacts
    <3> QED
      BY <1>2, <2>1, <3>1
  <2> QED
    BY <1>2, <1>3, <2>1, <2>3, <2>4
<1>7. CASE \E id \in DOMAIN rollouts : RolloutFails(id)
  <2>1. /\ untrainable' = untrainable + 1 /\ untrainable < MaxUntrainable
        /\ UNCHANGED <<groupIndex, taken>>
    BY <1>7 DEF RolloutFails, HandIn, inputVars, batcherVars
  <2>2. active' = active /\ Len(work') = Len(work)
    <3>1. ASSUME NEW id \in DOMAIN rollouts, NEW group, HandIn(id, group)
          PROVE  active' = active /\ Len(work') = Len(work)
      BY <3>1, FinalizeEffect DEF HandIn, bufferVars, Buffer!FinalizeWork
    <3> QED
      BY <1>7, <3>1 DEF RolloutFails
  <2>3. ~SyncRelease
    BY <1>1, <2>1 DEF SyncRelease, NotSync, dropVars
  <2>4. groupIndex' + fN <= active' + Handed' + untrainable'
    BY <1>1, <1>2, <1>5, <1>7, <2>1, <2>2, <2>3
  <2>5. untrainable' <= MaxUntrainable
    BY <1>1, <2>1, LoopAssumption
  <2> QED
    BY <1>2, <1>3, <2>1, <2>2, <2>4, <2>5
<1>8. CASE BatcherTake
  <2>1. /\ Len(work') = Len(work) - 1 /\ UNCHANGED <<groupIndex, active>>
        /\ DOMAIN taken' = {1} /\ taken'[1].id = work[1].group_id /\ 1 \in DOMAIN work
    BY <1>8, TakeEffect, HeadHandedIn
  <2>2. UNCHANGED untrainable /\ UNCHANGED dropVars
    BY <1>8 DEF BatcherTake, dropVars
  <2>3. ~SyncRelease /\ ~\E id \in DOMAIN rollouts : RolloutFails(id)
    BY <1>1, <1>8, <2>2
       DEF BatcherTake, SyncRelease, NotSync, batcherVars, RolloutFails
  <2>4. groupIndex' + fN <= active' + Handed' + untrainable'
    BY <1>1, <1>2, <1>4, <2>1, <2>2, <2>3
  <2>5. work[1].group_id < groupIndex' - Len(work')
    <3>1. /\ work[1].group_id = groupIndex - Len(work) + 1 - 1
          /\ Len(work) \in Nat /\ groupIndex \in Nat
      BY <2>1, EntryFacts
    <3> DEFINE n == Len(work)
               nN == Len(work')
               x == work[1].group_id
    <3>2. n \in Nat /\ nN = n - 1 /\ x = groupIndex - n + 1 - 1 /\ groupIndex' = groupIndex
      BY <2>1, <3>1
    <3> HIDE DEF n, nN, x
    <3>3. x < groupIndex' - nN
      BY <1>1, <3>2
    <3> QED
      BY <3>3 DEF nN, x
  <2> QED
    BY <1>2, <1>3, <2>1, <2>2, <2>4, <2>5
<1>9. CASE BatcherBuild
  <2>1. UNCHANGED <<work, groupIndex>>
    BY <1>9, ElsewhereEffect DEF Elsewhere
  <2>2. ~SyncRelease /\ ~\E id \in DOMAIN rollouts : RolloutFails(id)
    BY <1>9 DEF BatcherBuild, SyncRelease, NotSync, batcherVars, RolloutFails, HandIn
  <2>3. CASE UNCHANGED <<active, taken, untrainable>>
    <3>1. groupIndex' + fN <= active' + Handed' + untrainable'
      BY <1>1, <1>2, <1>4, <2>1, <2>2, <2>3
    <3> QED
      BY <1>2, <1>3, <2>1, <2>3, <3>1
  <2>4. CASE /\ active' = active - 1 /\ taken' = <<>>
             /\ untrainable' = untrainable + 1 /\ untrainable' <= MaxUntrainable
    <3>1. groupIndex' + fN <= active' + Handed' + untrainable'
      BY <1>1, <1>2, <1>4, <2>1, <2>2, <2>4
    <3>2. DOMAIN taken' = {}
      BY <2>4
    <3> QED
      BY <1>3, <2>4, <3>1, <3>2
  <2>5. CASE /\ active' = active - 1 /\ taken' = <<>>
             /\ untrainable' = untrainable /\ fN + 1 <= f
    <3>1. groupIndex' + fN <= active' + Handed' + untrainable'
      BY <1>1, <1>2, <1>4, <2>1, <2>2, <2>5
    <3>2. DOMAIN taken' = {}
      BY <2>5
    <3> QED
      BY <1>2, <1>3, <2>5, <3>1, <3>2
  <2> QED
    BY <1>9, <2>3, <2>4, <2>5, BuildDropsFailed DEF f, fN
<1>10. CASE SyncRelease
  <2>1. /\ active' = active - NumGroupsPerTrainStep
        /\ UNCHANGED <<work, groupIndex, taken, untrainable>>
    BY <1>10, AwaitingLess
       DEF Buffer!ReleaseActiveGroups, NotSync, inputVars, batcherVars, dropVars
  <2>2. ~\E id \in DOMAIN rollouts : RolloutFails(id)
    BY <1>1, <2>1 DEF RolloutFails
  <2>3. groupIndex' + fN <= active' + Handed' + untrainable'
    BY <1>1, <1>2, <1>4, <1>10, <2>1, <2>2, WindowAssumption
  <2> QED
    BY <1>2, <1>3, <2>1, <2>3
<1>11. ASSUME UNCHANGED <<groupIndex, active, untrainable>>, ~SyncRelease,
              taken' = taken \/ taken' = <<>>, Len(work') = Len(work) \/ work' = <<>>
       PROVE  CountInv'
  <2>1. ~\E id \in DOMAIN rollouts : RolloutFails(id)
    BY <1>1, <1>11 DEF RolloutFails
  <2>2. groupIndex' + fN <= active' + Handed' + untrainable'
    BY <1>1, <1>2, <1>4, <1>11, <2>1
  <2>3. \A i \in DOMAIN taken' : taken'[i].id < groupIndex' - Len(work')
    <3> SUFFICES ASSUME NEW i \in DOMAIN taken, taken' = taken
                 PROVE  taken[i].id < groupIndex' - Len(work')
      BY <1>11
    <3> DEFINE n == Len(work)
               nN == Len(work')
               x == taken[i].id
    <3>1. x < groupIndex - n /\ groupIndex' = groupIndex
      BY <1>2, <1>11
    <3>2. n \in Nat /\ (nN = n \/ nN = 0)
      BY <1>11, EntryFacts, EmptySeq
    <3>3. x \in Nat
      <4>1. taken[i] \in Group
        BY ElementOfSeq, LenProperties DEF IInv, TypeOK
      <4> QED
        BY <4>1 DEF Group
    <3> HIDE DEF n, nN, x
    <3>4. x < groupIndex' - nN
      BY <1>1, <3>1, <3>2, <3>3
    <3> QED
      BY <3>4 DEF nN, x
  <2> QED
    BY <1>2, <1>3, <1>11, <2>2, <2>3
<1> USE DEF bufferVars, inputVars, batcherVars, dropVars
<1>12. CASE RolloutClaim \/ \E id \in DOMAIN rollouts : RolloutFinish(id)
  <2>1. UNCHANGED <<groupIndex, untrainable, taken, pullTask>>
    BY <1>12 DEF RolloutClaim, RolloutFinish, HandIn, syncVars
  <2>2. ~SyncRelease
    BY <2>1 DEF SyncRelease, Sync!PullComplete, Sync!PullReturns
  <2>3. active' = active /\ Len(work') = Len(work)
    <3>1. ASSUME NEW id \in DOMAIN rollouts, NEW group, HandIn(id, group)
          PROVE  active' = active /\ Len(work') = Len(work)
      BY <3>1, FinalizeEffect DEF HandIn, Buffer!FinalizeWork
    <3>2. CASE RolloutClaim
      BY <3>2, ClaimEffect DEF RolloutClaim, Buffer!ClaimNext
    <3> QED
      BY <1>12, <3>1, <3>2 DEF RolloutFinish
  <2> QED
    BY <1>11, <2>1, <2>2, <2>3
<1>13. CASE \/ InputWaitForSlot \/ InputCrashes
            \/ \E id \in DOMAIN rollouts, g \in Generators : RolloutSample(id, g)
            \/ BatcherPack \/ BatcherPut \/ BatcherClosed \/ BatcherPutStop \/ BatcherRaises
  <2>1. UNCHANGED <<groupIndex, active, untrainable, work, pullTask>> /\ taken' \in {taken, <<>>}
    BY <1>13 DEF InputWaitForSlot, InputCrashes, RolloutSample, BatcherPack, BatcherPut,
                 BatcherClosed, BatcherPutStop, BatcherRaises, syncVars
  <2>2. ~SyncRelease
    BY <2>1 DEF SyncRelease, Sync!PullComplete, Sync!PullReturns
  <2> QED
    BY <1>11, <2>1, <2>2
<1>14. CASE Trainer
  <2>1. UNCHANGED <<groupIndex, active, untrainable, work, taken>>
        /\ (pullTask' = pullTask \/ pullTask = "done")
    BY <1>14
       DEF Trainer, TrainerWaits, TrainerCalls, TrainerRaises, TrainerGet, TrainerForwardBackward,
           TrainerWaitPush, TrainerOptimStep, Sync!OptimStep, TrainerWaitPull,
           Buffer!FlushMetrics, TrainerSaveCheckpoint, TrainerFinalPush, TrainerFinalPull,
           syncVars
  <2>2. ~SyncRelease
    BY <2>1 DEF SyncRelease, Sync!PullComplete, Sync!PullReturns
  <2> QED
    BY <1>11, <2>1, <2>2
<1>15. CASE SyncPush \/ SyncPullBegin \/ SyncPullOne \/ SyncFails
  BY <1>10, <1>11, <1>15 DEF SyncPush, SyncPullBegin, SyncPullOne, SyncFails, NotSync
<1>16. CASE Run \/ Terminated \/ Starved \/ UNCHANGED vars
  <2>1. UNCHANGED <<groupIndex, active, untrainable, taken, pullTask>>
        /\ (work' = work \/ work' = <<>>)
    BY <1>16 DEF Run, RunWakes, RunClose, Buffer!Close, RunCancel, Terminated, Starved, vars,
                 syncVars
  <2>2. ~SyncRelease
    BY <2>1 DEF SyncRelease, Sync!PullComplete, Sync!PullReturns
  <2> QED
    BY <1>11, <2>1, <2>2
<1> QED
  BY <1>6, <1>7, <1>8, <1>9, <1>10, <1>12, <1>13, <1>14, <1>15, <1>16
     DEF Next, Input, Rollout, RolloutGoesOn, Batching, PushPull

-----------------------------------------------------------------------------
(* The invariant holds.                                                    *)

LEMMA InitIInv == Init => IInv
<1> SUFFICES ASSUME Init
             PROVE  IInv
  OBVIOUS
<1> USE WindowAssumption, LoopAssumption
<1>1. /\ work = <<>> /\ active = 0 /\ peak = 0 /\ closed = FALSE /\ groupIndex = 0
      /\ inputPc = "wait" /\ rollouts = <<>> /\ batcherPc = "take" /\ taken = <<>>
      /\ accumulated = <<>> /\ ready = <<>> /\ queue = <<>> /\ batch = <<>>
      /\ trainerPc \in {"get", "final_push"}
      /\ StartStep < NumTrainingSteps <=> trainerPc = "get"
      /\ step = StartStep + 1 /\ runPc = "running" /\ outcome = "none"
      /\ untrainable = 0 /\ oversized = 0
  BY DEF Init, Buffer!BufferInit
<1>2. /\ policyVersion = StartStep /\ pushTask = "done" /\ pullTask = "done"
      /\ syncVersion = StartStep /\ store = StartStep /\ reading = {}
      /\ genVersion = [g \in Generators |-> StartStep]
      /\ genWeights = [g \in Generators |-> StartStep]
  BY DEF Init, Sync!SyncInit
<1>3. /\ DOMAIN <<>> = {} /\ Len(<<>>) = 0
      /\ <<>> \in Seq(Group) /\ <<>> \in Seq(Seq(Group)) /\ <<>> \in Seq(Buffer!Work)
  BY EmptySeq
<1>4. SyncP!TypeOK /\ SyncP!BufferSafety
  <2>1. SyncP!Init
    <3>1. active = 0 /\ Len(work) = 0
      BY <1>1, EmptySeq
    <3>2. active - Len(work) = 0
      BY <3>1
    <3> QED
      BY <1>1, <3>2 DEF SyncP!Init, SyncP!BufferInit
  <2> QED
    BY <2>1, SyncP!BufferTypeInit, SyncP!BufferSafetyInit, PartsAssumption
       DEF SyncP!BufferTypeInit, SyncP!BufferSafetyInit
<1>5. SyncP!IInv
  <2>1. SyncP!SyncInit
    BY <1>2 DEF SyncP!SyncInit
  <2> QED
    BY <2>1, SyncP!InitIInv, PartsAssumption DEF SyncP!InitIInv
<1>6. TypeOK
  <2>1. Sync!SyncTypeOK
    BY <1>2 DEF Sync!SyncTypeOK
  <2>2. /\ work \in Seq(Buffer!Work) /\ active \in Nat /\ peak \in Nat /\ closed \in BOOLEAN
        /\ taken \in Seq(Group) /\ accumulated \in Seq(Group) /\ ready \in Seq(Group)
        /\ queue \in Seq(Seq(Group)) /\ batch \in Seq(Group)
    BY <1>1, <1>3
  <2>3. Len(queue) <= 1
    <3>1. Len(queue) = 0
      BY <1>1, EmptySeq
    <3> QED
      BY <3>1
  <2>4. DOMAIN rollouts \subseteq Nat /\ \A id \in DOMAIN rollouts : rollouts[id] \in Versions
    BY <1>1, <1>3
  <2>5. groupIndex \in Nat /\ step \in Nat /\ untrainable \in Nat /\ oversized \in Nat
    BY <1>1
  <2> QED
    BY <1>1, <2>1, <2>2, <2>3, <2>4, <2>5 DEF TypeOK
<1>7. InQueue = <<>> /\ AllSampled(<<>>)
  BY <1>1, <1>3 DEF InQueue, AllSampled
<1>8. WorkersInv /\ CloseInv /\ HandoffInv
  BY <1>1, <1>3, <1>7 DEF WorkersInv, CloseInv, HandoffInv
<1>9. TrainerInv
  <2>1. StartStep < NumTrainingSteps => StartStep + 1 <= NumTrainingSteps
    OBVIOUS
  <2> QED
    BY <1>1, <1>2, <2>1, SizesPositive DEF TrainerInv, Sync!SyncedVersion
<1>10. Sync!SyncedVersion = StartStep
  BY <1>2 DEF Sync!SyncedVersion
<1>11. SlotsInv
  <2>1. Len(work) = 0 /\ Len(Downstream) = 0
    <3>1. Len(batch) = 0 /\ Len(InQueue) = 0 /\ Len(ready) = 0 /\ Len(accumulated) = 0
          /\ Len(taken) = 0
      BY <1>1, <1>3, <1>7
    <3> QED
      BY <1>1, <1>3, <1>6, <3>1, DownstreamFacts
  <2>2. Awaiting = 0
    <3> DEFINE behind == policyVersion - Sync!SyncedVersion
    <3>1. behind = 0
      BY <1>2, <1>10
    <3>2. Awaiting = NumGroupsPerTrainStep * behind
      BY DEF Awaiting
    <3> HIDE DEF behind
    <3>3. NumGroupsPerTrainStep * behind = 0
      BY <3>1
    <3> QED
      BY <3>2, <3>3
  <2> QED
    BY <1>1, <2>1, <2>2 DEF SlotsInv
<1>12. CountInv
  <2>1. FailedGroups = {}
    BY <1>1, <1>3 DEF FailedGroups
  <2>2. Cardinality(FailedGroups) = 0
    BY <2>1, FS_EmptySet
  <2>3. NumGroupsPerTrainStep * (Sync!SyncedVersion - StartStep) = 0
    <3> DEFINE handed == Sync!SyncedVersion - StartStep
    <3>1. handed = 0
      BY <1>10
    <3> HIDE DEF handed
    <3>2. NumGroupsPerTrainStep * handed = 0
      BY <3>1
    <3> QED
      BY <3>2 DEF handed
  <2> QED
    BY <1>1, <1>3, <2>2, <2>3 DEF CountInv
<1> QED
  BY <1>4, <1>5, <1>6, <1>8, <1>9, <1>11, <1>12 DEF IInv

LEMMA NextIInv == IInv /\ [Next]_vars => IInv'
BY TypeKeeps, BufferKeeps, SyncKeeps, CloseKeeps, WorkersKeeps, HandoffKeeps, TrainerKeeps,
   SlotsKeeps, CountKeeps
   DEF IInv

LEMMA Invariance == Spec => []IInv
BY InitIInv, NextIInv, PTL DEF Spec

-----------------------------------------------------------------------------
(* The theorems.                                                           *)

\* The loop keeps its types, whatever fails and whatever is dropped.
THEOREM Typing == Spec => []TypeOK
<1>1. IInv => TypeOK
  BY DEF IInv
<1> QED
  BY <1>1, Invariance, PTL

\* The slots of controller.py's budget are exactly the groups on the way, a
\* granted slot is there when it is charged, and neither the batcher nor the
\* weight sync gives back more slots than are charged.
THEOREM SlotAccounting == Spec => []SlotsAccountedFor
<1>1. IInv => SlotsAccountedFor
  <2> SUFFICES ASSUME IInv
               PROVE  SlotsAccountedFor
    OBVIOUS
  <2>1. ~closed => active = Len(work) + Len(Downstream) + oversized
                       + NumGroupsPerTrainStep * (policyVersion - Sync!SyncedVersion)
    BY DEF IInv, SlotsInv, Awaiting
  <2>2. inputPc = "fetch" => Buffer!HasActiveSlot
    BY DEF IInv, SlotsInv
  <2>3. batcherPc = "build" => ~Buffer!ReleaseRejected(1)
    BY ReleaseCovered DEF Buffer!ReleaseRejected, IInv, TypeOK
  <2>4. Sync!PullComplete => ~Buffer!ReleaseRejected(NumGroupsPerTrainStep)
    BY ReleaseCovered, WindowAssumption DEF Buffer!ReleaseRejected, IInv, TypeOK
  <2> QED
    BY <2>1, <2>2, <2>3, <2>4 DEF SlotsAccountedFor
<1> QED
  BY <1>1, Invariance, PTL

\* The loops keep the protocols under which the work buffer and the weight sync
\* are specified, and so inherit everything proved of either.
THEOREM ProtocolsKept == Spec => KeepsProtocols
<1>1. Init => Buffer!Init /\ Sync!SyncInit
  <2> SUFFICES ASSUME Init
               PROVE  active - Len(work) = 0
    BY DEF Init, Buffer!Init
  <2>1. active = 0 /\ Len(work) = 0
    BY EmptySeq DEF Init, Buffer!BufferInit
  <2> QED
    BY <2>1
<1>2. IInv /\ [Next]_vars => [Buffer!Next]_(Buffer!vars)
  BY BufferRefines
<1>3. IInv /\ [Next]_vars => [Sync!SyncNext]_(Sync!syncVars)
  BY SyncRefines
<1> QED
  BY <1>1, <1>2, <1>3, Invariance, PTL DEF Spec, KeepsProtocols, Buffer!Spec, Sync!SyncSpec

-----------------------------------------------------------------------------
(* Sequences of groups.                                                    *)

\* The two halves of a concatenation.
LEMMA Halves ==
    ASSUME NEW s \in Seq(Group), NEW t \in Seq(Group)
    PROVE  /\ s \o t \in Seq(Group) /\ Len(s \o t) = Len(s) + Len(t)
           /\ SubSeq(s \o t, 1, Len(s)) = s
           /\ SubSeq(s \o t, Len(s) + 1, Len(s \o t)) = t
<1>1. s \o t \in Seq(Group) /\ Len(s \o t) = Len(s) + Len(t)
  BY ConcatProperties
<1>2. Len(s) \in Nat /\ Len(t) \in Nat
  BY LenProperties
<1>3. SubSeq(s \o t, 1, Len(s)) = s
  <2>1. CASE Len(s) = 0
    <3>1. s = <<>> /\ SubSeq(s \o t, 1, 0) = <<>>
      BY <2>1, EmptySeq, SubSeqEmpty
    <3> QED
      BY <2>1, <3>1
  <2>2. CASE Len(s) # 0
    <3>1. 1 \in 1 .. Len(s) /\ Len(s) \in 1 .. Len(s)
      BY <1>2, <2>2
    <3> QED
      BY <3>1, SubSeqOfConcat1, SubSeqFull
  <2> QED
    BY <2>1, <2>2
<1>4. SubSeq(s \o t, Len(s) + 1, Len(s) + Len(t)) = t
  <2> DEFINE m == Len(s)
             n == Len(t)
  <2>0. m \in Nat /\ n \in Nat
    BY <1>2
  <2>1. CASE t = <<>>
    <3>1. n = 0
      BY <2>1, EmptySeq
    <3> HIDE DEF m, n
    <3>2. m + n < m + 1
      BY <2>0, <3>1
    <3>3. SubSeq(s \o t, m + 1, m + n) = <<>>
      BY <2>0, <3>2, SubSeqEmpty
    <3> QED
      BY <2>1, <3>3 DEF m, n
  <2>2. CASE t # <<>>
    <3>1. n # 0
      BY <2>2, EmptySeq
    <3> HIDE DEF m, n
    <3>2. /\ m + 1 \in m + 1 .. m + n /\ m + n \in m + 1 .. m + n
          /\ (m + 1) - m = 1 /\ (m + n) - m = n
      BY <2>0, <3>1
    <3>3. SubSeq(s \o t, m + 1, m + n) = SubSeq(t, (m + 1) - m, (m + n) - m)
      BY <3>2, SubSeqOfConcat2 DEF m, n
    <3>4. SubSeq(t, 1, n) = t
      BY SubSeqFull DEF n
    <3> QED
      BY <3>2, <3>3, <3>4 DEF m, n
  <2> QED
    BY <2>1, <2>2
<1> QED
  BY <1>1, <1>3, <1>4

\* Its elements.
LEMMA HalvesElements ==
    ASSUME NEW s \in Seq(Group), NEW t \in Seq(Group)
    PROVE  /\ DOMAIN (s \o t) = 1 .. Len(s) + Len(t)
           /\ Len(s) \in Nat /\ Len(t) \in Nat
           /\ \A i \in 1 .. Len(s) : (s \o t)[i] = s[i]
           /\ \A i \in 1 .. Len(t) :
                 Len(s) + i \in 1 .. Len(s) + Len(t) /\ (s \o t)[Len(s) + i] = t[i]
<1> DEFINE m == Len(s)
           n == Len(t)
<1>1. m \in Nat /\ n \in Nat
  BY LenProperties
<1>2. /\ s \o t \in Seq(Group) /\ Len(s \o t) = m + n
      /\ \A i \in 1 .. m + n : (s \o t)[i] = IF i <= m THEN s[i] ELSE t[i - m]
  BY ConcatProperties
<1>3. DOMAIN (s \o t) = 1 .. m + n
  BY <1>2, LenProperties
<1> HIDE DEF m, n
<1>4. \A i \in 1 .. m : (s \o t)[i] = s[i]
  BY <1>1, <1>2
<1>5. ASSUME NEW i \in 1 .. n
      PROVE  m + i \in 1 .. m + n /\ (s \o t)[m + i] = t[i]
  <2>1. m + i \in 1 .. m + n /\ ~(m + i <= m) /\ (m + i) - m = i
    BY <1>1
  <2> QED
    BY <1>2, <2>1
<1> QED
  BY <1>1, <1>3, <1>4, <1>5 DEF m, n

\* A sequence in which one group was given another version.
LEMMA VersionChanged ==
    ASSUME NEW s \in Seq(Group), NEW t \in Seq(Group), Len(t) = Len(s),
           NEW k \in 1 .. Len(s), NEW v,
           t[k].id = s[k].id, t[k].version = v,
           \A j \in 1 .. Len(s) : j # k => t[j] = s[j]
    PROVE  t = [s EXCEPT ![k].version = v]
<1> DEFINE g == [s[k] EXCEPT !.version = v]
<1>1. s[k] \in Group /\ t[k] \in Group
  BY ElementOfSeq
<1>2. t[k] = g
  BY <1>1 DEF Group
<1>3. /\ DOMAIN s = 1 .. Len(s) /\ DOMAIN t = 1 .. Len(s)
      /\ s = [j \in 1 .. Len(s) |-> s[j]] /\ t = [j \in 1 .. Len(s) |-> t[j]]
  BY LenProperties
<1> HIDE DEF g
<1>4. [s EXCEPT ![k] = g] = [j \in 1 .. Len(s) |-> IF j = k THEN g ELSE s[j]]
  BY <1>3
<1>5. t = [j \in 1 .. Len(s) |-> IF j = k THEN g ELSE s[j]]
  BY <1>2, <1>3
<1> QED
  BY <1>4, <1>5 DEF g

-----------------------------------------------------------------------------
(* The stream of groups that the window is about.                          *)

StreamShape ==
    /\ Downstream \in Seq(Group) /\ InBuffer \in Seq(Group) /\ Stream \in Seq(Group)
    /\ Len(InBuffer) = Len(work)
    /\ Len(Stream) = Len(Downstream) + Len(work)
    /\ DOMAIN Stream = 1 .. Len(Downstream) + Len(work)
    /\ Len(Downstream) \in Nat /\ Len(work) \in Nat
    /\ \A i \in 1 .. Len(work) :
          InBuffer[i] = [id |-> work[i].group_id, version |-> SampledVersion(work[i])]

LEMMA StreamFacts == IInv => StreamShape
<1> SUFFICES ASSUME IInv
             PROVE  StreamShape
  OBVIOUS
<1>1. /\ work \in Seq(Buffer!Work) /\ Len(work) \in Nat /\ DOMAIN work = 1 .. Len(work)
      /\ \A i \in DOMAIN work :
            /\ work[i] \in Buffer!Work /\ work[i].group_id \in Nat
            /\ work[i].state = "FINALIZED" <=> work[i].rollout_group # NoGroup
  BY EntryFacts
<1>2. Downstream \in Seq(Group)
  BY DownstreamFacts DEF IInv
<1>3. InBuffer = [i \in 1 .. Len(work) |->
                     [id |-> work[i].group_id, version |-> SampledVersion(work[i])]]
  BY <1>1 DEF InBuffer
<1>4. ASSUME NEW i \in 1 .. Len(work)
      PROVE  [id |-> work[i].group_id, version |-> SampledVersion(work[i])] \in Group
  <2>1. SampledVersion(work[i]) \in Versions
    <3>1. work[i].state = "FINALIZED" => work[i].rollout_group \in Versions
      BY <1>1, <1>4 DEF Buffer!Work
    <3>2. \A id \in DOMAIN rollouts : rollouts[id] \in Versions
      BY DEF IInv, TypeOK
    <3> QED
      BY <3>1, <3>2 DEF SampledVersion, Versions
  <2> QED
    BY <1>1, <2>1 DEF Group
<1>5. InBuffer \in Seq(Group) /\ Len(InBuffer) = Len(work)
  BY <1>1, <1>3, <1>4, IsASeq, LenProperties
<1> QED
  BY <1>1, <1>2, <1>3, <1>5, Halves, HalvesElements, LenProperties DEF StreamShape, Stream

LEMMA StreamFactsNext == IInv' => StreamShape'
BY StreamFacts, PTL

\* Concatenation needs no parentheses.
Grouped(x, y, z) == (x \o y) \o z = x \o (y \o z)

LEMMA ThreeInARow == \A x, y, z \in Seq(Group) : x \o y \in Seq(Group) /\ Grouped(x, y, z)
<1> TAKE x, y, z \in Seq(Group)
<1>1. x \o y \in Seq(Group)
  BY ConcatProperties
<1>2. Grouped(x, y, z)
  BY ConcatAssociative DEF Grouped
<1> QED
  BY <1>1, <1>2

\* The first of five sequences, and the last ones, put apart.
HeadApart(a, b, c, d, e) == a \o b \o c \o d \o e = a \o (b \o c \o d \o e)

LEMMA FirstApart ==
    ASSUME NEW a \in Seq(Group), NEW b \in Seq(Group), NEW c \in Seq(Group), NEW d \in Seq(Group),
           NEW e \in Seq(Group)
    PROVE  HeadApart(a, b, c, d, e)
<1> DEFINE bc == b \o c
           bcd == bc \o d
<1>1. bc \in Seq(Group) /\ Grouped(a, b, c)
  BY ThreeInARow
<1> HIDE DEF bc
<1>2. bcd \in Seq(Group) /\ Grouped(a, bc, d)
  BY <1>1, ThreeInARow
<1> HIDE DEF bcd
<1>3. Grouped(a, bcd, e)
  BY <1>2, ThreeInARow
<1> QED
  BY <1>1, <1>2, <1>3, Zenon DEF HeadApart, Grouped, bc, bcd

\* Three sequences before an empty one, with the last two put together.
TailTogether(p, c, d) == p \o c \o d \o <<>> = p \o (c \o d)

LEMMA LastTogether ==
    ASSUME NEW p \in Seq(Group), NEW c \in Seq(Group), NEW d \in Seq(Group)
    PROVE  TailTogether(p, c, d)
<1> DEFINE pc == p \o c
           pcd == pc \o d
<1>1. pc \in Seq(Group) /\ Grouped(p, c, d)
  BY ThreeInARow
<1> HIDE DEF pc
<1>2. pcd \in Seq(Group)
  BY <1>1, ThreeInARow
<1> HIDE DEF pcd
<1>3. pcd \o <<>> = pcd
  BY <1>2, ConcatEmptySeq
<1> QED
  BY <1>1, <1>3, Zenon DEF TailTogether, Grouped, pc, pcd

\* Two sequences with the same elements in the same places.
LEMMA SameElements ==
    ASSUME NEW S, NEW s \in Seq(S), NEW t \in Seq(S), Len(s) = Len(t),
           \A i \in 1 .. Len(s) : s[i] = t[i]
    PROVE  s = t
<1>1. /\ DOMAIN s = 1 .. Len(s) /\ DOMAIN t = 1 .. Len(s)
      /\ s = [i \in 1 .. Len(s) |-> s[i]] /\ t = [i \in 1 .. Len(s) |-> t[i]]
  BY LenProperties
<1> QED
  BY <1>1

\* A step of the loop that leaves the stream alone is invisible to the window.
LEMMA Invisible ==
    ASSUME IInv, [Next]_vars, ~TrainerOptimStep, ~SyncRelease,
           Stream' = Stream, groupIndex' = groupIndex
    PROVE  UNCHANGED Window!vars
BY AwaitingSame DEF Window!vars

\* Neither end of the window moves in a step that leaves the trainer or the
\* pull where it is.
LEMMA EndsStay ==
    ASSUME IInv, [Next]_vars, trainerPc' \in {trainerPc, "cancelled"}, pullTask' = pullTask
    PROVE  /\ ~TrainerOptimStep /\ ~SyncRelease
           /\ policyVersion' = policyVersion /\ Sync!SyncedVersion' = Sync!SyncedVersion
<1>1. ~TrainerOptimStep /\ ~SyncRelease
  BY DEF TrainerOptimStep, SyncRelease, Sync!PullComplete, Sync!PullReturns
<1> QED
  BY <1>1, AwaitingSame

\* A group that passes from the batcher to the queue, or from the queue to the
\* trainer, keeps its place.
LEMMA PassingOn ==
    ASSUME IInv, BatcherPut \/ TrainerGet
    PROVE  Stream' = Stream
<1>1. /\ batch \in Seq(Group) /\ InQueue \in Seq(Group) /\ ready \in Seq(Group)
      /\ HandoffInv
  BY DownstreamFacts DEF IInv, TypeOK
<1>2. Downstream' = Downstream
  <2>1. CASE BatcherPut
    <3>1. /\ InQueue = <<>> /\ InQueue' = ready /\ ready' = <<>>
          /\ UNCHANGED <<batch, accumulated, taken>>
      BY <2>1 DEF BatcherPut, InQueue, trainerVars
    <3>2. (batch \o <<>>) \o ready = (batch \o ready) \o <<>>
      BY <1>1, ConcatEmptySeq, ConcatProperties
    <3> QED
      BY <3>1, <3>2 DEF Downstream
  <2>2. CASE TrainerGet
    <3>1. /\ batch = <<>> /\ batch' = InQueue /\ InQueue' = <<>>
          /\ UNCHANGED <<ready, accumulated, taken>>
      BY <1>1, <2>2 DEF TrainerGet, InQueue, batcherVars, HandoffInv
    <3>2. <<>> \o InQueue = InQueue \o <<>>
      BY <1>1, ConcatEmptySeq
    <3> QED
      BY <3>1, <3>2 DEF Downstream
  <2> QED
    BY <2>1, <2>2
<1>3. UNCHANGED <<work, rollouts>>
  BY ElsewhereEffect DEF Elsewhere, Trainer, TrainerCalls
<1> QED
  BY <1>2, <1>3 DEF Stream, InBuffer, SampledVersion

\* The version of a group in the buffer, by the state of its entry.
VersionByState ==
    \A i \in DOMAIN work :
        /\ work[i].state = "FINALIZED" => SampledVersion(work[i]) = work[i].rollout_group
        /\ work[i].state = "INFLIGHT" => SampledVersion(work[i]) = rollouts[work[i].group_id]
        /\ work[i].state = "WAITING" => SampledVersion(work[i]) = Failed

LEMMA VersionByStateHolds == IInv => VersionByState
<1> SUFFICES ASSUME IInv, NEW i \in DOMAIN work
             PROVE  /\ work[i].state = "FINALIZED" =>
                           SampledVersion(work[i]) = work[i].rollout_group
                    /\ work[i].state = "INFLIGHT" =>
                           SampledVersion(work[i]) = rollouts[work[i].group_id]
                    /\ work[i].state = "WAITING" => SampledVersion(work[i]) = Failed
  BY DEF VersionByState
<1>1. work[i].state = "INFLIGHT" <=> work[i].group_id \in DOMAIN rollouts
  BY DEF IInv, WorkersInv
<1> QED
  BY <1>1 DEF SampledVersion

LEMMA VersionByStateNext == IInv' => VersionByState'
BY VersionByStateHolds, PTL

\* The group that the batcher takes goes from the one half of the stream to the
\* other.
LEMMA Taking ==
    ASSUME IInv, IInv', BatcherTake
    PROVE  Stream' = Stream
<1>0. StreamShape /\ StreamShape'
  BY StreamFacts, StreamFactsNext
<1> DEFINE e == [id |-> work[1].group_id, version |-> work[1].rollout_group]
           d == batch \o InQueue \o ready \o accumulated
<1>1. /\ Len(work') = Len(work) - 1
      /\ \A i \in 1 .. Len(work) - 1 : i + 1 \in DOMAIN work /\ work'[i] = work[i + 1]
      /\ UNCHANGED rollouts /\ taken = <<>> /\ taken' = <<e>>
  BY TakeEffect
<1>2. /\ work[1].state = "FINALIZED" /\ e \in Group /\ 1 \in DOMAIN work
  BY HeadHandedIn
<1>3. d \in Seq(Group)
  <2>1. /\ batch \in Seq(Group) /\ InQueue \in Seq(Group) /\ ready \in Seq(Group)
        /\ accumulated \in Seq(Group)
    BY DownstreamFacts DEF IInv, TypeOK
  <2> QED
    BY <2>1, ConcatProperties
<1>4. Downstream = d \o <<>> /\ Downstream' = d \o <<e>>
  BY <1>1 DEF Downstream, BatcherTake, trainerVars, InQueue
<1>5. InBuffer = <<e>> \o InBuffer'
  <2> DEFINE n == Len(work')
             b == InBuffer'
  <2>1. <<e>> \in Seq(Group) /\ Len(<<e>>) = 1 /\ <<e>>[1] = e
    BY <1>2, Singleton
  <2>2. b \in Seq(Group) /\ Len(b) = n /\ n \in Nat /\ Len(work) = 1 + n
    BY <1>0, <1>1 DEF StreamShape
  <2>3. /\ <<e>> \o b \in Seq(Group) /\ Len(<<e>> \o b) = 1 + n
        /\ (<<e>> \o b)[1] = e
        /\ \A i \in 1 .. n : (<<e>> \o b)[1 + i] = b[i]
    <3>1. 1 \in 1 .. 1
      OBVIOUS
    <3> HIDE DEF b, n, e
    <3> QED
      BY <2>1, <2>2, <3>1, Halves, HalvesElements
  <2>4. InBuffer \in Seq(Group) /\ Len(InBuffer) = 1 + n
    BY <1>0, <2>2 DEF StreamShape
  <2>5. InBuffer[1] = e
    <3>1. SampledVersion(work[1]) = work[1].rollout_group
      BY <1>2, VersionByStateHolds DEF VersionByState
    <3>2. 1 \in 1 .. Len(work)
      BY <2>2
    <3> QED
      BY <1>0, <3>1, <3>2 DEF StreamShape
  <2>6. ASSUME NEW i \in 1 .. n
        PROVE  InBuffer[1 + i] = b[i]
    <3>1. work'[i] = work[i + 1] /\ 1 + i \in 1 .. Len(work) /\ i + 1 = 1 + i
      BY <1>1, <2>2
    <3>2. SampledVersion(work[i])' = SampledVersion(work[1 + i])
      BY <1>1, <3>1 DEF SampledVersion
    <3>3. b[i] = [id |-> work'[i].group_id, version |-> SampledVersion(work[i])']
      BY <1>0 DEF StreamShape
    <3>4. InBuffer[1 + i] = [id |-> work[1 + i].group_id, version |-> SampledVersion(work[1 + i])]
      BY <1>0, <3>1 DEF StreamShape
    <3> QED
      BY <3>1, <3>2, <3>3, <3>4
  <2> HIDE DEF b, n, e
  <2>7. ASSUME NEW j \in 1 .. 1 + n
        PROVE  InBuffer[j] = (<<e>> \o b)[j]
    <3>1. CASE j = 1
      BY <2>3, <2>5, <3>1
    <3>2. CASE j # 1
      <4>1. j - 1 \in 1 .. n /\ 1 + (j - 1) = j
        BY <2>2, <3>2
      <4> QED
        BY <2>3, <2>6, <4>1
    <3> QED
      BY <3>1, <3>2
  <2> QED
    BY <2>3, <2>4, <2>7, SameElements DEF b
<1>6. <<e>> \in Seq(Group) /\ InBuffer' \in Seq(Group) /\ InBuffer \in Seq(Group)
  BY <1>0, <1>2, Singleton DEF StreamShape
<1> HIDE DEF d, e
<1>7. (d \o <<e>>) \o InBuffer' = d \o (<<e>> \o InBuffer')
  BY <1>3, <1>6, ConcatAssociative
<1>8. d \o <<>> = d
  BY <1>3, ConcatEmptySeq
<1>9. Stream' = (d \o <<e>>) \o InBuffer' /\ Stream = d \o InBuffer
  BY <1>4, <1>8 DEF Stream
<1> QED
  BY <1>5, <1>7, <1>9

\* One group of a stream is dropped.
OneDropped(s, t) ==
    \E i \in DOMAIN s : t = SubSeq(s, 1, i - 1) \o SubSeq(s, i + 1, Len(s))

LEMMA DropOne ==
    ASSUME NEW d \in Seq(Group), NEW t \in Seq(Group), NEW b \in Seq(Group), Len(t) = 1
    PROVE  OneDropped((d \o t) \o b, d \o b)
<1> DEFINE n == Len(d)
           s == (d \o t) \o b
<1>1. n \in Nat /\ Len(b) \in Nat
  BY LenProperties
<1>2. /\ d \o b = SubSeq(s, 1, Len(d)) \o SubSeq(s, Len(d) + Len(t) + 1, Len(s))
      /\ Len(s) = Len(d) + Len(t) + Len(b) /\ DOMAIN s = 1 .. Len(s)
  <2>1. d \o t \in Seq(Group) /\ Len(d \o t) = Len(d) + Len(t) /\ t \o b \in Seq(Group)
    BY ConcatProperties
  <2>2. s = d \o (t \o b)
    BY ConcatAssociative
  <2>3. s \in Seq(Group) /\ Len(s) = Len(d \o t) + Len(b)
    BY <2>1, ConcatProperties
  <2>4. DOMAIN s = 1 .. Len(s)
    BY <2>3, LenProperties
  <2>5. SubSeq(s, Len(d \o t) + 1, Len(s)) = b
    BY <2>1, Halves
  <2> HIDE DEF s
  <2>6. SubSeq(s, 1, Len(d)) = d
    BY <2>1, <2>2, Halves
  <2> QED
    BY <2>1, <2>3, <2>4, <2>5, <2>6
<1> HIDE DEF n, s
<1>3. n + 1 \in DOMAIN s /\ (n + 1) - 1 = n /\ n + Len(t) + 1 = (n + 1) + 1
  <2>1. Len(s) = n + 1 + Len(b)
    BY <1>2 DEF n
  <2> DEFINE m == Len(b)
  <2>2. m \in Nat
    BY <1>1
  <2> HIDE DEF m
  <2>3. n + 1 \in 1 .. n + 1 + m
    BY <1>1, <2>2
  <2> QED
    BY <1>1, <1>2, <2>1, <2>3 DEF m
<1>4. d \o b = SubSeq(s, 1, (n + 1) - 1) \o SubSeq(s, (n + 1) + 1, Len(s))
  BY <1>2, <1>3 DEF n
<1> QED
  BY <1>3, <1>4 DEF OneDropped, s

\* A group that the batcher gives up is the youngest outside the work buffer.
LEMMA GivingUp ==
    ASSUME IInv, IInv', NEW d \in Seq(Group), Downstream = d \o taken, Len(taken) = 1,
           Downstream' = d, UNCHANGED <<work, rollouts, groupIndex, policyVersion>>,
           Sync!SyncedVersion' = Sync!SyncedVersion
    PROVE  Window!Drop
<1>1. taken \in Seq(Group) /\ InBuffer \in Seq(Group)
  BY StreamFacts DEF StreamShape, IInv, TypeOK
<1>2. InBuffer' = InBuffer
  BY DEF InBuffer, SampledVersion
<1>3. Stream = (d \o taken) \o InBuffer /\ Stream' = d \o InBuffer
  BY <1>2 DEF Stream
<1>4. \E i \in DOMAIN Stream :
          Stream' = SubSeq(Stream, 1, i - 1) \o SubSeq(Stream, i + 1, Len(Stream))
  <2>1. OneDropped((d \o taken) \o InBuffer, d \o InBuffer)
    BY <1>1, DropOne, Zenon
  <2> QED
    BY <1>3, <2>1 DEF OneDropped
<1> QED
  BY <1>4 DEF Window!Drop

\* Building the samples of a group shows that it is of use, or gives it up.
LEMMA Building ==
    ASSUME IInv, IInv', [Next]_vars, BatcherBuild
    PROVE  Window!Drop \/ Stream' = Stream
<1> DEFINE d == batch \o InQueue \o ready \o accumulated
<1>1. /\ UNCHANGED <<work, rollouts, groupIndex, trainerPc, pullTask, batch, queue, ready,
                     accumulated>>
      /\ batcherPc = "build"
      /\ taken' = taken \/ taken' = <<>>
  BY DEF BatcherBuild, Buffer!ReleaseActiveGroups, bufferVars, syncVars, inputVars, trainerVars
<1>2. Len(taken) = 1
  BY <1>1 DEF IInv, HandoffInv
<1>3. Downstream = d \o taken /\ Downstream' = d \o taken'
  BY <1>1 DEF Downstream, InQueue
<1>4. d \in Seq(Group)
  <2>1. /\ batch \in Seq(Group) /\ InQueue \in Seq(Group) /\ ready \in Seq(Group)
        /\ accumulated \in Seq(Group)
    BY DownstreamFacts DEF IInv, TypeOK
  <2> QED
    BY <2>1, ConcatProperties
<1> HIDE DEF d
<1>5. CASE taken' = taken
  BY <1>1, <1>3, <1>5 DEF Stream, InBuffer, SampledVersion
<1>6. CASE taken' = <<>>
  <2>1. Downstream' = d
    BY <1>3, <1>4, <1>6, ConcatEmptySeq
  <2>2. policyVersion' = policyVersion /\ Sync!SyncedVersion' = Sync!SyncedVersion
    BY <1>1, EndsStay
  <2> QED
    BY <1>1, <1>2, <1>3, <1>4, <2>1, <2>2, GivingUp
<1> QED
  BY <1>1, <1>5, <1>6

\* What the Batcher keeps and what it gives out are the groups it was given, in
\* the order in which it was given them.
LEMMA PackedInOrder ==
    ASSUME TypeOK, TypeOK', NEW groups \in Seq(Group), ready = <<>>, KeptOrSplit(groups)
    PROVE  ready' \o accumulated' = groups
<1> DEFINE n == NumGroupsPerTrainStep
           m == Len(groups) - n
           r == ready'
           a == accumulated'
<1>1. CASE a = groups /\ r = <<>>
  BY <1>1, ConcatEmptySeq
<1>2. CASE ~(a = groups /\ r = <<>>)
  <2>1. /\ n <= Len(groups)
        /\ r \in Seq(Group) /\ Len(r) = n
        /\ a \in Seq(Group) /\ Len(a) = m
        /\ \A i \in 1 .. n : r[i] = groups[i]
        /\ \A i \in 1 .. m : a[i] = groups[n + i]
    BY <1>2 DEF KeptOrSplit
  <2>2. n \in Nat /\ Len(groups) \in Nat
    BY LenProperties, WindowAssumption
  <2>3. m \in Nat /\ n + m = Len(groups)
    <3> DEFINE k == Len(groups)
    <3>1. k \in Nat /\ n <= k
      BY <2>1, <2>2
    <3> HIDE DEF k
    <3>2. k - n \in Nat /\ n + (k - n) = k
      BY <2>2, <3>1
    <3> QED
      BY <3>2 DEF k
  <2>4. /\ r \o a \in Seq(Group) /\ Len(r \o a) = n + m
        /\ \A i \in 1 .. n : (r \o a)[i] = r[i]
        /\ \A i \in 1 .. m : (r \o a)[n + i] = a[i]
    <3> HIDE DEF r, a, m
    <3>1. r \o a \in Seq(Group) /\ Len(r \o a) = Len(r) + Len(a)
      BY <2>1, ConcatProperties
    <3>2. /\ \A i \in 1 .. Len(r) : (r \o a)[i] = r[i]
          /\ \A i \in 1 .. Len(a) : (r \o a)[Len(r) + i] = a[i]
      BY <2>1, HalvesElements
    <3> QED
      BY <2>1, <3>1, <3>2
  <2> HIDE DEF m, r, a
  <2>5. ASSUME NEW j \in 1 .. n + m
        PROVE  (r \o a)[j] = groups[j]
    <3>1. CASE j <= n
      <4>1. j \in 1 .. n
        BY <2>2, <2>3, <3>1
      <4> QED
        BY <2>1, <2>4, <4>1
    <3>2. CASE ~(j <= n)
      <4>1. j - n \in 1 .. m /\ n + (j - n) = j
        BY <2>2, <2>3, <3>2
      <4> QED
        BY <2>1, <2>4, <4>1
    <3> QED
      BY <3>1, <3>2
  <2>6. r \o a = groups
    BY <2>3, <2>4, <2>5, SameElements
  <2> QED
    BY <2>6 DEF r, a
<1> QED
  BY <1>1, <1>2

\* Packing keeps the order of the stream, or gives up a group too long for a row.
LEMMA Packing ==
    ASSUME IInv, IInv', [Next]_vars, BatcherPack
    PROVE  Window!Drop \/ Stream' = Stream
<1> DEFINE p == batch \o InQueue
<1>1. /\ UNCHANGED <<work, rollouts, groupIndex, trainerPc, pullTask, batch, queue>>
      /\ batcherPc = "pack"
  BY DEF BatcherPack, syncVars, inputVars, bufferVars, trainerVars
<1>2. /\ ready = <<>> /\ Len(taken) <= 1
      /\ TypeOK /\ TypeOK'
  BY <1>1 DEF IInv, HandoffInv
<1>3. /\ taken \in Seq(Group) /\ accumulated \in Seq(Group) /\ Len(taken) \in Nat
      /\ ready' \in Seq(Group) /\ accumulated' \in Seq(Group)
      /\ batch \in Seq(Group) /\ InQueue \in Seq(Group)
  <2>1. /\ taken \in Seq(Group) /\ accumulated \in Seq(Group) /\ Len(taken) \in Nat
        /\ batch \in Seq(Group) /\ InQueue \in Seq(Group)
    BY <1>2, DownstreamFacts DEF TypeOK
  <2>2. Group' = Group
    BY DEF Group, Versions, LastVersion
  <2>3. ready' \in Seq(Group) /\ accumulated' \in Seq(Group)
    BY <1>2, <2>2 DEF TypeOK
  <2> QED
    BY <2>1, <2>3
<1>4. p \in Seq(Group)
  BY <1>3, ConcatProperties
<1>5. PICK fits \in BOOLEAN :
          /\ AccumulatedWith(taken, fits) \in Seq(Group)
          /\ taken' = <<>>
          /\ KeptOrSplit(AccumulatedWith(taken, fits))
  BY <1>2, PackEffect
<1> DEFINE groups == AccumulatedWith(taken, fits)
<1>6. ready' \o accumulated' = groups
  BY <1>2, <1>5, PackedInOrder
<1>7. (p \o accumulated) \o taken = p \o (accumulated \o taken)
  <2> HIDE DEF p
  <2>1. taken \in Seq(Group) /\ accumulated \in Seq(Group)
    BY <1>3
  <2> QED
    BY <1>4, <2>1, ConcatAssociative
<1>8. Downstream = p \o (accumulated \o taken)
  <2>1. Downstream = p \o <<>> \o accumulated \o taken
    BY <1>2 DEF Downstream
  <2> HIDE DEF p
  <2>2. p \o <<>> = p
    BY <1>4, ConcatEmptySeq
  <2>3. (p \o accumulated) \o taken = p \o (accumulated \o taken)
    BY <1>7
  <2> QED
    BY <2>1, <2>2, <2>3
<1>9. Downstream' = p \o groups
  <2> DEFINE r == ready'
             a == accumulated'
  <2>1. Downstream' = p \o r \o a \o <<>>
    BY <1>1, <1>5 DEF Downstream, InQueue
  <2>2. r \in Seq(Group) /\ a \in Seq(Group) /\ r \o a = groups
    BY <1>3, <1>6
  <2> HIDE DEF p, r, a, groups
  <2>3. TailTogether(p, r, a)
    BY <1>4, <2>2, LastTogether
  <2> QED
    BY <2>1, <2>2, <2>3 DEF TailTogether
<1>10. CASE groups = accumulated \o taken
  BY <1>1, <1>8, <1>9, <1>10 DEF Stream, InBuffer, SampledVersion
<1>11. CASE groups # accumulated \o taken
  <2>1. groups = accumulated /\ taken # <<>>
    BY <1>3, <1>11, ConcatEmptySeq DEF AccumulatedWith
  <2>2. Len(taken) = 1
    <3> DEFINE t == Len(taken)
    <3>1. t \in Nat /\ t <= 1 /\ t # 0
      BY <1>2, <1>3, <2>1, EmptySeq
    <3> HIDE DEF t
    <3>2. t = 1
      BY <3>1
    <3> QED
      BY <3>2 DEF t
  <2> HIDE DEF p, groups
  <2>3. p \o accumulated \in Seq(Group)
    BY <1>3, <1>4, ConcatProperties
  <2>4. Downstream = (p \o accumulated) \o taken
    BY <1>8, <1>7
  <2>5. policyVersion' = policyVersion /\ Sync!SyncedVersion' = Sync!SyncedVersion
    BY <1>1, EndsStay
  <2> QED
    BY <1>1, <1>9, <2>1, <2>2, <2>3, <2>4, <2>5, GivingUp
<1> QED
  BY <1>10, <1>11

\* The places of the stream that belong to the work buffer.
InPlace ==
    /\ \A i \in 1 .. Len(Downstream) : i \in 1 .. Len(Stream) /\ Stream[i] = Downstream[i]
    /\ \A i \in 1 .. Len(work) :
          /\ Len(Downstream) + i \in 1 .. Len(Stream)
          /\ Stream[Len(Downstream) + i] = InBuffer[i]

LEMMA Places == StreamShape => InPlace
<1> SUFFICES ASSUME StreamShape
             PROVE  InPlace
  OBVIOUS
<1> DEFINE n == Len(Downstream)
           m == Len(InBuffer)
<1>1. n \in Nat /\ m \in Nat /\ m = Len(work) /\ Len(Stream) = n + m
      /\ Downstream \in Seq(Group) /\ InBuffer \in Seq(Group)
  BY DEF StreamShape
<1>2. /\ \A i \in 1 .. n : (Downstream \o InBuffer)[i] = Downstream[i]
      /\ \A i \in 1 .. m : n + i \in 1 .. n + m /\ (Downstream \o InBuffer)[n + i] = InBuffer[i]
  BY <1>1, HalvesElements
<1> HIDE DEF n, m
<1>3. \A i \in 1 .. n : i \in 1 .. n + m
  BY <1>1
<1> QED
  BY <1>1, <1>2, <1>3 DEF InPlace, Stream, n

LEMMA PlacesNext == StreamShape' => InPlace'
BY Places, PTL

\* Everything is where it was but for one group of the work buffer, which has
\* the version that its entry and its worker give it.
OnlyAt(k) ==
    LET p == Len(Downstream) + k
    IN  /\ Stream \in Seq(Group) /\ Stream' \in Seq(Group) /\ Len(Stream') = Len(Stream)
        /\ p \in 1 .. Len(Stream)
        /\ Stream'[p].id = Stream[p].id
        /\ Stream[p].version = SampledVersion(work[k])
        /\ Stream'[p].version = SampledVersion(work[k])'
        /\ \A j \in 1 .. Len(Stream) : j # p => Stream'[j] = Stream[j]

LEMMA OneEntry ==
    ASSUME IInv, IInv', Downstream' = Downstream, Len(work') = Len(work), NEW k \in DOMAIN work,
           work'[k].group_id = work[k].group_id,
           \A j \in DOMAIN work : j # k =>
               /\ work'[j] = work[j]
               /\ work[j].state = "INFLIGHT" =>
                      rollouts'[work[j].group_id] = rollouts[work[j].group_id]
    PROVE  OnlyAt(k)
<1> DEFINE n == Len(Downstream)
           m == Len(work)
<1>0. StreamShape /\ StreamShape' /\ VersionByState /\ VersionByState'
  BY StreamFacts, StreamFactsNext, VersionByStateHolds, VersionByStateNext
<1>1. /\ n \in Nat /\ m \in Nat /\ Len(Stream) = n + m
      /\ Stream \in Seq(Group) /\ Stream' \in Seq(Group) /\ Len(Stream') = Len(Stream)
      /\ DOMAIN work = 1 .. m /\ DOMAIN work' = 1 .. m
  BY <1>0, EntryFacts, LenProperties DEF StreamShape, IInv, TypeOK
<1>2. ASSUME NEW j \in 1 .. m
      PROVE  /\ n + j \in 1 .. n + m
             /\ Stream[n + j] = [id |-> work[j].group_id, version |-> SampledVersion(work[j])]
             /\ Stream'[n + j] = [id |-> work'[j].group_id, version |-> SampledVersion(work[j])']
  <2>1. /\ n + j \in 1 .. Len(Stream) /\ Stream[n + j] = InBuffer[j]
        /\ InBuffer[j] = [id |-> work[j].group_id, version |-> SampledVersion(work[j])]
    BY <1>0, Places DEF StreamShape, InPlace
  <2>2. /\ Stream'[n + j] = InBuffer'[j]
        /\ InBuffer'[j] = [id |-> work'[j].group_id, version |-> SampledVersion(work[j])']
    BY <1>0, <1>1, PlacesNext DEF StreamShape, InPlace
  <2> QED
    BY <1>1, <2>1, <2>2
<1>3. \A i \in 1 .. n : Stream'[i] = Stream[i]
  BY <1>0, Places, PlacesNext DEF InPlace
<1>4. ASSUME NEW j \in 1 .. m, j # k
      PROVE  Stream'[n + j] = Stream[n + j]
  <2>1. work'[j] = work[j] /\ j \in DOMAIN work /\ j \in DOMAIN work'
    BY <1>1, <1>4
  <2>2. SampledVersion(work[j])' = SampledVersion(work[j])
    <3>1. work[j].state \in {"WAITING", "INFLIGHT", "FINALIZED"}
      BY <2>1, EntryFacts DEF Buffer!Work, Buffer!WorkState
    <3>2. /\ work[j].state = "FINALIZED" => SampledVersion(work[j])' = work'[j].rollout_group
          /\ work[j].state = "INFLIGHT" => SampledVersion(work[j])' = rollouts'[work'[j].group_id]
          /\ work[j].state = "WAITING" => SampledVersion(work[j])' = Failed
      BY <1>0, <2>1 DEF VersionByState, Failed
    <3>3. /\ work[j].state = "FINALIZED" => SampledVersion(work[j]) = work[j].rollout_group
          /\ work[j].state = "INFLIGHT" => SampledVersion(work[j]) = rollouts[work[j].group_id]
          /\ work[j].state = "WAITING" => SampledVersion(work[j]) = Failed
      BY <1>0, <2>1 DEF VersionByState
    <3> QED
      BY <1>4, <2>1, <3>1, <3>2, <3>3
  <2> QED
    BY <1>2, <2>1, <2>2
<1>5. ASSUME NEW j \in 1 .. Len(Stream), j # n + k
      PROVE  Stream'[j] = Stream[j]
  <2>1. CASE j <= n
    <3>1. j \in 1 .. n
      BY <1>1, <2>1
    <3> QED
      BY <1>3, <3>1
  <2>2. CASE ~(j <= n)
    <3>1. j - n \in 1 .. m /\ n + (j - n) = j /\ j - n # k
      BY <1>1, <1>5, <2>2
    <3> QED
      BY <1>4, <3>1
  <2> QED
    BY <2>1, <2>2
<1>6. k \in 1 .. m
  BY <1>1
<1>7. /\ n + k \in 1 .. Len(Stream)
      /\ Stream'[n + k].id = Stream[n + k].id
      /\ Stream[n + k].version = SampledVersion(work[k])
      /\ Stream'[n + k].version = SampledVersion(work[k])'
  <2>1. /\ n + k \in 1 .. n + m
        /\ Stream[n + k] = [id |-> work[k].group_id, version |-> SampledVersion(work[k])]
        /\ Stream'[n + k] = [id |-> work'[k].group_id, version |-> SampledVersion(work[k])']
    BY <1>2, <1>6
  <2>2. n + k \in 1 .. Len(Stream)
    BY <1>1, <2>1
  <2> DEFINE x == Stream[n + k]
             y == Stream'[n + k]
  <2>3. /\ x = [id |-> work[k].group_id, version |-> SampledVersion(work[k])]
        /\ y = [id |-> work'[k].group_id, version |-> SampledVersion(work[k])']
    BY <2>1
  <2> HIDE DEF x, y, n
  <2>4. x.id = y.id /\ x.version = SampledVersion(work[k]) /\ y.version = SampledVersion(work[k])'
    BY <2>3
  <2> QED
    BY <2>2, <2>4 DEF x, y
<1>8. \A j \in 1 .. Len(Stream) : j # n + k => Stream'[j] = Stream[j]
  BY <1>5
<1> QED
  BY <1>1, <1>7, <1>8 DEF OnlyAt

\* If that version is the one it had, nothing has changed.
LEMMA NoNewVersion ==
    ASSUME NEW k, OnlyAt(k), SampledVersion(work[k])' = SampledVersion(work[k])
    PROVE  Stream' = Stream
<1> DEFINE s == Stream
           t == Stream'
           p == Len(Downstream) + k
<1>1. /\ s \in Seq(Group) /\ t \in Seq(Group) /\ Len(t) = Len(s) /\ p \in 1 .. Len(s)
      /\ t[p].id = s[p].id /\ t[p].version = s[p].version
      /\ \A j \in 1 .. Len(s) : j # p => t[j] = s[j]
  BY DEF OnlyAt
<1> HIDE DEF s, t, p
<1>2. s[p] \in Group /\ t[p] \in Group
  BY <1>1, ElementOfSeq
<1>3. t[p] = s[p]
  <2>1. \A x, y \in Group : x.id = y.id /\ x.version = y.version => x = y
    BY DEF Group
  <2> QED
    BY <1>1, <1>2, <2>1, Zenon
<1>4. \A j \in 1 .. Len(s) : s[j] = t[j]
  BY <1>1, <1>3
<1>5. s = t
  BY <1>1, <1>4, SameElements
<1> QED
  BY <1>5 DEF s, t

\* Otherwise a sample was taken, or lost.
LEMMA NewVersion ==
    ASSUME NEW k, OnlyAt(k), NEW v, SampledVersion(work[k])' = v,
           UNCHANGED <<groupIndex, policyVersion>>, Sync!SyncedVersion' = Sync!SyncedVersion
    PROVE  \E i \in DOMAIN Stream : Window!Sample(i, v)
<1> DEFINE s == Stream
           t == Stream'
           p == Len(Downstream) + k
<1>1. /\ s \in Seq(Group) /\ t \in Seq(Group) /\ Len(t) = Len(s) /\ p \in 1 .. Len(s)
      /\ t[p].id = s[p].id /\ t[p].version = v
      /\ \A j \in 1 .. Len(s) : j # p => t[j] = s[j]
  BY DEF OnlyAt
<1> HIDE DEF s, t, p
<1>2. t = [s EXCEPT ![p].version = v]
  BY <1>1, VersionChanged
<1>3. p \in DOMAIN s
  BY <1>1, LenProperties
<1>4. p \in DOMAIN Stream /\ Stream' = [Stream EXCEPT ![p].version = v]
  BY <1>2, <1>3 DEF s, t
<1> QED
  BY <1>4 DEF Window!Sample

\* The buffer and the groups in flight are left alone.
LEMMA NoEntry ==
    ASSUME IInv, IInv', Downstream' = Downstream, work' = work,
           \A j \in DOMAIN work : work[j].state = "INFLIGHT" =>
               rollouts'[work[j].group_id] = rollouts[work[j].group_id]
    PROVE  Stream' = Stream
<1>0. VersionByState /\ VersionByState'
  BY VersionByStateHolds, VersionByStateNext
<1>1. ASSUME NEW j \in DOMAIN work
      PROVE  SampledVersion(work[j])' = SampledVersion(work[j])
  <2>1. work[j].state \in {"WAITING", "INFLIGHT", "FINALIZED"}
    BY EntryFacts DEF Buffer!Work, Buffer!WorkState
  <2>2. /\ work[j].state = "FINALIZED" => SampledVersion(work[j])' = work[j].rollout_group
        /\ work[j].state = "INFLIGHT" => SampledVersion(work[j])' = rollouts'[work[j].group_id]
        /\ work[j].state = "WAITING" => SampledVersion(work[j])' = Failed
    BY <1>0 DEF VersionByState, Failed
  <2>3. /\ work[j].state = "FINALIZED" => SampledVersion(work[j]) = work[j].rollout_group
        /\ work[j].state = "INFLIGHT" => SampledVersion(work[j]) = rollouts[work[j].group_id]
        /\ work[j].state = "WAITING" => SampledVersion(work[j]) = Failed
    BY <1>0 DEF VersionByState
  <2> QED
    BY <2>1, <2>2, <2>3
<1>2. InBuffer' = InBuffer
  <2>1. InBuffer' = [i \in DOMAIN work |->
                        [id |-> work[i].group_id, version |-> SampledVersion(work[i])']]
    BY DEF InBuffer
  <2> QED
    BY <1>1, <2>1 DEF InBuffer
<1> QED
  BY <1>2 DEF Stream

\* The workers claim, sample and hand in: samples are taken or lost.
LEMMA Rolling ==
    ASSUME IInv, IInv', [Next]_vars, Rollout
    PROVE  Window!SampleSome \/ Window!LoseSamples \/ Stream' = Stream
<1>1. /\ UNCHANGED <<groupIndex, trainerPc, pullTask, batch, queue, ready, accumulated, taken>>
  BY DEF Rollout, RolloutGoesOn, RolloutClaim, RolloutSample, RolloutFinish, RolloutFails, HandIn,
         syncVars, inputVars, trainerVars, batcherVars
<1>2. Downstream' = Downstream
  BY <1>1 DEF Downstream, InQueue
<1>3. policyVersion' = policyVersion /\ Sync!SyncedVersion' = Sync!SyncedVersion
  BY <1>1, EndsStay
<1>4. /\ VersionByState /\ VersionByState'
      /\ \A i \in DOMAIN work :
            work[i].state = "INFLIGHT" <=> work[i].group_id \in DOMAIN rollouts
      /\ \A i, j \in DOMAIN work : work[i].group_id = work[j].group_id => i = j
  BY VersionByStateHolds, VersionByStateNext, EntryFacts DEF IInv, WorkersInv
<1>5. CASE RolloutClaim
  <2>1. PICK k \in DOMAIN work :
            Buffer!ClaimNext(k) /\ rollouts' = Extend(rollouts, work[k].group_id, Failed)
    BY <1>5 DEF RolloutClaim
  <2>2. /\ work[k].state = "WAITING" /\ work'[k].state = "INFLIGHT"
        /\ work'[k].group_id = work[k].group_id
        /\ Len(work') = Len(work) /\ DOMAIN work' = DOMAIN work
        /\ \A j \in DOMAIN work : j # k => work'[j] = work[j]
    BY <2>1, ClaimEffect
  <2>3. ASSUME NEW j \in DOMAIN work, j # k, work[j].state = "INFLIGHT"
        PROVE  rollouts'[work[j].group_id] = rollouts[work[j].group_id]
    <3>1. work[j].group_id \in DOMAIN rollouts /\ work[j].group_id # work[k].group_id
      BY <1>4, <2>3
    <3> QED
      BY <2>1, <3>1 DEF Extend
  <2>4. OnlyAt(k)
    BY <1>2, <2>2, <2>3, OneEntry
  <2>5. SampledVersion(work[k])' = rollouts'[work'[k].group_id]
    BY <1>4, <2>2 DEF VersionByState
  <2>6. rollouts'[work[k].group_id] = Failed
    BY <2>1 DEF Extend
  <2>7. SampledVersion(work[k]) = Failed
    BY <1>4, <2>2 DEF VersionByState
  <2> QED
    BY <2>2, <2>4, <2>5, <2>6, <2>7, NoNewVersion
<1>6. ASSUME NEW id \in DOMAIN rollouts, NEW g \in Generators, RolloutSample(id, g)
      PROVE  Window!SampleSome \/ Stream' = Stream
  <2>1. work' = work /\ rollouts' = [rollouts EXCEPT ![id] = genVersion[g]]
    BY <1>6 DEF RolloutSample, bufferVars
  <2>2. \A x : x # id => rollouts'[x] = rollouts[x]
    BY <2>1
  <2>3. CASE \E k \in DOMAIN work : work[k].group_id = id
    <3>1. PICK k \in DOMAIN work : work[k].group_id = id
      BY <2>3
    <3>2. OnlyAt(k)
      <4>1. \A j \in DOMAIN work : j # k => work[j].group_id # id
        BY <1>4, <3>1
      <4> QED
        BY <1>2, <2>1, <2>2, <4>1, OneEntry
    <3>3. work[k].state = "INFLIGHT"
      BY <1>4, <3>1
    <3>4. SampledVersion(work[k])' = genVersion[g]
      <4>1. SampledVersion(work[k])' = rollouts'[work[k].group_id]
        BY <1>4, <2>1, <3>3 DEF VersionByState
      <4> QED
        BY <2>1, <3>1, <4>1
    <3>5. \E i \in DOMAIN Stream : Window!Sample(i, genVersion[g])
      BY <1>1, <1>3, <3>2, <3>4, NewVersion
    <3>6. genVersion[g] \in Sync!SyncedVersion .. policyVersion
      <4>1. /\ genVersion[g] \in Nat /\ Sync!SyncedVersion <= genVersion[g]
            /\ genVersion[g] <= policyVersion
        BY StampsAreVersions
      <4>2. policyVersion \in Nat /\ Sync!SyncedVersion \in Int
        BY VersionFacts DEF IInv
      <4> QED
        BY <4>1, <4>2
    <3> QED
      BY <3>5, <3>6 DEF Window!SampleSome
  <2>4. CASE ~\E k \in DOMAIN work : work[k].group_id = id
    BY <1>2, <2>1, <2>2, <2>4, NoEntry
  <2> QED
    BY <2>3, <2>4
<1>7. ASSUME NEW id \in DOMAIN rollouts, NEW group, HandIn(id, group),
             group = rollouts[id] \/ group = Failed
      PROVE  Window!LoseSamples \/ Stream' = Stream
  <2>1. rollouts' = Without(rollouts, id)
    BY <1>7 DEF HandIn
  <2>2. \A x \in DOMAIN rollouts : x # id => rollouts'[x] = rollouts[x]
    BY <2>1 DEF Without
  <2>3. CASE \E k \in DOMAIN work : work[k].group_id = id /\ Buffer!FinalizeWork(k, group)
    <3>1. PICK k \in DOMAIN work : work[k].group_id = id /\ Buffer!FinalizeWork(k, group)
      BY <2>3
    <3>2. /\ work[k].state = "INFLIGHT" /\ work'[k].state = "FINALIZED"
          /\ work'[k].group_id = work[k].group_id /\ work'[k].rollout_group = group
          /\ Len(work') = Len(work) /\ DOMAIN work' = DOMAIN work
          /\ \A j \in DOMAIN work : j # k => work'[j] = work[j]
      BY <3>1, FinalizeEffect
    <3>3. ASSUME NEW j \in DOMAIN work, j # k, work[j].state = "INFLIGHT"
          PROVE  rollouts'[work[j].group_id] = rollouts[work[j].group_id]
      <4>1. work[j].group_id \in DOMAIN rollouts /\ work[j].group_id # id
        BY <1>4, <3>1, <3>3
      <4> QED
        BY <2>2, <4>1
    <3>4. OnlyAt(k)
      BY <1>2, <3>2, <3>3, OneEntry
    <3>5. SampledVersion(work[k])' = group
      BY <1>4, <3>2 DEF VersionByState
    <3>6. SampledVersion(work[k]) = rollouts[id]
      BY <1>4, <3>1, <3>2 DEF VersionByState
    <3>7. CASE group = rollouts[id]
      BY <3>4, <3>5, <3>6, <3>7, NoNewVersion
    <3>8. CASE group = Failed
      <4>1. \E i \in DOMAIN Stream : Window!Sample(i, group)
        BY <1>1, <1>3, <3>4, <3>5, NewVersion
      <4>2. group = Window!NotSampled
        BY <3>8 DEF Failed, Window!NotSampled
      <4> QED
        BY <4>1, <4>2 DEF Window!LoseSamples
    <3> QED
      BY <1>7, <3>7, <3>8
  <2>4. CASE (\A i \in DOMAIN work : work[i].group_id # id) /\ UNCHANGED bufferVars
    <3>1. work' = work
      BY <2>4 DEF bufferVars
    <3> QED
      BY <1>2, <1>4, <2>2, <2>4, <3>1, NoEntry
  <2> QED
    BY <1>7, <2>3, <2>4 DEF HandIn
<1> QED
  BY <1>5, <1>6, <1>7 DEF Rollout, RolloutGoesOn, RolloutFinish, RolloutFails

\* Cancelling the workers after close() changes no group of the buffer.
LEMMA Cancelling ==
    ASSUME IInv, IInv', RunCancel
    PROVE  Stream' = Stream
<1>1. UNCHANGED <<work, batch, queue, ready, accumulated, taken>> /\ closed
  BY DEF RunCancel, bufferVars, IInv, CloseInv
<1>2. Downstream' = Downstream
  BY <1>1 DEF Downstream, InQueue
<1>3. \A i \in DOMAIN work : work[i].state = "WAITING"
  BY <1>1 DEF IInv, WorkersInv
<1> QED
  BY <1>1, <1>2, <1>3, NoEntry

\* The producer admits a group when the window has room for it.
LEMMA Admitting ==
    ASSUME IInv, IInv', [Next]_vars, InputAddWork
    PROVE  Window!Admit
<1> DEFINE new == [id |-> groupIndex, version |-> Failed]
           s == Stream
           t == Stream'
           n == Len(Downstream)
           m == Len(work)
<1>0. /\ StreamShape /\ StreamShape' /\ InPlace /\ InPlace'
      /\ VersionByState /\ VersionByState'
  BY StreamFacts, StreamFactsNext, Places, PlacesNext, VersionByStateHolds, VersionByStateNext
<1>1. /\ UNCHANGED <<trainerPc, pullTask, batch, queue, ready, accumulated, taken>>
      /\ Buffer!HasActiveSlot
  BY DEF InputAddWork, Buffer!AddWork, syncVars, trainerVars, batcherVars
<1>2. Downstream' = Downstream
  BY <1>1 DEF Downstream, InQueue
<1>3. /\ Len(work') = m + 1 /\ DOMAIN work' = 1 .. m + 1
      /\ \A i \in DOMAIN work : work'[i] = work[i]
      /\ work'[m + 1] = [group_id |-> groupIndex, state |-> "WAITING", rollout_group |-> NoGroup]
      /\ groupIndex' = groupIndex + 1
      /\ UNCHANGED rollouts
  BY AddEffect
<1>4. /\ n \in Nat /\ m \in Nat /\ DOMAIN work = 1 .. m /\ groupIndex \in Nat
      /\ s \in Seq(Group) /\ t \in Seq(Group) /\ Len(s) = n + m /\ Len(t) = n + (m + 1)
  BY <1>0, <1>2, <1>3, EntryFacts DEF StreamShape
<1>5. new \in Group
  BY <1>4 DEF Group, Versions
<1>6. \A i \in 1 .. n : t[i] = s[i]
  BY <1>0, <1>2 DEF InPlace
<1>7. ASSUME NEW i \in 1 .. m
      PROVE  t[n + i] = s[n + i]
  <2>1. /\ i \in 1 .. m + 1 /\ work'[i] = work[i]
    BY <1>3, <1>4
  <2>2. SampledVersion(work[i])' = SampledVersion(work[i])
    BY <1>3, <2>1 DEF SampledVersion
  <2>3. s[n + i] = [id |-> work[i].group_id, version |-> SampledVersion(work[i])]
    BY <1>0 DEF InPlace, StreamShape
  <2>4. t[n + i] = [id |-> work'[i].group_id, version |-> SampledVersion(work[i])']
    BY <1>0, <1>2, <1>3, <2>1 DEF InPlace, StreamShape
  <2> QED
    BY <2>1, <2>2, <2>3, <2>4
<1>8. t[n + (m + 1)] = new
  <2>0. PICK k \in Nat : k = m + 1
    BY <1>4
  <2>1. k \in 1 .. Len(work') /\ k \in DOMAIN work'
    BY <1>3, <1>4, <2>0
  <2>2. work'[k].state = "WAITING" /\ work'[k].group_id = groupIndex
    <3>1. work'[k] = [group_id |-> groupIndex, state |-> "WAITING", rollout_group |-> NoGroup]
      BY <1>3, <2>0
    <3> QED
      BY <3>1
  <2>3. SampledVersion(work[k])' = Failed
    BY <1>0, <2>1, <2>2 DEF VersionByState, Failed
  <2>4. t[n + k] = [id |-> work'[k].group_id, version |-> SampledVersion(work[k])']
    BY <1>0, <1>2, <2>1 DEF InPlace, StreamShape
  <2> QED
    BY <2>0, <2>2, <2>3, <2>4
<1>9. t = Append(s, new)
  <2> HIDE DEF s, t, n, m, new
  <2>1. /\ Append(s, new) \in Seq(Group) /\ Len(Append(s, new)) = (n + m) + 1
        /\ \A i \in 1 .. n + m : Append(s, new)[i] = s[i]
        /\ Append(s, new)[(n + m) + 1] = new
    BY <1>4, <1>5, AppendProperties
  <2>2. ASSUME NEW j \in 1 .. n + (m + 1)
        PROVE  t[j] = Append(s, new)[j]
    <3>1. CASE j <= n
      <4>1. j \in 1 .. n /\ j \in 1 .. n + m
        BY <1>4, <3>1
      <4> QED
        BY <1>6, <2>1, <4>1
    <3>2. CASE ~(j <= n) /\ j <= n + m
      <4>1. j - n \in 1 .. m /\ n + (j - n) = j /\ j \in 1 .. n + m
        BY <1>4, <3>2
      <4>2. t[j] = s[j]
        BY <1>7, <4>1
      <4> QED
        BY <2>1, <4>1, <4>2
    <3>3. CASE ~(j <= n + m)
      <4>1. j = (n + m) + 1 /\ j = n + (m + 1)
        BY <1>4, <3>3
      <4> QED
        BY <1>8, <2>1, <4>1
    <3> QED
      BY <3>1, <3>2, <3>3
  <2>3. Len(Append(s, new)) = n + (m + 1)
    BY <1>4, <2>1
  <2> QED
    BY <1>4, <2>1, <2>2, <2>3, SameElements
<1>10. Len(Stream) + Window!AwaitingPublish
           < (MaxOffpolicySteps + 1) * NumGroupsPerTrainStep
  <2>1. /\ Len(work) + Len(Downstream) + oversized + Awaiting <= active
        /\ active < MaxActiveRolloutGroups
    BY <1>1 DEF IInv, SlotsInv, Buffer!HasActiveSlot
  <2>2. /\ oversized \in Nat /\ active \in Nat /\ Awaiting \in Nat
        /\ MaxActiveRolloutGroups \in Nat
    BY SizesPositive, VersionFacts DEF IInv, TypeOK
  <2>3. Window!AwaitingPublish = Awaiting
    BY DEF Window!AwaitingPublish, Awaiting
  <2>4. Len(Stream) = n + m
    BY <1>4
  <2> HIDE DEF n, m, Awaiting
  <2>5. (n + m) + Awaiting < MaxActiveRolloutGroups
    BY <1>4, <2>1, <2>2 DEF n, m
  <2> QED
    BY <2>3, <2>4, <2>5 DEF MaxActiveRolloutGroups
<1>11. policyVersion' = policyVersion /\ Sync!SyncedVersion' = Sync!SyncedVersion
  BY <1>1, EndsStay
<1>12. new = [id |-> groupIndex, version |-> Window!NotSampled]
  BY DEF Failed, Window!NotSampled
<1> QED
  BY <1>3, <1>9, <1>10, <1>11, <1>12 DEF Window!Admit

\* close() throws away what the work buffer holds.
LEMMA Closing ==
    ASSUME IInv, IInv', [Next]_vars, RunClose
    PROVE  Window!Shutdown
<1>0. StreamShape /\ StreamShape'
  BY StreamFacts, StreamFactsNext
<1>1. /\ UNCHANGED <<groupIndex, trainerPc, pullTask, batch, queue, ready, accumulated, taken>>
      /\ work' = <<>>
  BY DEF RunClose, Buffer!Close, syncVars, inputVars, trainerVars, batcherVars
<1>2. Downstream' = Downstream
  BY <1>1 DEF Downstream, InQueue
<1>3. InBuffer' = <<>>
  <2>1. InBuffer' \in Seq(Group) /\ Len(InBuffer)' = Len(work')
    BY <1>0 DEF StreamShape
  <2>2. Len(work') = 0
    BY <1>1, EmptySeq
  <2> QED
    BY <2>1, <2>2, EmptySeq
<1>4. Downstream \in Seq(Group) /\ InBuffer \in Seq(Group)
  BY <1>0 DEF StreamShape
<1>5. Stream' = Downstream
  BY <1>2, <1>3, <1>4, ConcatEmptySeq DEF Stream
<1>6. SubSeq(Stream, 1, Len(Downstream)) = Downstream
  BY <1>4, Halves DEF Stream
<1>7. Len(Downstream) \in 0 .. Len(Stream)
  <2> DEFINE n == Len(Downstream)
             m == Len(work)
  <2>1. n \in Nat /\ m \in Nat /\ Len(Stream) = n + m
    BY <1>0 DEF StreamShape
  <2> HIDE DEF n, m
  <2>2. n \in 0 .. Len(Stream)
    BY <2>1
  <2> QED
    BY <2>2 DEF n
<1>8. policyVersion' = policyVersion /\ Sync!SyncedVersion' = Sync!SyncedVersion
  BY <1>1, EndsStay
<1> QED
  BY <1>1, <1>5, <1>6, <1>7, <1>8 DEF Window!Shutdown

\* What the trainer holds is the head of the stream.
LEMMA BatchFirst ==
    ASSUME IInv
    PROVE  \E rest \in Seq(Group) :
              /\ Stream = batch \o rest
              /\ rest = (InQueue \o ready \o accumulated \o taken) \o InBuffer
<1> DEFINE r == InQueue \o ready \o accumulated \o taken
<1>1. /\ batch \in Seq(Group) /\ InQueue \in Seq(Group) /\ ready \in Seq(Group)
      /\ accumulated \in Seq(Group) /\ taken \in Seq(Group) /\ InBuffer \in Seq(Group)
  BY DownstreamFacts, StreamFacts DEF StreamShape, IInv, TypeOK
<1>2. r \in Seq(Group) /\ Downstream = batch \o r
  <2>1. r \in Seq(Group)
    BY <1>1, ConcatProperties
  <2>2. batch \o InQueue \o ready \o accumulated \o taken = batch \o r
    <3>1. HeadApart(batch, InQueue, ready, accumulated, taken)
      BY <1>1, FirstApart, Zenon
    <3> QED
      BY <3>1 DEF HeadApart
  <2> QED
    BY <2>1, <2>2, Zenon DEF Downstream
<1> HIDE DEF r
<1>3. r \o InBuffer \in Seq(Group)
  BY <1>1, <1>2, ConcatProperties
<1>4. (batch \o r) \o InBuffer = batch \o (r \o InBuffer)
  <2>1. batch \in Seq(Group) /\ r \in Seq(Group) /\ InBuffer \in Seq(Group)
    BY <1>1, <1>2
  <2> QED
    BY <2>1, ThreeInARow DEF Grouped
<1>5. Stream = batch \o (r \o InBuffer)
  BY <1>2, <1>4 DEF Stream
<1> QED
  BY <1>3, <1>5 DEF r

\* An optimizer step consumes the oldest groups, all of them sampled.
LEMMA Training ==
    ASSUME IInv, IInv', TrainerOptimStep
    PROVE  Window!Train
<1> USE WindowAssumption
<1>1. /\ UNCHANGED <<work, rollouts, groupIndex, queue, ready, accumulated, taken>>
      /\ trainerPc = "optim" /\ batch' = <<>>
  BY DEF TrainerOptimStep, bufferVars, inputVars, batcherVars
<1>2. /\ Len(batch) = NumGroupsPerTrainStep /\ AllSampled(batch) /\ batch \in Seq(Group)
  BY <1>1 DEF IInv, HandoffInv, TypeOK
<1>3. policyVersion < NumTrainingSteps
  <2>1. step = policyVersion + 1 /\ step <= NumTrainingSteps
    BY <1>1 DEF IInv, TrainerInv
  <2>2. policyVersion \in Nat
    BY VersionFacts DEF IInv
  <2> QED
    BY <2>1, <2>2, LoopAssumption
<1>4. PICK rest \in Seq(Group) :
          /\ Stream = batch \o rest
          /\ rest = (InQueue \o ready \o accumulated \o taken) \o InBuffer
  BY BatchFirst
<1>5. Stream' = rest
  <2>1. InBuffer' = InBuffer /\ InQueue' = InQueue
    BY <1>1 DEF InBuffer, SampledVersion, InQueue
  <2>2. <<>> \o InQueue = InQueue
    BY DownstreamFacts, ConcatEmptySeq DEF IInv
  <2> QED
    BY <1>1, <1>4, <2>1, <2>2 DEF Stream, Downstream
<1>6. /\ Len(Stream) = Len(batch) + Len(rest)
      /\ SubSeq(Stream, Len(batch) + 1, Len(Stream)) = rest
  BY <1>2, <1>4, Halves, Zenon
<1>7. Stream' = SubSeq(Stream, NumGroupsPerTrainStep + 1, Len(Stream))
  BY <1>2, <1>5, <1>6
<1>8. Len(Stream) >= NumGroupsPerTrainStep
  BY <1>2, <1>6, LenProperties
<1>9. \A i \in 1 .. NumGroupsPerTrainStep : Stream[i].version # Window!NotSampled
  <2>1. \A i \in 1 .. Len(batch) : Stream[i] = batch[i]
    BY <1>2, <1>4, HalvesElements
  <2>2. \A i \in 1 .. Len(batch) : batch[i].version # Failed
    BY <1>2, LenProperties DEF AllSampled
  <2> QED
    BY <1>2, <2>1, <2>2 DEF Failed, Window!NotSampled
<1>10. policyVersion' = policyVersion + 1 /\ Sync!SyncedVersion' = Sync!SyncedVersion
  BY AwaitingMore
<1> QED
  BY <1>1, <1>3, <1>7, <1>8, <1>9, <1>10 DEF Window!Train

\* A completed pull publishes a version to every generator.
LEMMA Publishing ==
    ASSUME IInv, IInv', SyncRelease
    PROVE  Window!Publish
<1>1. /\ policyVersion' = policyVersion /\ Sync!SyncedVersion' = Sync!SyncedVersion + 1
      /\ Buffer!ReleaseActiveGroups(NumGroupsPerTrainStep) /\ UNCHANGED NotSync
  BY AwaitingLess
<1>2. Sync!SyncedVersion < policyVersion
  <2>1. pullTask # "done"
    BY DEF SyncRelease, Sync!PullComplete
  <2>2. /\ policyVersion \in Nat /\ Sync!SyncedVersion \in Int
        /\ Sync!SyncedVersion + 1 <= policyVersion
    BY <2>1, VersionFacts DEF IInv
  <2> QED
    BY <2>2
<1>3. UNCHANGED <<work, rollouts, groupIndex, batch, queue, ready, accumulated, taken>>
  BY <1>1 DEF Buffer!ReleaseActiveGroups, NotSync, inputVars, batcherVars, trainerVars
<1>4. Stream' = Stream
  BY <1>3 DEF Stream, Downstream, InQueue, InBuffer, SampledVersion
<1> QED
  BY <1>1, <1>2, <1>3, <1>4 DEF Window!Publish

-----------------------------------------------------------------------------
(* The loop and the window.                                                *)

\* Every step of the loop is a step of the window, or one it does not see.
LEMMA WindowRefines == IInv /\ IInv' /\ [Next]_vars => [Window!Next]_(Window!vars)
<1> SUFFICES ASSUME IInv, IInv', [Next]_vars
             PROVE  Window!Next \/ UNCHANGED Window!vars
  OBVIOUS
\* A step that leaves the groups and both ends of the window alone.
<1>1. ASSUME UNCHANGED <<work, rollouts, groupIndex, batch, InQueue, ready, accumulated, taken>>,
             ~TrainerOptimStep, ~SyncRelease
      PROVE  UNCHANGED Window!vars
  <2>1. Stream' = Stream
    BY <1>1 DEF Stream, Downstream, InBuffer, SampledVersion
  <2> QED
    BY <1>1, <2>1, Invisible
<1> USE DEF bufferVars, inputVars, batcherVars, trainerVars
<1>2. CASE InputWaitForSlot \/ InputCrashes
  <2>1. /\ UNCHANGED <<work, rollouts, groupIndex, batch, queue, ready, accumulated, taken>>
        /\ UNCHANGED <<trainerPc, pullTask>>
    BY <1>2 DEF InputWaitForSlot, InputCrashes, syncVars
  <2> QED
    BY <1>1, <2>1, EndsStay DEF InQueue
<1>3. CASE InputAddWork
  BY <1>3, Admitting DEF Window!Next
<1>4. CASE Rollout
  <2>1. Window!SampleSome \/ Window!LoseSamples \/ Stream' = Stream
    BY <1>4, Rolling
  <2>2. UNCHANGED <<groupIndex, trainerPc, pullTask>>
    BY <1>4 DEF Rollout, RolloutGoesOn, RolloutClaim, RolloutSample, RolloutFinish, RolloutFails,
                HandIn, syncVars
  <2> QED
    BY <2>1, <2>2, EndsStay, Invisible DEF Window!Next
<1>5. CASE BatcherTake
  <2>1. UNCHANGED <<groupIndex, trainerPc, pullTask>>
    BY <1>5 DEF BatcherTake, syncVars
  <2> QED
    BY <1>5, <2>1, Taking, EndsStay, Invisible
<1>6. CASE BatcherBuild
  <2>1. UNCHANGED <<groupIndex, trainerPc, pullTask>>
    BY <1>6 DEF BatcherBuild, Buffer!ReleaseActiveGroups, syncVars
  <2> QED
    BY <1>6, <2>1, Building, EndsStay, Invisible DEF Window!Next
<1>7. CASE BatcherPack
  <2>1. UNCHANGED <<groupIndex, trainerPc, pullTask>>
    BY <1>7 DEF BatcherPack, syncVars
  <2> QED
    BY <1>7, <2>1, Packing, EndsStay, Invisible DEF Window!Next
<1>8. CASE BatcherPut
  <2>1. UNCHANGED <<groupIndex, trainerPc, pullTask>>
    BY <1>8 DEF BatcherPut, syncVars
  <2> QED
    BY <1>8, <2>1, PassingOn, EndsStay, Invisible
<1>9. CASE BatcherClosed \/ BatcherPutStop \/ BatcherRaises
  <2>1. /\ UNCHANGED <<work, rollouts, groupIndex, batch, ready, accumulated, taken>>
        /\ UNCHANGED <<trainerPc, pullTask>>
        /\ queue' = queue \/ (queue = <<>> /\ queue' = <<Stop>>)
    BY <1>9 DEF BatcherClosed, BatcherPutStop, BatcherRaises, syncVars
  <2>2. InQueue' = InQueue
    BY <2>1 DEF InQueue, Stop
  <2> QED
    BY <1>1, <2>1, <2>2, EndsStay
<1>10. CASE TrainerGet
  <2>1. UNCHANGED <<groupIndex, pullTask>> /\ trainerPc = "get"
    BY <1>10 DEF TrainerGet, syncVars
  <2>2. ~TrainerOptimStep /\ ~SyncRelease
    BY <2>1 DEF TrainerOptimStep, SyncRelease, Sync!PullComplete, Sync!PullReturns
  <2> QED
    BY <1>10, <2>1, <2>2, PassingOn, Invisible
<1>11. CASE TrainerOptimStep
  BY <1>11, Training DEF Window!Next
<1>12. CASE Trainer /\ ~TrainerGet /\ ~TrainerOptimStep
  <2>1. /\ UNCHANGED <<work, rollouts, groupIndex, batch, queue, ready, accumulated, taken>>
        /\ pullTask' \in {pullTask, "wait_push"}
    BY <1>12
       DEF Trainer, TrainerWaits, TrainerCalls, TrainerRaises, TrainerForwardBackward,
           TrainerWaitPush, TrainerWaitPull, Sync!StartAsyncPushPull, Buffer!FlushMetrics,
           TrainerSaveCheckpoint, TrainerFinalPush, TrainerFinalPull, syncVars
  <2>2. ~SyncRelease
    BY <2>1 DEF SyncRelease, Sync!PullComplete, Sync!PullReturns
  <2> QED
    BY <1>1, <1>12, <2>1, <2>2 DEF InQueue
<1>13. CASE SyncRelease
  BY <1>13, Publishing DEF Window!Next
<1>14. CASE SyncPush \/ SyncPullBegin \/ SyncPullOne \/ SyncFails
  <2>1. /\ UNCHANGED <<work, rollouts, groupIndex, batch, queue, ready, accumulated, taken>>
        /\ trainerPc' = trainerPc
    BY <1>14 DEF SyncPush, SyncPullBegin, SyncPullOne, SyncFails, NotSync
  <2>2. ~TrainerOptimStep
    BY <2>1 DEF TrainerOptimStep
  <2>3. CASE ~SyncRelease
    BY <1>1, <2>1, <2>2, <2>3 DEF InQueue
  <2> QED
    BY <1>13, <2>3
<1>15. CASE RunClose
  BY <1>15, Closing DEF Window!Next
<1>16. CASE RunCancel
  <2>1. UNCHANGED <<groupIndex, pullTask>> /\ trainerPc' \in {trainerPc, "cancelled"}
    BY <1>16 DEF RunCancel, Cancelled, syncVars
  <2> QED
    BY <1>16, <2>1, Cancelling, EndsStay, Invisible
<1>17. CASE RunWakes \/ Terminated \/ Starved \/ UNCHANGED vars
  <2>1. /\ UNCHANGED <<work, rollouts, groupIndex, batch, queue, ready, accumulated, taken>>
        /\ UNCHANGED <<trainerPc, pullTask>>
    BY <1>17 DEF RunWakes, Terminated, Starved, vars, syncVars
  <2> QED
    BY <1>1, <2>1, EndsStay DEF InQueue
<1> QED
  BY <1>2, <1>3, <1>4, <1>5, <1>6, <1>7, <1>8, <1>9, <1>10, <1>11, <1>12, <1>13, <1>14, <1>15,
     <1>16, <1>17
     DEF Next, Input, Batching, PushPull, Run

LEMMA InitWindow == Init => Window!Init
<1> SUFFICES ASSUME Init
             PROVE  Window!Init
  OBVIOUS
<1>1. /\ work = <<>> /\ batch = <<>> /\ queue = <<>> /\ ready = <<>> /\ accumulated = <<>>
      /\ taken = <<>> /\ groupIndex = 0
  BY DEF Init, Buffer!BufferInit
<1>2. InBuffer = <<>>
  BY <1>1 DEF InBuffer
<1>3. Stream = <<>>
  <2>1. InQueue = <<>>
    BY <1>1 DEF InQueue
  <2>2. <<>> \o <<>> = <<>>
    BY EmptySeq, ConcatEmptySeq
  <2> QED
    BY <1>1, <1>2, <2>1, <2>2 DEF Stream, Downstream
<1>4. policyVersion = StartStep /\ Sync!SyncedVersion = StartStep
  BY DEF Init, Sync!SyncInit, Sync!SyncedVersion
<1> QED
  BY <1>1, <1>3, <1>4 DEF Window!Init

\* Whatever the loops do and whatever raises, rank 0 of every generator samples
\* with the weights whose version it stamps, and reads no key that a push writes.
THEOREM StampsHold == Spec => []StampIsTrue
<1>1. IInv => SyncP!StampIsTrue
  <2> SUFFICES ASSUME IInv
               PROVE  SyncP!StampIsTrue
    OBVIOUS
  <2>1. SyncP!IInv
    BY DEF IInv
  <2> QED
    BY <2>1 DEF SyncP!IInv, SyncP!StampIsTrue
<1>2. SyncP!StampIsTrue => StampIsTrue
  BY DEF SyncP!StampIsTrue, StampIsTrue, Sync!StampIsTrue
<1> QED
  BY <1>1, <1>2, Invariance, PTL

\* Rank 0 of every generator is on the version whose slots were released or a
\* later one, and the trainer at most two optimizer steps ahead of it.
THEOREM GeneratorsKeepUp == Spec => []GeneratorsFollow
<1>1. IInv => SyncP!GeneratorsFollow
  <2>1. IInv => SyncP!IInv
    BY DEF IInv
  <2> QED
    BY <2>1, SyncP!FollowsFromIInv, PartsAssumption DEF SyncP!FollowsFromIInv
<1>2. SyncP!GeneratorsFollow => GeneratorsFollow
  BY DEF SyncP!GeneratorsFollow, GeneratorsFollow, Sync!GeneratorsFollow,
         SyncP!SyncedVersion, Sync!SyncedVersion
<1> QED
  BY <1>1, <1>2, Invariance, PTL

\* The five loops, the queue and the two tasks of the weight sync amount to one
\* stream of groups with a window on it, for every window, batch size, number of
\* steps and set of generators.
THEOREM WindowImplemented == Spec => ImplementsWindow
<1>1. []IInv /\ [][Next]_vars => [][Window!Next]_(Window!vars)
  BY WindowRefines, PTL
<1> QED
  BY <1>1, InitWindow, Invariance, PTL DEF Spec, ImplementsWindow, Window!Spec

\* So what is proved of the window holds of the loop: at consumption no sample
\* lags the trainer by more than max_offpolicy_steps, although no step of the
\* loop looks at the age of a group.
THEOREM NoStaleSamples == Spec => []PolicyAgeBounded
<1>1. Window!Init => SyncP!Window!Init
  BY DEF Window!Init, SyncP!Window!Init
<1>2. [Window!Next]_(Window!vars) => [SyncP!Window!Next]_(SyncP!Window!vars)
  BY DEF Window!vars, SyncP!Window!vars, Window!Next, SyncP!Window!Next, Window!Admit,
         SyncP!Window!Admit, Window!AwaitingPublish, SyncP!Window!AwaitingPublish,
         Window!NotSampled, SyncP!Window!NotSampled, Window!SampleSome, SyncP!Window!SampleSome,
         Window!LoseSamples, SyncP!Window!LoseSamples, Window!Sample, SyncP!Window!Sample,
         Window!Drop, SyncP!Window!Drop, Window!Shutdown, SyncP!Window!Shutdown, Window!Train,
         SyncP!Window!Train, Window!Publish, SyncP!Window!Publish
<1>3. Spec => SyncP!Window!Spec
  <2>1. Spec => Window!Spec
    BY WindowImplemented DEF ImplementsWindow
  <2> QED
    BY <1>1, <1>2, <2>1, PTL DEF Window!Spec, SyncP!Window!Spec
<1>4. Spec => []SyncP!Window!NextBatchFresh
  <2>1. SyncP!Window!WindowAssumption
    BY WindowAssumption DEF SyncP!Window!WindowAssumption
  <2> QED
    BY <1>3, <2>1, SyncP!Freshness, PartsAssumption, PTL DEF SyncP!Freshness
<1>5. IInv /\ SyncP!Window!NextBatchFresh => PolicyAgeBounded
  <2> SUFFICES ASSUME IInv, SyncP!Window!NextBatchFresh,
                      trainerPc \in {"fwd", "wait_push", "optim"}, NEW i \in DOMAIN batch
               PROVE  policyVersion - batch[i].version <= MaxOffpolicySteps
    BY DEF PolicyAgeBounded
  <2>1. /\ Len(batch) = NumGroupsPerTrainStep /\ AllSampled(batch) /\ batch \in Seq(Group)
    BY DEF IInv, HandoffInv, TypeOK
  <2>2. i \in 1 .. Len(batch) /\ batch[i].version # Failed
    BY <2>1, LenProperties DEF AllSampled
  <2>3. PICK rest \in Seq(Group) : Stream = batch \o rest
    BY BatchFirst
  <2>4. Stream[i] = batch[i]
    BY <2>1, <2>2, <2>3, HalvesElements
  <2>5. i \in DOMAIN Stream /\ i <= NumGroupsPerTrainStep
    <3> DEFINE n == Len(batch)
               m == Len(rest)
    <3>1. n \in Nat /\ m \in Nat /\ DOMAIN Stream = 1 .. n + m
      BY <2>1, <2>3, HalvesElements
    <3>2. i \in 1 .. n
      BY <2>2
    <3> HIDE DEF n, m
    <3>3. i \in 1 .. n + m /\ i <= n
      BY <3>1, <3>2
    <3> QED
      BY <2>1, <3>1, <3>3 DEF n
  <2>6. Stream[i].version # SyncP!Window!NotSampled
    BY <2>2, <2>4 DEF Failed, SyncP!Window!NotSampled
  <2>7. policyVersion - Stream[i].version <= MaxOffpolicySteps
    BY <2>5, <2>6 DEF SyncP!Window!NextBatchFresh
  <2> QED
    BY <2>4, <2>7
<1> QED
  BY <1>4, <1>5, Invariance, PTL
=============================================================================
