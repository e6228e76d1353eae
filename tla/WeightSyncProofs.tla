-------------------------- MODULE WeightSyncProofs --------------------------
(***************************************************************************)
(* The parts of the asynchronous RL loop: the weight sync for every set of *)
(* generators and every number of steps, and below it the off-policy       *)
(* window and the work buffer.                                             *)
(*                                                                         *)
(* IInv says what a finished or a running task guarantees: a push that is  *)
(* done has left the announced version under the key, a pull reads only    *)
(* then, a generator outside the pull under way has either version, and    *)
(* the trainer is at most one step past the announced version.             *)
(***************************************************************************)
EXTENDS WeightSync, WorkBuffer, SequenceTheorems, TLAPS

CONSTANTS MaxOffpolicySteps, NumGroupsPerTrainStep   \* of the window
VARIABLES stream, trained, published, admitted       \* of the window

Window == INSTANCE OffPolicyWindow

\* The push task, the key and the version announced with it.
PushInv ==
    /\ pushTask # "torn"
    /\ pushTask = "done" => store = syncVersion
    /\ pushTask # "done" => reading = {} /\ pullTask \in {"wait_push", "failed"}
    /\ pushTask \in {"ready", "writing"} => pullTask = "wait_push"
    /\ pushTask \in {"ready", "writing"} => policyVersion = syncVersion

\* The pull task and the generators it has served.
PullInv ==
    /\ pullTask \in {"wait_push", "done"} => reading = {}
    /\ pullTask \in {"pulling", "done"} => pushTask = "done"
    /\ pullTask = "pulling" => \A g \in Generators \ reading : genVersion[g] = syncVersion
    /\ pullTask = "done" => \A g \in Generators : genVersion[g] = syncVersion
    /\ \A g \in Generators : genVersion[g] \in {syncVersion - 1, syncVersion}

\* The trainer runs at most one step past the version it announced.
AheadInv == policyVersion \in {syncVersion, syncVersion + 1}

IInv == SyncTypeOK /\ PushInv /\ PullInv /\ AheadInv /\ StampIsTrue

LEMMA InitIInv == SyncAssumption /\ SyncInit => IInv
<1> SUFFICES ASSUME SyncAssumption
             PROVE  SyncInit => IInv
  OBVIOUS
<1> USE DEF SyncAssumption, SyncInit, SyncTypeOK, PushInv, PullInv, AheadInv, StampIsTrue
<1>1. SyncInit => SyncTypeOK
  OBVIOUS
<1>2. SyncInit => PushInv /\ AheadInv
  OBVIOUS
<1>3. SyncInit => PullInv /\ StampIsTrue
  OBVIOUS
<1>4. QED
  BY <1>1, <1>2, <1>3 DEF IInv

LEMMA NextIInv == IInv /\ [SyncNext]_syncVars => IInv'
<1> SUFFICES ASSUME IInv, [SyncNext]_syncVars
             PROVE  IInv'
  OBVIOUS
<1> USE DEF IInv, SyncTypeOK, PushInv, PullInv, AheadInv, StampIsTrue
<1>1. CASE Optim
  BY <1>1 DEF Optim, OptimStep
<1>2. CASE Start
  BY <1>2 DEF Start, StartAsyncPushPull
<1>3. CASE PushBegin
  BY <1>3 DEF PushBegin, Torn
<1>4. CASE PushEnd
  BY <1>4 DEF PushEnd
<1>5. CASE PushFails
  BY <1>5 DEF PushFails
<1>6. CASE PullBegin
  BY <1>6 DEF PullBegin
<1>7. ASSUME NEW g \in Generators, PullOne(g)
      PROVE  IInv'
  BY <1>7 DEF PullOne
<1>8. ASSUME NEW g \in Generators, PullFails(g)
      PROVE  IInv'
  BY <1>8 DEF PullFails
<1>9. CASE PullComplete /\ PullReturns
  BY <1>9 DEF PullComplete, PullReturns
<1>10. CASE UNCHANGED syncVars
  BY <1>10 DEF syncVars
<1>11. QED
  BY <1>1, <1>2, <1>3, <1>4, <1>5, <1>6, <1>7, <1>8, <1>9, <1>10 DEF SyncNext, Push, Pull

\* Every variable keeps its type.
THEOREM SyncTyping == SyncAssumption /\ SyncSpec => []SyncTypeOK
<1>1. IInv => SyncTypeOK
  BY DEF IInv
<1>2. QED
  BY InitIInv, NextIInv, <1>1, PTL DEF SyncSpec

\* Rank 0 of every generator, which answers the pull and stamps the minimum
\* version, samples with the weights of its version and reads the key only when
\* no push writes it, for any number of generators and however push, pull and
\* optimizer step overlap or fail.  Of its peers this says nothing: see
\* LabelsHold in GeneratorEngineProofs.
THEOREM Stamps == SyncAssumption /\ SyncSpec => []StampIsTrue
<1>1. IInv => StampIsTrue
  BY DEF IInv
<1>2. QED
  BY InitIInv, NextIInv, <1>1, PTL DEF SyncSpec

\* What the rank 0s have done places them between the version whose slots were
\* released and the trainer's.
LEMMA FollowsFromIInv == IInv => GeneratorsFollow
<1> SUFFICES ASSUME IInv, NEW g \in Generators
             PROVE  /\ SyncedVersion <= genVersion[g]
                    /\ genVersion[g] <= policyVersion
                    /\ policyVersion <= SyncedVersion + 2
  BY DEF GeneratorsFollow
<1>1. syncVersion \in Nat /\ policyVersion \in {syncVersion, syncVersion + 1}
  BY DEF IInv, SyncTypeOK, AheadInv
<1>2. genVersion[g] \in {syncVersion - 1, syncVersion}
  BY DEF IInv, PullInv
<1>3. pullTask = "done" => genVersion[g] = syncVersion
  BY DEF IInv, PullInv
<1>4. QED
  BY <1>1, <1>2, <1>3 DEF SyncedVersion

\* The rank 0s stay between the version whose slots were released and the
\* trainer's, which is at most two steps further.
THEOREM Following == SyncAssumption /\ SyncSpec => []GeneratorsFollow
BY InitIInv, NextIInv, FollowsFromIInv, PTL DEF SyncSpec

\* No pull takes a rank 0 back to an older version.
THEOREM Monotone == SyncAssumption /\ SyncSpec => VersionsNeverRegress
<1>1. IInv /\ [SyncNext]_syncVars => [\A g \in Generators : genVersion'[g] >= genVersion[g]]_syncVars
  <2> SUFFICES ASSUME IInv, SyncNext, NEW g \in Generators
               PROVE  genVersion'[g] >= genVersion[g]
    OBVIOUS
  <2>1. /\ genVersion \in [Generators -> Nat] /\ syncVersion \in Nat
        /\ genVersion[g] \in {syncVersion - 1, syncVersion} /\ genVersion[g] \in Nat
    BY DEF IInv, SyncTypeOK, PullInv
  <2>2. CASE genVersion' = genVersion
    BY <2>1, <2>2
  <2>3. CASE \E h \in Generators : PullOne(h)
    BY <2>1, <2>3 DEF PullOne
  <2>4. QED
    BY <2>2, <2>3 DEF SyncNext, Push, Pull, Optim, OptimStep, Start, StartAsyncPushPull,
                      PushBegin, PushEnd, PushFails, PullBegin, PullFails, PullComplete,
                      PullReturns
<1>2. QED
  BY InitIInv, NextIInv, <1>1, PTL DEF SyncSpec, VersionsNeverRegress

-----------------------------------------------------------------------------
(***************************************************************************)
(* The window of OffPolicyWindow bounds the policy age for every value of  *)
(* max_offpolicy_steps and num_groups_per_train_step.                      *)
(*                                                                         *)
(* WithinWindow and EveryGroupOnTime are inductive together.  A group that *)
(* is sampled now gets a version no older than the last published one, and *)
(* WithinWindow says that its place in the stream is near enough for it;   *)
(* from then on its place and the trainer's version move together, because *)
(* a train step shortens the stream by exactly the groups it consumes.     *)
(***************************************************************************)

\* More slots for more versions: the only fact about products the proofs use.
LEMMA ProductMonotone ==
    ASSUME NEW a \in Int, NEW b \in Int, NEW n \in Nat, a <= b
    PROVE  a * n <= b * n
  <1>1. PICK d \in Nat : b = a + d
    <2>1. b - a \in Nat /\ b = a + (b - a)
        OBVIOUS
    <2> QED BY <2>1
  <1>2. b * n = a * n + d * n /\ d * n \in Nat
      BY <1>1
  <1> QED BY <1>2

WindowInv ==
    /\ Window!WindowAssumption
    /\ Window!TypeOK /\ Window!WithinWindow /\ Window!EveryGroupOnTime

LEMMA WindowInit == Window!WindowAssumption /\ Window!Init => WindowInv
  <1> SUFFICES ASSUME Window!WindowAssumption, Window!Init PROVE WindowInv
      OBVIOUS
  <1> USE DEF Window!WindowAssumption
  <1>1. stream = <<>> /\ Len(stream) = 0 /\ DOMAIN stream = {} /\ <<>> \in Seq(Window!Group)
      BY DEF Window!Init
  <1>2. Window!TypeOK
      BY <1>1 DEF Window!Init, Window!TypeOK
  <1>3. Window!WithinWindow
    <2>1. Window!AwaitingPublish = 0
        BY DEF Window!Init, Window!AwaitingPublish
    <2>2. (MaxOffpolicySteps + 1) * NumGroupsPerTrainStep \in Nat
        OBVIOUS
    <2> QED BY <1>1, <2>1, <2>2 DEF Window!WithinWindow
  <1>4. Window!EveryGroupOnTime
      BY <1>1 DEF Window!EveryGroupOnTime
  <1> QED BY <1>2, <1>3, <1>4 DEF WindowInv

\* A stream that loses groups keeps the invariant: what stays comes no later.
LEMMA ShorterStream ==
    ASSUME WindowInv,
           trained' = trained, published' = published, admitted' = admitted,
           stream' \in Seq(Window!Group), Len(stream') <= Len(stream),
           \A i \in DOMAIN stream' : \E j \in DOMAIN stream : i <= j /\ stream'[i] = stream[j]
    PROVE  WindowInv'
  <1>0. Window!WindowAssumption
      BY DEF WindowInv
  <1> USE <1>0 DEF Window!WindowAssumption
  <1>1. Window!TypeOK'
      BY DEF WindowInv, Window!TypeOK
  <1>2. Window!WithinWindow'
    <2>1. Window!AwaitingPublish' = Window!AwaitingPublish /\ Window!AwaitingPublish \in Nat
        BY DEF Window!AwaitingPublish, WindowInv, Window!TypeOK
    <2> QED BY <2>1 DEF WindowInv, Window!TypeOK, Window!WithinWindow
  <1>3. Window!EveryGroupOnTime'
    <2> SUFFICES ASSUME NEW i \in DOMAIN stream', stream'[i].version # Window!NotSampled
                 PROVE  trained * NumGroupsPerTrainStep + i - 1
                            < (stream'[i].version + MaxOffpolicySteps + 1) * NumGroupsPerTrainStep
        BY DEF Window!EveryGroupOnTime
    <2>1. PICK j \in DOMAIN stream : i <= j /\ stream'[i] = stream[j]
        OBVIOUS
    <2>2. trained * NumGroupsPerTrainStep + j - 1
              < (stream[j].version + MaxOffpolicySteps + 1) * NumGroupsPerTrainStep
        BY <2>1 DEF WindowInv, Window!EveryGroupOnTime
    <2>3. i \in Int /\ j \in Int /\ stream[j] \in Window!Group
        BY LenProperties, ElementOfSeq DEF WindowInv, Window!TypeOK
    <2>4. stream[j].version + MaxOffpolicySteps + 1 \in Int /\ trained \in Int
        <3>1. stream[j].version \in Nat \cup {Window!NotSampled}
            BY <2>3 DEF Window!Group
        <3>2. stream[j].version \in Int /\ MaxOffpolicySteps \in Int /\ trained \in Int
            BY <3>1 DEF WindowInv, Window!TypeOK, Window!NotSampled
        <3> QED BY <3>2
    <2>5. /\ trained * NumGroupsPerTrainStep \in Int
          /\ (stream[j].version + MaxOffpolicySteps + 1) * NumGroupsPerTrainStep \in Int
        BY <2>4
    <2> QED BY <2>1, <2>2, <2>3, <2>5
  <1> QED BY <1>1, <1>2, <1>3 DEF WindowInv

\* Admission: the guard keeps the window, and a group without samples is in
\* nobody's way.
LEMMA AdmitKeeps == WindowInv /\ Window!Admit => WindowInv'
  <1> SUFFICES ASSUME WindowInv, Window!Admit PROVE WindowInv'
      OBVIOUS
  <1>0. Window!WindowAssumption
      BY DEF WindowInv
  <1> USE <1>0 DEF Window!WindowAssumption
  <1> DEFINE new == [id |-> admitted, version |-> Window!NotSampled]
  <1>1. new \in Window!Group /\ stream \in Seq(Window!Group) /\ stream' = Append(stream, new)
      BY DEF Window!Admit, WindowInv, Window!TypeOK, Window!Group
  <1>2. stream' \in Seq(Window!Group) /\ Len(stream') = Len(stream) + 1
      BY <1>1, AppendProperties
  <1>3. \A i \in DOMAIN stream' :
            stream'[i].version # Window!NotSampled => i \in DOMAIN stream /\ stream'[i] = stream[i]
      BY <1>1, AppendProperties DEF Window!NotSampled
  <1>4. Window!TypeOK'
      BY <1>2 DEF Window!Admit, WindowInv, Window!TypeOK
  <1>5. Window!WithinWindow'
    <2>1. Window!AwaitingPublish' = Window!AwaitingPublish /\ Window!AwaitingPublish \in Nat
        BY DEF Window!AwaitingPublish, Window!Admit, WindowInv, Window!TypeOK
    <2>2. (MaxOffpolicySteps + 1) * NumGroupsPerTrainStep \in Nat
        OBVIOUS
    <2> QED BY <1>1, <1>2, <2>1, <2>2 DEF Window!Admit, Window!WithinWindow
  <1>6. Window!EveryGroupOnTime'
      BY <1>3 DEF Window!Admit, WindowInv, Window!EveryGroupOnTime
  <1> QED BY <1>4, <1>5, <1>6 DEF WindowInv

\* A sample: WithinWindow places the group, the published version ages it.
LEMMA SampleKeeps ==
    ASSUME WindowInv, NEW k \in DOMAIN stream, NEW v \in Int, Window!Sample(k, v),
           v = Window!NotSampled \/ v \in published .. trained
    PROVE  WindowInv'
  <1>0. Window!WindowAssumption
      BY DEF WindowInv
  <1> USE <1>0 DEF Window!WindowAssumption
  <1> DEFINE G == NumGroupsPerTrainStep
             sampled == [stream[k] EXCEPT !.version = v]
  <1>1. /\ stream \in Seq(Window!Group) /\ trained \in Nat /\ published \in Nat
        /\ published <= trained /\ admitted \in Nat
        /\ k \in 1 .. Len(stream) /\ stream[k] \in Window!Group
      BY LenProperties, ElementOfSeq DEF WindowInv, Window!TypeOK
  <1>2. sampled \in Window!Group /\ sampled.version = v
      BY <1>1 DEF Window!Group
  <1>3. stream' = [stream EXCEPT ![k] = sampled]
      BY DEF Window!Sample
  <1> HIDE DEF sampled
  <1>4. stream' \in Seq(Window!Group) /\ Len(stream') = Len(stream) /\ DOMAIN stream' = DOMAIN stream
      BY <1>1, <1>2, <1>3, ExceptSeq
  <1>5. \A i \in DOMAIN stream : stream'[i] = IF i = k THEN sampled ELSE stream[i]
      BY <1>1, <1>2, <1>3, ExceptSeq
  <1>6. Window!TypeOK'
      BY <1>1, <1>4 DEF Window!Sample, Window!TypeOK
  <1>7. Window!WithinWindow'
      BY <1>4 DEF Window!Sample, WindowInv, Window!WithinWindow, Window!AwaitingPublish
  <1>8. Window!EveryGroupOnTime'
    <2> SUFFICES ASSUME NEW i \in DOMAIN stream', stream'[i].version # Window!NotSampled
                 PROVE  trained * G + i - 1 < (stream'[i].version + MaxOffpolicySteps + 1) * G
        BY DEF Window!Sample, Window!EveryGroupOnTime
    <2>1. CASE i # k
        BY <2>1, <1>4, <1>5 DEF WindowInv, Window!EveryGroupOnTime
    <2>2. CASE i = k
      <3>1. stream'[i].version = v /\ v >= published /\ v \in Nat
          BY <2>2, <1>1, <1>2, <1>4, <1>5
      <3>2. i <= Len(stream) /\ i \in Nat /\ Len(stream) \in Nat
          BY <1>1, <1>4
      <3>3. Len(stream) + G * (trained - published) <= (MaxOffpolicySteps + 1) * G
          BY DEF WindowInv, Window!WithinWindow, Window!AwaitingPublish
      <3>4. G * (trained - published) = trained * G - published * G
          BY <1>1
      <3>5. (published + MaxOffpolicySteps + 1) * G = published * G + (MaxOffpolicySteps + 1) * G
          BY <1>1
      <3>6. /\ trained * G \in Nat /\ published * G \in Nat
            /\ (MaxOffpolicySteps + 1) * G \in Nat
            /\ (v + MaxOffpolicySteps + 1) * G \in Nat
          BY <1>1, <3>1
      <3>7. (published + MaxOffpolicySteps + 1) * G <= (v + MaxOffpolicySteps + 1) * G
        <4> DEFINE a == published + MaxOffpolicySteps + 1
                   b == v + MaxOffpolicySteps + 1
        <4>1. a \in Int /\ b \in Int /\ a <= b /\ G \in Nat
            BY <1>1, <3>1
        <4> HIDE DEF a, b
        <4>2. a * G <= b * G
            BY <4>1, ProductMonotone
        <4> QED BY <4>2 DEF a, b
      <3>8. trained * G + i - 1 < published * G + (MaxOffpolicySteps + 1) * G
        <4> DEFINE x == trained * G
                   y == published * G
                   w == (MaxOffpolicySteps + 1) * G
        <4>1. x \in Nat /\ y \in Nat /\ w \in Nat /\ Len(stream) + (x - y) <= w
            BY <3>3, <3>4, <3>6
        <4> HIDE DEF x, y, w
        <4>2. x + i - 1 < y + w
            BY <4>1, <3>2
        <4> QED BY <4>2 DEF x, y, w
      <3> QED BY <3>1, <3>2, <3>5, <3>6, <3>7, <3>8, SMTT(30)
    <2> QED BY <2>1, <2>2
  <1> QED BY <1>6, <1>7, <1>8 DEF WindowInv

\* Consumption: positions move down by one step as the version moves up.
LEMMA TrainKeeps == WindowInv /\ Window!Train => WindowInv'
  <1> SUFFICES ASSUME WindowInv, Window!Train PROVE WindowInv'
      OBVIOUS
  <1>0. Window!WindowAssumption
      BY DEF WindowInv
  <1> USE <1>0 DEF Window!WindowAssumption
  <1> DEFINE G == NumGroupsPerTrainStep
  <1>1. /\ stream \in Seq(Window!Group) /\ trained \in Nat /\ published \in Nat
        /\ published <= trained /\ admitted \in Nat /\ Len(stream) \in Nat /\ G <= Len(stream)
        /\ G \in Nat /\ trained' = trained + 1 /\ published' = published
      BY LenProperties DEF WindowInv, Window!TypeOK, Window!Train
  <1>2. stream' = SubSeq(stream, G + 1, Len(stream))
      BY DEF Window!Train
  <1>3. /\ stream' \in Seq(Window!Group)
        /\ Len(stream') = Len(stream) - G
        /\ \A i \in DOMAIN stream' : i + G \in DOMAIN stream /\ stream'[i] = stream[i + G]
    <2>1. \A i \in (G + 1) .. Len(stream) : stream[i] \in Window!Group
        BY <1>1, ElementOfSeq
    <2> QED BY <1>1, <1>2, <2>1, SubSeqProperties
  <1>4. Window!TypeOK'
      BY <1>1, <1>3 DEF Window!Train, Window!TypeOK
  <1>5. Window!WithinWindow'
    <2>1. Window!AwaitingPublish' = Window!AwaitingPublish + G
      <3>1. G * ((trained + 1) - published) = G * (trained - published) + G
          BY <1>1
      <3> QED BY <3>1, <1>1 DEF Window!AwaitingPublish
    <2>2. Window!AwaitingPublish \in Int
        BY <1>1 DEF Window!AwaitingPublish
    <2>3. (MaxOffpolicySteps + 1) * G \in Nat
        BY <1>1
    <2> QED BY <1>1, <1>3, <2>1, <2>2, <2>3 DEF WindowInv, Window!WithinWindow
  <1>6. Window!EveryGroupOnTime'
    <2> SUFFICES ASSUME NEW i \in DOMAIN stream', stream'[i].version # Window!NotSampled
                 PROVE  (trained + 1) * G + i - 1
                            < (stream'[i].version + MaxOffpolicySteps + 1) * G
        BY <1>1 DEF Window!EveryGroupOnTime
    <2>1. /\ i \in Int /\ stream'[i] = stream[i + G]
          /\ trained * G + (i + G) - 1 < (stream[i + G].version + MaxOffpolicySteps + 1) * G
        BY <1>3, LenProperties DEF WindowInv, Window!EveryGroupOnTime
    <2>2. (trained + 1) * G = trained * G + G /\ trained * G \in Int
        BY <1>1
    <2> QED BY <1>1, <2>1, <2>2
  <1> QED BY <1>4, <1>5, <1>6 DEF WindowInv

\* Publication only makes room.
LEMMA PublishKeeps == WindowInv /\ Window!Publish => WindowInv'
  <1> SUFFICES ASSUME WindowInv, Window!Publish PROVE WindowInv'
      OBVIOUS
  <1>0. Window!WindowAssumption
      BY DEF WindowInv
  <1> USE <1>0 DEF Window!WindowAssumption
  <1> DEFINE G == NumGroupsPerTrainStep
  <1>1. /\ stream \in Seq(Window!Group) /\ trained \in Nat /\ published \in Nat /\ G \in Nat
        /\ published < trained /\ Len(stream) \in Nat /\ trained' = trained
        /\ published' = published + 1 /\ stream' = stream
      BY LenProperties DEF WindowInv, Window!TypeOK, Window!Publish
  <1>2. Window!TypeOK'
      BY <1>1 DEF WindowInv, Window!TypeOK, Window!Publish
  <1>3. Window!WithinWindow'
    <2>1. G * (trained - (published + 1)) = G * (trained - published) - G
        BY <1>1
    <2>2. G * (trained - published) \in Int /\ (MaxOffpolicySteps + 1) * G \in Int
        BY <1>1
    <2> QED BY <1>1, <2>1, <2>2 DEF WindowInv, Window!WithinWindow, Window!AwaitingPublish
  <1>4. Window!EveryGroupOnTime'
      BY <1>1 DEF WindowInv, Window!EveryGroupOnTime
  <1> QED BY <1>2, <1>3, <1>4 DEF WindowInv

\* Groups only leave by Drop and by Shutdown.
LEMMA DropKeeps == WindowInv /\ (Window!Drop \/ Window!Shutdown) => WindowInv'
  <1> SUFFICES ASSUME WindowInv, Window!Drop \/ Window!Shutdown PROVE WindowInv'
      OBVIOUS
  <1>1. stream \in Seq(Window!Group) /\ Len(stream) \in Nat /\ DOMAIN stream = 1 .. Len(stream)
        /\ \A i \in DOMAIN stream : stream[i] \in Window!Group
      BY LenProperties, ElementOfSeq DEF WindowInv, Window!TypeOK
  <1>2. CASE Window!Shutdown
    <2>1. PICK n \in 0 .. Len(stream) : stream' = SubSeq(stream, 1, n)
        BY <1>2 DEF Window!Shutdown
    <2>2. /\ stream' \in Seq(Window!Group) /\ Len(stream') = n /\ DOMAIN stream' = 1 .. n
          /\ \A i \in 1 .. n : stream'[i] = stream[i]
      <3>1. CASE n = 0
        <4>1. stream' = <<>>
            BY <2>1, <3>1, <1>1, SubSeqProperties, EmptySeq
        <4> QED BY <3>1, <4>1
      <3>2. CASE n # 0
          BY <2>1, <3>2, <1>1, SubSeqProperties
      <3> QED BY <3>1, <3>2
    <2> QED BY <1>1, <1>2, <2>1, <2>2, ShorterStream DEF Window!Shutdown
  <1>3. CASE Window!Drop
    <2>1. PICK k \in DOMAIN stream :
              stream' = SubSeq(stream, 1, k - 1) \o SubSeq(stream, k + 1, Len(stream))
        BY <1>3 DEF Window!Drop
    <2> DEFINE front == SubSeq(stream, 1, k - 1)
               back == SubSeq(stream, k + 1, Len(stream))
    <2>2. /\ front \in Seq(Window!Group) /\ Len(front) = k - 1
          /\ \A i \in 1 .. k - 1 : front[i] = stream[i]
        BY <1>1, SubSeqProperties
    <2>3. /\ back \in Seq(Window!Group) /\ Len(back) = Len(stream) - k
          /\ \A i \in 1 .. Len(stream) - k : back[i] = stream[k + i]
        BY <1>1, SubSeqProperties
    <2> HIDE DEF front, back
    <2>4. stream' = front \o back
        BY <2>1 DEF front, back
    <2>5. /\ stream' \in Seq(Window!Group) /\ Len(stream') = Len(stream) - 1
          /\ DOMAIN stream' = 1 .. Len(stream) - 1
          /\ \A i \in 1 .. Len(stream) - 1 :
                stream'[i] = IF i < k THEN stream[i] ELSE stream[i + 1]
      <3>1. k \in 1 .. Len(stream) /\ Len(front) + Len(back) = Len(stream) - 1
          BY <1>1, <2>2, <2>3
      <3>2. /\ front \o back \in Seq(Window!Group)
            /\ Len(front \o back) = Len(front) + Len(back)
            /\ \A i \in 1 .. Len(front) + Len(back) :
                  (front \o back)[i] = IF i <= Len(front) THEN front[i] ELSE back[i - Len(front)]
          BY <2>2, <2>3, ConcatProperties
      <3>3. ASSUME NEW i \in 1 .. Len(stream) - 1
            PROVE  (front \o back)[i] = IF i < k THEN stream[i] ELSE stream[i + 1]
        <4>1. CASE i < k
            BY <4>1, <1>1, <2>2, <2>3, <3>1, <3>2
        <4>2. CASE ~(i < k)
          <5> DEFINE j == i - (k - 1)
          <5>1. j \in 1 .. Len(stream) - k /\ k + j = i + 1
              BY <4>2, <1>1, <3>1
          <5>2. (front \o back)[i] = back[j]
              BY <4>2, <1>1, <2>2, <3>1, <3>2
          <5>3. back[j] = stream[k + j]
              BY <5>1, <2>3
          <5> QED BY <4>2, <5>1, <5>2, <5>3
        <4> QED BY <4>1, <4>2
      <3>4. DOMAIN stream' = 1 .. Len(stream')
          BY <2>4, <3>2, LenProperties
      <3> QED BY <2>4, <3>1, <3>2, <3>3, <3>4
    <2>6. \A i \in DOMAIN stream' : \E j \in DOMAIN stream : i <= j /\ stream'[i] = stream[j]
      <3> SUFFICES ASSUME NEW i \in DOMAIN stream'
                   PROVE  \E j \in DOMAIN stream : i <= j /\ stream'[i] = stream[j]
          OBVIOUS
      <3>1. i \in 1 .. Len(stream) - 1
          BY <2>5
      <3>2. CASE i < k
          BY <3>1, <3>2, <2>5, <1>1
      <3>3. CASE ~(i < k)
        <4>1. i + 1 \in DOMAIN stream /\ i <= i + 1 /\ stream'[i] = stream[i + 1]
            BY <3>1, <3>3, <2>5, <1>1
        <4> QED BY <4>1
      <3> QED BY <3>2, <3>3
    <2>7. UNCHANGED <<trained, published, admitted>> /\ Len(stream') <= Len(stream)
        BY <1>1, <1>3, <2>5 DEF Window!Drop
    <2> QED BY <2>5, <2>6, <2>7, ShorterStream
  <1> QED BY <1>2, <1>3

\* Every step keeps the invariant.
LEMMA WindowNext == WindowInv /\ [Window!Next]_(Window!vars) => WindowInv'
  <1> SUFFICES ASSUME WindowInv, [Window!Next]_(Window!vars) PROVE WindowInv'
      OBVIOUS
  <1>1. CASE Window!Admit
      BY <1>1, AdmitKeeps
  <1>2. CASE Window!SampleSome
    <2>1. PICK i \in DOMAIN stream, v \in published .. trained : Window!Sample(i, v)
        BY <1>2 DEF Window!SampleSome
    <2> QED BY <2>1, SampleKeeps
  <1>3. CASE Window!LoseSamples
    <2>1. PICK i \in DOMAIN stream : Window!Sample(i, Window!NotSampled)
        BY <1>3 DEF Window!LoseSamples
    <2>2. Window!NotSampled \in Int
        BY DEF Window!NotSampled
    <2> QED BY <2>1, <2>2, SampleKeeps
  <1>4. CASE Window!Drop \/ Window!Shutdown
      BY <1>4, DropKeeps
  <1>5. CASE Window!Train
      BY <1>5, TrainKeeps
  <1>6. CASE Window!Publish
      BY <1>6, PublishKeeps
  <1>7. CASE UNCHANGED Window!vars
      BY <1>7 DEF Window!vars, WindowInv, Window!TypeOK, Window!WithinWindow, Window!AwaitingPublish, Window!EveryGroupOnTime
  <1> QED BY <1>1, <1>2, <1>3, <1>4, <1>5, <1>6, <1>7 DEF Window!Next

\* The window bounds the policy age: whatever max_offpolicy_steps and
\* num_groups_per_train_step are, the next batch lags at most that many steps.
THEOREM Freshness ==
    Window!WindowAssumption => (Window!Spec => []Window!NextBatchFresh)
  <1>1. WindowInv => Window!NextBatchFresh
    <2> SUFFICES ASSUME WindowInv, NEW i \in DOMAIN stream, stream[i].version # Window!NotSampled
                 PROVE  trained - stream[i].version <= MaxOffpolicySteps
        BY DEF Window!NextBatchFresh
    <2>0. Window!WindowAssumption
        BY DEF WindowInv
    <2> USE <2>0 DEF Window!WindowAssumption
    <2> DEFINE G == NumGroupsPerTrainStep
               bound == stream[i].version + MaxOffpolicySteps + 1
    <2>1. stream[i] \in Window!Group /\ i \in 1 .. Len(stream) /\ trained \in Nat
        BY LenProperties, ElementOfSeq DEF WindowInv, Window!TypeOK
    <2>2. stream[i].version \in Int /\ bound \in Int /\ G \in Nat
        BY <2>1 DEF Window!Group, Window!NotSampled
    <2>3. trained * G + i - 1 < bound * G
        BY DEF WindowInv, Window!EveryGroupOnTime
    <2> HIDE DEF bound, G
    <2>4. trained * G < bound * G
        BY <2>1, <2>2, <2>3
    <2>5. trained < bound
      <3>1. ~(bound <= trained)
          BY <2>1, <2>2, <2>4, ProductMonotone
      <3> QED BY <2>1, <2>2, <3>1
    <2> QED BY <2>1, <2>2, <2>5 DEF bound
  <1> QED BY WindowInit, WindowNext, <1>1, PTL DEF Window!Spec

\* The window is never exceeded, whatever its size.
THEOREM Capacity ==
    Window!WindowAssumption => (Window!Spec => [](Window!TypeOK /\ Window!WithinWindow))
  <1>1. WindowInv => Window!TypeOK /\ Window!WithinWindow
      BY DEF WindowInv
  <1> QED BY WindowInit, WindowNext, <1>1, PTL DEF Window!Spec

-----------------------------------------------------------------------------
(***************************************************************************)
(* The safety of the work buffer for every capacity, every number of       *)
(* groups and every result a worker may hand in.  Typing is inductive on   *)
(* its own; given it, BufferSafety is inductive.                           *)
(***************************************************************************)

\* Rewriting one entry leaves a sequence of entries of the same length.
LEMMA UpdateEntry ==
  ASSUME work \in Seq(Work), NEW i \in DOMAIN work, NEW entry \in Work,
         work' = [work EXCEPT ![i] = entry]
  PROVE  /\ work' \in Seq(Work)
         /\ Len(work') = Len(work)
         /\ DOMAIN work' = DOMAIN work
         /\ \A j \in DOMAIN work : work'[j] = IF j = i THEN entry ELSE work[j]
<1>1. i \in 1 .. Len(work) /\ DOMAIN work = 1 .. Len(work)
  BY LenProperties
<1>2. QED
  BY <1>1, ExceptSeq, LenProperties

\* claim_next touches the state of one WAITING entry only.
LEMMA ClaimNextEffect ==
  ASSUME TypeOK, NEW i \in DOMAIN work, ClaimNext(i)
  PROVE  /\ work' \in Seq(Work)
         /\ Len(work') = Len(work)
         /\ DOMAIN work' = DOMAIN work
         /\ \A j \in DOMAIN work :
               /\ work'[j].group_id = work[j].group_id
               /\ work'[j].rollout_group = work[j].rollout_group
               /\ work'[j].state = "FINALIZED" <=> work[j].state = "FINALIZED"
<1>1. /\ work[i].state = "WAITING"
      /\ work' = [work EXCEPT ![i].state = "INFLIGHT"]
  BY DEF ClaimNext, InState
<1> DEFINE entry == [work[i] EXCEPT !.state = "INFLIGHT"]
<1>2. work \in Seq(Work) /\ work[i] \in Work /\ i \in 1 .. Len(work)
  BY LenProperties, ElementOfSeq DEF TypeOK
<1>3. /\ entry \in Work
      /\ entry.state = "INFLIGHT"
      /\ entry.group_id = work[i].group_id
      /\ entry.rollout_group = work[i].rollout_group
  BY <1>2 DEF Work, WorkState
<1>4. work' = [work EXCEPT ![i] = entry]
  BY <1>1
<1> HIDE DEF entry
<1>5. QED
  BY <1>1, <1>2, <1>3, <1>4, UpdateEntry

\* finalize_work stores one result, on a claimed entry.
LEMMA FinalizeWorkEffect ==
  ASSUME TypeOK, NEW i \in DOMAIN work, NEW group \in RolloutGroups, FinalizeWork(i, group)
  PROVE  /\ work' \in Seq(Work)
         /\ Len(work') = Len(work)
         /\ DOMAIN work' = DOMAIN work
         /\ \A j \in DOMAIN work :
               /\ work'[j].group_id = work[j].group_id
               /\ j # i => work'[j] = work[j]
         /\ work'[i].state = "FINALIZED"
         /\ work'[i].rollout_group = group
<1> DEFINE entry == [work[i] EXCEPT !.state = "FINALIZED", !.rollout_group = group]
<1>1. work \in Seq(Work) /\ work[i] \in Work
  BY LenProperties, ElementOfSeq DEF TypeOK
<1>2. /\ entry \in Work
      /\ entry.state = "FINALIZED"
      /\ entry.group_id = work[i].group_id
      /\ entry.rollout_group = group
  BY <1>1 DEF Work, WorkState
<1>3. work' = [work EXCEPT ![i] = entry]
  BY DEF FinalizeWork
<1> HIDE DEF entry
<1>4. QED
  BY <1>1, <1>2, <1>3, UpdateEntry

\* The initial buffer is well typed.
LEMMA BufferTypeInit == Init => TypeOK
<1>1. <<>> \in Seq(Work)
  BY EmptySeq
<1>2. Init => work \in Seq(Work) /\ closed \in BOOLEAN
  BY <1>1, Zenon DEF Init, BufferInit
<1>3. Init => active \in Nat /\ peak \in Nat /\ groupIndex \in Nat /\ departed \in Nat
  BY DEF Init, BufferInit
<1>4. QED
  BY <1>2, <1>3 DEF TypeOK

\* Every step keeps the types.
LEMMA BufferTypeStep ==
    TypeOK /\ [Next]_vars => TypeOK'
<1> SUFFICES ASSUME TypeOK, [Next]_vars
             PROVE  TypeOK'
  OBVIOUS
<1>1. CASE Admit
  BY <1>1, BufferAssumption
     DEF TypeOK, Work, WorkState, Admit, AddWork, HasActiveSlot
<1>2. CASE Claim
  BY <1>2, ClaimNextEffect DEF TypeOK, Claim, ClaimNext
<1>3. CASE Finalize
  BY <1>3, FinalizeWorkEffect DEF TypeOK, Finalize, FinalizeWork
<1>4. CASE Take
  BY <1>4, HeadTailProperties DEF TypeOK, Take, TakeFinalized
<1>5. CASE Release
  BY <1>5 DEF TypeOK, Release, ReleaseActiveGroups, ReleaseRejected
<1>6. CASE Shutdown
  BY <1>6, EmptySeq, LenProperties DEF TypeOK, Shutdown, Close
<1>7. CASE Flush
  BY <1>7 DEF TypeOK, Flush, FlushMetrics
<1>8. CASE UNCHANGED vars
  BY <1>8 DEF TypeOK, vars, bufferVars
<1>9. QED
  BY <1>1, <1>2, <1>3, <1>4, <1>5, <1>6, <1>7, <1>8 DEF Next

BufferSafety ==
    /\ SlotsAccountedFor
    /\ StrictFifo
    /\ PeakCoversGauge
    /\ ResultIffFinalized

\* An empty buffer with every slot free is safe.
LEMMA BufferSafetyInit == Init => BufferSafety
BY EmptySeq, BufferAssumption
   DEF BufferSafety, Init, BufferInit, SlotsAccountedFor, StrictFifo,
       PeakCoversGauge, ResultIffFinalized

\* The slot budget, the FIFO order, the peak gauge and the entry life cycle
\* hold together: none of them is disturbed by a call that keeps the callers'
\* protocol.
LEMMA BufferSafetyStep ==
    TypeOK /\ BufferSafety /\ [Next]_vars => BufferSafety'
<1> USE DEF BufferSafety
<1> SUFFICES ASSUME TypeOK, BufferSafety, [Next]_vars
             PROVE  BufferSafety'
  OBVIOUS
<1> USE BufferAssumption
<1>0. /\ work \in Seq(Work)
      /\ Len(work) \in Nat
      /\ DOMAIN work = 1 .. Len(work)
  BY LenProperties DEF TypeOK
<1>1. CASE Admit
  <2> DEFINE entry == [group_id |-> groupIndex, state |-> "WAITING", rollout_group |-> NoGroup]
  <2>1. entry \in Work
    BY DEF TypeOK, Work, WorkState
  <2>2. /\ work' = Append(work, entry)
        /\ active' = active + 1
        /\ active < MaxActiveRolloutGroups
        /\ peak' = IF active' > peak THEN active' ELSE peak
        /\ groupIndex' = groupIndex + 1
        /\ departed' = departed
    BY <1>1 DEF Admit, AddWork, HasActiveSlot
  <2>3. /\ entry.state = "WAITING" /\ entry.rollout_group = NoGroup
        /\ entry.group_id = groupIndex
    OBVIOUS
  <2> HIDE DEF entry
  <2>4. /\ Len(work') = Len(work) + 1
        /\ DOMAIN work' = 1 .. Len(work) + 1
        /\ \A i \in 1 .. Len(work) : work'[i] = work[i]
        /\ work'[Len(work) + 1] = entry
    BY <1>0, <2>1, <2>2, AppendProperties, LenProperties
  <2>5. SlotsAccountedFor' /\ PeakCoversGauge'
    BY <1>0, <2>2, <2>4 DEF TypeOK, SlotsAccountedFor, PeakCoversGauge
  <2>6. StrictFifo'
    BY <1>0, <2>2, <2>3, <2>4 DEF TypeOK, StrictFifo
  <2>7. ResultIffFinalized'
    BY <1>0, <2>3, <2>4 DEF ResultIffFinalized
  <2>8. QED
    BY <2>5, <2>6, <2>7
<1>2. CASE Claim
  <2>1. PICK i \in DOMAIN work : ClaimNext(i)
    BY <1>2 DEF Claim
  <2>2. UNCHANGED <<active, peak, groupIndex, departed>>
    BY <1>2, <2>1 DEF Claim, ClaimNext
  <2>3. QED
    BY <1>0, <2>1, <2>2, ClaimNextEffect
       DEF SlotsAccountedFor, StrictFifo, PeakCoversGauge, ResultIffFinalized
<1>3. CASE Finalize
  <2>1. PICK i \in DOMAIN work, group \in RolloutGroups : FinalizeWork(i, group)
    BY <1>3 DEF Finalize
  <2>2. UNCHANGED <<active, peak, groupIndex, departed>>
    BY <1>3, <2>1 DEF Finalize, FinalizeWork
  <2>3. SlotsAccountedFor' /\ PeakCoversGauge'
    BY <1>0, <2>1, <2>2, FinalizeWorkEffect DEF SlotsAccountedFor, PeakCoversGauge
  <2>4. StrictFifo'
    BY <1>0, <2>1, <2>2, FinalizeWorkEffect DEF StrictFifo
  <2>5. ResultIffFinalized'
    BY <1>0, <2>1, <2>2, FinalizeWorkEffect DEF ResultIffFinalized
  <2>6. QED
    BY <2>3, <2>4, <2>5
<1>4. CASE Take
  <2>1. /\ work # <<>>
        /\ work' = Tail(work)
        /\ departed' = departed + 1
        /\ UNCHANGED <<active, peak, groupIndex>>
    BY <1>4 DEF Take, TakeFinalized
  <2>2. /\ Len(work') = Len(work) - 1
        /\ DOMAIN work' = 1 .. Len(work) - 1
        /\ \A i \in 1 .. Len(work) - 1 : work'[i] = work[i + 1]
    BY <1>0, <2>1, HeadTailProperties, LenProperties
  <2>3. SlotsAccountedFor' /\ PeakCoversGauge'
    BY <1>0, <2>1, <2>2 DEF TypeOK, SlotsAccountedFor, PeakCoversGauge
  <2>4. StrictFifo'
    BY <1>0, <2>1, <2>2 DEF TypeOK, StrictFifo
  <2>5. ResultIffFinalized'
    BY <1>0, <2>1, <2>2 DEF TypeOK, ResultIffFinalized
  <2>6. QED
    BY <2>3, <2>4, <2>5
<1>5. CASE Release
  BY <1>0, <1>5
     DEF Release, ReleaseActiveGroups, ReleaseRejected, TypeOK,
         SlotsAccountedFor, StrictFifo, PeakCoversGauge, ResultIffFinalized
<1>6. CASE Shutdown
  BY <1>0, <1>6, EmptySeq
     DEF Shutdown, Close, TypeOK,
         SlotsAccountedFor, StrictFifo, PeakCoversGauge, ResultIffFinalized
<1>7. CASE Flush
  BY <1>7
     DEF Flush, FlushMetrics, TypeOK,
         SlotsAccountedFor, StrictFifo, PeakCoversGauge, ResultIffFinalized
<1>8. CASE UNCHANGED vars
  BY <1>8
     DEF vars, bufferVars,
         SlotsAccountedFor, StrictFifo, PeakCoversGauge, ResultIffFinalized
<1>9. QED
  BY <1>1, <1>2, <1>3, <1>4, <1>5, <1>6, <1>7, <1>8 DEF Next

BufferInv == TypeOK /\ BufferSafety

\* Types and safety are inductive together.
LEMMA BufferIsSafe == Spec => []BufferInv
<1>1. Init => BufferInv
  BY BufferTypeInit, BufferSafetyInit DEF BufferInv
<1>2. BufferInv /\ [Next]_vars => BufferInv'
  BY BufferTypeStep, BufferSafetyStep DEF BufferInv
<1>3. QED
  BY <1>1, <1>2, PTL DEF Spec

\* Every variable keeps its type.
THEOREM Typing == Spec => []TypeOK
<1>1. BufferInv => TypeOK
  BY DEF BufferInv
<1>2. QED
  BY <1>1, BufferIsSafe, PTL

\* For every capacity, the charged slots are the groups in the buffer and
\* those that left it without a release, and never more than the capacity.
THEOREM Slots == Spec => []SlotsAccountedFor
<1>1. BufferInv => SlotsAccountedFor
  BY DEF BufferInv, BufferSafety
<1>2. QED
  BY <1>1, BufferIsSafe, PTL

\* For every capacity, groups leave the buffer in the order they came in, and
\* none is skipped or doubled.
THEOREM Fifo == Spec => []StrictFifo
<1>1. BufferInv => StrictFifo
  BY DEF BufferInv, BufferSafety
<1>2. QED
  BY <1>1, BufferIsSafe, PTL

\* For every capacity, the peak gauge is never below what it is the peak of.
THEOREM Peak == Spec => []PeakCoversGauge
<1>1. BufferInv => PeakCoversGauge
  BY DEF BufferInv, BufferSafety
<1>2. QED
  BY <1>1, BufferIsSafe, PTL

\* For every kind of result, an entry carries one exactly when it is FINALIZED.
THEOREM Lifecycle == Spec => []ResultIffFinalized
<1>1. BufferInv => ResultIffFinalized
  BY DEF BufferInv, BufferSafety
<1>2. QED
  BY <1>1, BufferIsSafe, PTL
=============================================================================
