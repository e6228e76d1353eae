-------------------------- MODULE CheckpointProofs --------------------------
(***************************************************************************)
(* For every schedule, keep_latest_k and number of restarts: the point a   *)
(* restart resumes from never moves back, and a crash loses at most the    *)
(* checkpoint being written, or the one that failed, and the one due now.  *)
(***************************************************************************)
EXTENDS Checkpoint, FiniteSetTheorems, WellFoundedInduction, TLAPS

-----------------------------------------------------------------------------
(* The newest of a set of steps.                                           *)

LEMMA LeastNatural ==
    ASSUME NEW S \in SUBSET Nat, S # {}
    PROVE  \E m \in S : \A t \in S : m <= t
<1>1. PICK m \in S : \A t \in S : <<t, m>> \notin OpToRel(<, Nat)
  BY WFMin, NatLessThanWellFounded, Zenon
<1>2. \A t \in S : ~ (t < m)
  <2> TAKE t \in S
  <2>1. <<t, m>> \in Nat \X Nat
    OBVIOUS
  <2>2. <<t, m>>[1] = t /\ <<t, m>>[2] = m
    OBVIOUS
  <2> QED  BY <1>1, <2>1, <2>2, SMT DEF OpToRel
<1> QED  BY <1>2

LEMMA NewestIsMaximum ==
    ASSUME NEW S \in SUBSET Steps
    PROVE  /\ S = {} => NewestOf(S) = NoStep
           /\ S # {} => NewestOf(S) \in S /\ \A t \in S : t <= NewestOf(S)
<1>1. ASSUME S # {}
      PROVE  \E s \in S : \A t \in S : t <= s
  <2> DEFINE T == {MaxStep - s : s \in S}
  <2>1. T \in SUBSET Nat /\ T # {}
    <3>1. \A s \in S : MaxStep - s \in Nat
      BY CheckpointAssumption DEF Steps
    <3> QED  BY <1>1, <3>1
  <2>2. PICK m \in T : \A t \in T : m <= t
    BY <2>1, LeastNatural
  <2>3. PICK s \in S : m = MaxStep - s
    BY <2>2
  <2>4. \A t \in S : MaxStep - s <= MaxStep - t
    BY <2>2, <2>3
  <2>5. \A t \in S : t <= s
    BY <2>4, CheckpointAssumption DEF Steps
  <2> QED  BY <2>5
<1> QED  BY <1>1 DEF NewestOf

LEMMA LoadStep ==
    ASSUME TypeOK
    PROVE  /\ FindLoadStep \in Steps \union {NoStep}
           /\ \A s \in Valid : s <= FindLoadStep
           /\ FindLoadStep # NoStep => FindLoadStep \in Valid
<1>1. Valid \in SUBSET Steps
  BY DEF Valid
<1> QED  BY <1>1, NewestIsMaximum DEF FindLoadStep

LEMMA LoadStepNext ==
    ASSUME TypeOK'
    PROVE  /\ FindLoadStep' \in Steps \union {NoStep}
           /\ \A s \in Valid' : s <= FindLoadStep'
           /\ FindLoadStep' # NoStep => FindLoadStep' \in Valid'
<1>1. Valid' \in SUBSET Steps
  BY DEF Valid
<1> QED  BY <1>1, NewestIsMaximum DEF FindLoadStep

-----------------------------------------------------------------------------
(* Types.                                                                  *)

LEMMA TypeInit == Init => TypeOK
<1> SUFFICES ASSUME Init PROVE TypeOK
  OBVIOUS
<1>1. 0 \in Steps /\ 0 \in 0..MaxStarts /\ FALSE \in BOOLEAN
  BY CheckpointAssumption DEF Steps
<1>2. disk \in [Steps -> {"none", "partial", "broken", "model", "full"}]
  BY DEF Init
<1> QED  BY <1>1, <1>2 DEF Init, TypeOK

LEMMA TypeStep == TypeOK /\ [Next]_vars => TypeOK'
<1> SUFFICES ASSUME TypeOK, [Next]_vars PROVE TypeOK'
  OBVIOUS
<1> USE CheckpointAssumption DEF TypeOK
<1>1. CASE Start
  BY <1>1, LoadStep DEF Start, writerVars, purgeVars, Steps, NoStep
<1>2. CASE TrainStep
  <2>1. step' \in Steps
    BY <1>2 DEF TrainStep, ShouldContinueTraining, Steps
  <2> QED  BY <1>2, <2>1 DEF TrainStep, CopyAfterUpdate, purgeVars
<1>3. CASE LeaveLoop
  BY <1>3 DEF LeaveLoop, writerVars, purgeVars
<1>4. CASE SkipSave
  BY <1>4 DEF SkipSave, writerVars, purgeVars
<1>5. CASE BeginSave
  BY <1>5 DEF BeginSave, purgeVars
<1>6. CASE SaveRaises
  BY <1>6 DEF SaveRaises, writerVars, purgeVars
<1>7. CASE SaveReturns
  BY <1>7 DEF SaveReturns, writerVars, purgeVars
<1>8. CASE PurgeStale
  BY <1>8 DEF PurgeStale, Stale, Dirs, writerVars
<1>9. CASE StagingDone
  BY <1>9 DEF StagingDone, procVars, purgeVars
<1>10. CASE CreateDir
  BY <1>10 DEF CreateDir, procVars, writerVars, purgeVars
<1>11. CASE Commit
  <2>1. Complete(writing) \in {"broken", "model", "full"}
    BY DEF Complete
  <2> QED  BY <1>11, <2>1 DEF Commit, procVars, purgeVars
<1>12. CASE WriteFails
  BY <1>12 DEF WriteFails, procVars, purgeVars
<1>13. CASE TakePath
  BY <1>13 DEF TakePath, procVars, writerVars
<1>14. CASE RemoveSome
  BY <1>14 DEF RemoveSome, Damaged, procVars, purgeVars
<1>15. CASE RemoveEnds
  BY <1>15 DEF RemoveEnds, Damaged, procVars
<1>16. CASE Close
  BY <1>16 DEF Close, purgeVars
<1>17. CASE Crash
  BY <1>17 DEF Crash
<1>18. CASE UNCHANGED vars
  BY <1>18 DEF vars, procVars, writerVars, purgeVars
<1> QED
  BY <1>1, <1>2, <1>3, <1>4, <1>5, <1>6, <1>7, <1>8, <1>9, <1>10, <1>11, <1>12,
     <1>13, <1>14, <1>15, <1>16, <1>17, <1>18 DEF Next

\* Every variable keeps its type, whatever the schedules and the settings.
THEOREM Typing == Spec => []TypeOK
BY TypeInit, TypeStep, PTL DEF Spec

-----------------------------------------------------------------------------
(* The inductive invariant.                                                *)

TwoAbove(s) == \E t, u \in Dirs : s < t /\ t < u

\* keep_latest_k is at least 2: whatever is being deleted, was left half deleted,
\* or is being written while it is deleted, has two newer directories.
PurgeInv ==
    /\ \A s \in doomed \union {removing} : s # NoStep => TwoAbove(s)
    /\ \A s \in Steps : disk[s] = "broken" => TwoAbove(s)
    /\ writing # NoStep /\ copy = "mixed" => TwoAbove(writing)

\* A job writes past every directory that has its metadata, one step at a time.
WriterInv ==
    /\ proc = "down" => writing = NoStep /\ ~failed /\ doomed = {} /\ removing = NoStep
    /\ proc # "down" => FindLoadStep <= step
    /\ proc = "save" => FindLoadStep < step /\ step >= 1 /\ writing < step
    /\ writing # NoStep => FindLoadStep < writing /\ writing >= 1 /\ writing <= step

\* t is the first step after the resume point for which a save is due.
NextDue(t) ==
    /\ t >= 1 /\ ShouldSave(t)
    /\ \A u \in Steps : FindLoadStep < u /\ 1 <= u /\ u < t => ~ShouldSave(u)

\* The last step whose save has begun or was not due.
Passed == IF proc = "save" THEN step - 1 ELSE step

\* Under an unchanged schedule only one directory can be newer than the resume
\* point: the one the next save writes, or writes over.
ScheduleInv ==
    /\ starts = 0 => proc = "down" /\ \A t \in Dirs : t <= FindLoadStep
    /\ ~changed =>
         /\ \A t \in Steps : (t \in Dirs /\ t > FindLoadStep) \/ t = writing => NextDue(t)
         /\ proc \in {"train", "save", "write", "purge"} /\ ~failed =>
              \A u \in Steps :
                  FindLoadStep < u /\ 1 <= u /\ u <= Passed /\ ShouldSave(u) => u = writing

IndInv == TypeOK /\ PurgeInv /\ WriterInv /\ ScheduleInv

LEMMA SameDisk ==
    ASSUME UNCHANGED disk
    PROVE  /\ Dirs' = Dirs /\ Valid' = Valid /\ FindLoadStep' = FindLoadStep
           /\ \A s \in Steps \union {NoStep} : TwoAbove(s)' <=> TwoAbove(s)
BY DEF Dirs, Valid, FindLoadStep, TwoAbove

\* Two directories newer than the resume point: then one of them is a left-over,
\* and the schedule was changed.
LEMMA NoDamage ==
    ASSUME IndInv, LeftOversHarmless, NEW s \in Steps \union {NoStep}, TwoAbove(s)
    PROVE  s < FindLoadStep
<1> SUFFICES ASSUME ~ (s < FindLoadStep) PROVE FALSE
  OBVIOUS
<1> USE DEF IndInv
<1>1. FindLoadStep \in Steps \union {NoStep} /\ \A v \in Valid : v <= FindLoadStep
  BY LoadStep
<1>2. PICK t, u \in Dirs : s < t /\ t < u
  BY DEF TwoAbove
<1>3. t \in Steps /\ u \in Steps /\ t > FindLoadStep /\ u > FindLoadStep
  BY <1>1, <1>2, CheckpointAssumption DEF Dirs, Steps, NoStep
<1>4. disk[t] = "partial" /\ disk[u] = "partial"
  <2>1. t \notin Valid /\ u \notin Valid
    BY <1>1, <1>3, CheckpointAssumption DEF Steps, NoStep
  <2> QED  BY <1>2, <1>3, <2>1 DEF Valid, Dirs, TypeOK
<1>5. CASE changed
  <2>1. t \in LeftOver \/ u \in LeftOver
    <3>1. t # u
      BY <1>2, <1>3 DEF Steps
    <3> QED  BY <1>3, <1>4, <3>1 DEF LeftOver
  <2> QED  BY <1>5, <2>1 DEF LeftOversHarmless
<1>6. CASE ~changed
  <2>1. NextDue(t) /\ NextDue(u)
    BY <1>2, <1>3, <1>6 DEF ScheduleInv
  <2> QED  BY <1>2, <1>3, <2>1 DEF NextDue, Steps
<1> QED  BY <1>5, <1>6

-----------------------------------------------------------------------------
LEMMA MoreDirs ==
    ASSUME Dirs \subseteq Dirs', NEW s \in Steps, TwoAbove(s)
    PROVE  TwoAbove(s)'
BY DEF TwoAbove

\* A directory with at least two newer ones, by their number.
LEMMA StaleHasTwoAbove ==
    ASSUME TypeOK, config.keep_latest_k # 0, NEW s \in Stale(Dirs)
    PROVE  TwoAbove(s)
<1> DEFINE Above == {t \in Dirs : t > s}
<1>1. config.keep_latest_k \in Nat \ {0, 1}
  BY CheckpointAssumption DEF TypeOK, Config
<1>2. IsFiniteSet(Above)
  <2>1. IsFiniteSet(Steps)
    BY FS_Interval, CheckpointAssumption DEF Steps
  <2> QED  BY <2>1, FS_Subset DEF Dirs
<1>3. Cardinality(Above) \in Nat /\ Cardinality(Above) >= 2
  <2>1. Cardinality(Above) >= config.keep_latest_k
    BY DEF Stale
  <2> QED  BY <1>1, <1>2, <2>1, FS_CardinalityType
<1>4. PICK t : t \in Above
  BY <1>3, FS_EmptySet
<1>5. PICK u : u \in Above \ {t}
  <2>1. Cardinality(Above \ {t}) = Cardinality(Above) - 1
    BY <1>2, <1>4, FS_RemoveElement
  <2> QED  BY <1>3, <2>1, FS_EmptySet
<1>6. s \in Steps /\ t \in Steps /\ u \in Steps
  BY <1>4, <1>5 DEF Stale, Dirs
<1> QED  BY <1>4, <1>5, <1>6 DEF TwoAbove, Steps

\* A removed directory had two newer ones, which keep what it kept.
LEMMA RemovalKeepsTwoAbove ==
    ASSUME TypeOK, PurgeInv, removing \in Steps, Dirs' = Dirs \ {removing},
           NEW s \in Steps, TwoAbove(s)
    PROVE  TwoAbove(s)'
<1>1. PICK t, u \in Dirs : s < t /\ t < u
  BY DEF TwoAbove
<1>2. TwoAbove(removing)
  BY CheckpointAssumption DEF PurgeInv, Steps, NoStep
<1>3. PICK v, w \in Dirs : removing < v /\ v < w
  BY <1>2 DEF TwoAbove
<1>4. CASE removing \in {t, u}
  <2>1. s < v /\ v # removing /\ w # removing
    BY <1>1, <1>3, <1>4 DEF Dirs, Steps
  <2> QED  BY <1>3, <2>1 DEF TwoAbove
<1>5. CASE removing \notin {t, u}
  BY <1>1, <1>5 DEF TwoAbove
<1> QED  BY <1>4, <1>5

LEMMA PurgeStep == IndInv /\ [Next]_vars => PurgeInv'
<1> SUFFICES ASSUME IndInv, [Next]_vars PROVE PurgeInv'
  OBVIOUS
<1> USE DEF IndInv
<1>0. ASSUME UNCHANGED disk, doomed' \subseteq doomed,
             removing' \in doomed \union {removing, NoStep},
             writing' = NoStep \/ copy' # "mixed" \/ UNCHANGED <<writing, copy>>
      PROVE  PurgeInv'
  <2>1. \A s \in Steps \union {NoStep} : TwoAbove(s)' <=> TwoAbove(s)
    BY <1>0, SameDisk
  <2>2. \A s \in doomed' \union {removing'} : s # NoStep => TwoAbove(s)'
    BY <1>0, <2>1 DEF PurgeInv, TypeOK
  <2>3. \A s \in Steps : disk'[s] = "broken" => TwoAbove(s)'
    BY <1>0, <2>1 DEF PurgeInv
  <2>4. writing' # NoStep /\ copy' = "mixed" => TwoAbove(writing)'
    BY <1>0, <2>1 DEF PurgeInv, TypeOK, TwoAbove
  <2> QED  BY <2>2, <2>3, <2>4 DEF PurgeInv
<1>1. CASE Start
  BY <1>0, <1>1 DEF Start, writerVars, purgeVars
<1>2. CASE TrainStep
  BY <1>0, <1>2 DEF TrainStep, StagingWaited, CopyAfterUpdate, purgeVars
<1>3. CASE LeaveLoop
  BY <1>0, <1>3 DEF LeaveLoop, writerVars, purgeVars
<1>4. CASE SkipSave
  BY <1>0, <1>4 DEF SkipSave, writerVars, purgeVars
<1>5. CASE BeginSave
  BY <1>0, <1>5 DEF BeginSave, purgeVars
<1>6. CASE SaveRaises
  BY <1>0, <1>6 DEF SaveRaises, writerVars, purgeVars
<1>7. CASE SaveReturns
  BY <1>0, <1>7 DEF SaveReturns, writerVars, purgeVars
<1>8. CASE PurgeStale
  <2>1. UNCHANGED disk /\ UNCHANGED <<writing, copy, removing>>
    BY <1>8 DEF PurgeStale, writerVars
  <2>2. \A s \in Steps \union {NoStep} : TwoAbove(s)' <=> TwoAbove(s)
    BY <2>1, SameDisk
  <2>3. \A s \in doomed' : s \in Steps /\ TwoAbove(s)
    <3>1. \A s \in doomed : s \in Steps /\ TwoAbove(s)
      BY DEF PurgeInv, TypeOK, Steps, NoStep
    <3>2. config.keep_latest_k # 0 => \A s \in Stale(Dirs) : s \in Steps /\ TwoAbove(s)
      BY StaleHasTwoAbove DEF Stale, Dirs
    <3> QED  BY <1>8, <3>1, <3>2 DEF PurgeStale
  <2> QED  BY <2>1, <2>2, <2>3 DEF PurgeInv, TypeOK, TwoAbove
<1>9. CASE StagingDone
  BY <1>0, <1>9 DEF StagingDone, purgeVars
<1>10. CASE CreateDir
  <2>1. Dirs \subseteq Dirs' /\ \A s \in Steps : disk'[s] = "broken" => disk[s] = "broken"
    BY <1>10 DEF CreateDir, Dirs, TypeOK
  <2> QED  BY <1>10, <2>1, MoreDirs DEF CreateDir, writerVars, purgeVars, PurgeInv, TypeOK
<1>11. CASE Commit
  <2>1. Dirs \subseteq Dirs'
    BY <1>11 DEF Commit, Dirs, TypeOK, Complete
  <2>2. \A s \in Steps :
           disk'[s] = "broken" => disk[s] = "broken" \/ (s = writing /\ copy = "mixed")
    BY <1>11 DEF Commit, TypeOK, Complete
  <2> QED  BY <1>11, <2>1, <2>2, MoreDirs DEF Commit, purgeVars, PurgeInv, TypeOK
<1>12. CASE WriteFails
  BY <1>0, <1>12 DEF WriteFails, purgeVars
<1>13. CASE TakePath
  BY <1>0, <1>13 DEF TakePath, writerVars
<1>14. CASE RemoveSome
  <2>1. Dirs \subseteq Dirs'
    BY <1>14 DEF RemoveSome, Dirs, TypeOK
  <2>2. \A s \in Steps : disk'[s] = "broken" => disk[s] = "broken" \/ s = removing
    BY <1>14 DEF RemoveSome, TypeOK
  <2>3. removing \in Steps /\ removing # NoStep
    BY <1>14 DEF RemoveSome, Dirs, Steps, NoStep
  <2>4. UNCHANGED <<writing, doomed, removing>> /\ copy' = Damaged
    BY <1>14 DEF RemoveSome, purgeVars
  <2> QED  BY <2>1, <2>2, <2>3, <2>4, MoreDirs DEF Damaged, PurgeInv, TypeOK
<1>15. CASE RemoveEnds
  <2>1. UNCHANGED <<writing, doomed>> /\ removing' = NoStep /\ removing # NoStep
    BY <1>15 DEF RemoveEnds
  <2>2. CASE UNCHANGED <<disk, copy>>
    BY <1>0, <2>1, <2>2
  <2>3. CASE disk' = [disk EXCEPT ![removing] = "none"] /\ copy' = Damaged
    <3>1. Dirs' = Dirs \ {removing}
      BY <2>3 DEF Dirs, TypeOK
    <3>2. TwoAbove(removing) /\ removing \in Steps
      BY <2>1 DEF PurgeInv, TypeOK
    <3>3. \A s \in Steps : TwoAbove(s) => TwoAbove(s)'
      BY <3>1, <3>2, RemovalKeepsTwoAbove
    <3>4. \A s \in Steps : disk'[s] = "broken" => disk[s] = "broken"
      BY <2>3 DEF TypeOK
    <3> QED  BY <2>1, <2>3, <3>2, <3>3, <3>4 DEF Damaged, PurgeInv, TypeOK
  <2> QED  BY <1>15, <2>2, <2>3 DEF RemoveEnds
<1>16. CASE Close
  BY <1>0, <1>16 DEF Close, purgeVars
<1>17. CASE Crash
  BY <1>0, <1>17 DEF Crash
<1>18. CASE UNCHANGED vars
  BY <1>0, <1>18 DEF vars, writerVars, purgeVars
<1> QED
  BY <1>1, <1>2, <1>3, <1>4, <1>5, <1>6, <1>7, <1>8, <1>9, <1>10, <1>11, <1>12,
     <1>13, <1>14, <1>15, <1>16, <1>17, <1>18 DEF Next

-----------------------------------------------------------------------------
(* Where the resume point goes.                                            *)

LEMMA FewerValid ==
    ASSUME TypeOK, TypeOK', Valid' \subseteq Valid
    PROVE  FindLoadStep' <= FindLoadStep
<1>1. FindLoadStep \in Int /\ FindLoadStep >= NoStep
  BY LoadStep, CheckpointAssumption DEF Steps, NoStep
<1> QED  BY <1>1, LoadStep, LoadStepNext DEF NoStep

LEMMA SameValid ==
    ASSUME Valid' = Valid
    PROVE  FindLoadStep' = FindLoadStep
BY DEF FindLoadStep

LEMMA CreateKeepsValid ==
    ASSUME TypeOK, CreateDir
    PROVE  Valid' = Valid
BY DEF CreateDir, Valid, TypeOK

LEMMA RemovalShrinksValid ==
    ASSUME TypeOK, RemoveSome \/ RemoveEnds
    PROVE  Valid' \subseteq Valid
<1>1. CASE RemoveSome
  BY <1>1 DEF RemoveSome, Valid, TypeOK
<1>2. CASE RemoveEnds
  BY <1>2 DEF RemoveEnds, Valid, TypeOK
<1> QED  BY <1>1, <1>2

LEMMA CommitMovesUp ==
    ASSUME IndInv, TypeOK', Commit
    PROVE  /\ FindLoadStep' = writing /\ writing > FindLoadStep
           /\ writing \in Steps /\ Valid' = Valid \union {writing}
<1> USE DEF IndInv
<1>1. writing \in Steps /\ writing # NoStep /\ FindLoadStep < writing
  BY DEF Commit, TypeOK, WriterInv
<1>2. Valid' = Valid \union {writing}
  BY <1>1 DEF Commit, Valid, TypeOK, Complete
<1>3. FindLoadStep \in Int /\ writing \in Int
  BY <1>1, LoadStep DEF Steps, NoStep
<1>4. \A s \in Valid' : s <= writing
  <2>1. \A s \in Valid : s \in Int /\ s <= FindLoadStep
    BY LoadStep DEF Valid, Steps
  <2> QED  BY <1>1, <1>2, <1>3, <2>1
<1>5. writing <= FindLoadStep' /\ FindLoadStep' \in Valid'
  BY <1>1, <1>2, LoadStepNext DEF Steps, NoStep
<1>6. FindLoadStep' = writing
  BY <1>1, <1>2, <1>3, <1>4, <1>5 DEF Valid, Steps
<1> QED  BY <1>1, <1>2, <1>6

-----------------------------------------------------------------------------
LEMMA WriterStep == IndInv /\ [Next]_vars => WriterInv'
<1> SUFFICES ASSUME IndInv, [Next]_vars PROVE WriterInv'
  OBVIOUS
<1> USE DEF IndInv
<1>a. TypeOK'
  BY TypeStep
<1>b. /\ FindLoadStep \in Int /\ step \in Int /\ writing \in Int
      /\ FindLoadStep >= -1 /\ writing >= -1 /\ step >= 0 /\ step' \in Int
  BY <1>a, LoadStep DEF TypeOK, Steps, NoStep
<1>c. FindLoadStep' \in Int
  BY <1>a, LoadStepNext DEF Steps, NoStep
<1>d. UNCHANGED disk => FindLoadStep' = FindLoadStep
  BY SameDisk
<1>1. CASE Start
  <2>1. step' >= FindLoadStep /\ step' >= 0
    BY <1>1, <1>b DEF Start, NoStep
  <2> QED  BY <1>1, <1>b, <1>d, <2>1 DEF Start, WriterInv, writerVars, purgeVars
<1>2. CASE TrainStep
  BY <1>2, <1>b, <1>d DEF TrainStep, WriterInv, purgeVars, NoStep
<1>3. CASE LeaveLoop
  BY <1>3, <1>d DEF LeaveLoop, WriterInv, writerVars, purgeVars
<1>4. CASE SkipSave
  BY <1>4, <1>b, <1>d DEF SkipSave, WriterInv, writerVars, purgeVars
<1>5. CASE BeginSave
  BY <1>5, <1>b, <1>d DEF BeginSave, WriterInv, purgeVars
<1>6. CASE SaveRaises
  BY <1>6, <1>b, <1>d DEF SaveRaises, WriterInv, writerVars, purgeVars
<1>7. CASE SaveReturns
  BY <1>7, <1>d DEF SaveReturns, WriterInv, writerVars, purgeVars
<1>8. CASE PurgeStale
  BY <1>8, <1>d DEF PurgeStale, WriterInv, writerVars
<1>9. CASE StagingDone
  BY <1>9, <1>d DEF StagingDone, WriterInv, procVars, purgeVars
<1>10. CASE CreateDir
  <2>1. FindLoadStep' = FindLoadStep
    BY <1>10, CreateKeepsValid, SameValid
  <2> QED  BY <1>10, <2>1 DEF CreateDir, WriterInv, procVars, writerVars, purgeVars
<1>11. CASE Commit
  <2>1. FindLoadStep' = writing /\ writing # NoStep
    BY <1>11, <1>a, CommitMovesUp DEF Commit
  <2> QED  BY <1>11, <1>b, <2>1 DEF Commit, WriterInv, procVars, purgeVars, NoStep
<1>12. CASE WriteFails
  BY <1>12, <1>d, <1>b DEF WriteFails, WriterInv, procVars, purgeVars, NoStep
<1>13. CASE TakePath
  <2>1. proc # "down"
    BY <1>13 DEF TakePath, WriterInv
  <2> QED  BY <1>13, <1>d, <2>1 DEF TakePath, WriterInv, procVars, writerVars
<1>14. CASE RemoveSome \/ RemoveEnds
  <2>1. FindLoadStep' <= FindLoadStep
    BY <1>14, <1>a, RemovalShrinksValid, FewerValid
  <2>2. proc # "down" /\ UNCHANGED <<proc, step, writing, failed, doomed>>
    BY <1>14 DEF RemoveSome, RemoveEnds, WriterInv, procVars, purgeVars, Dirs, Steps, NoStep
  <2> QED  BY <1>b, <1>c, <2>1, <2>2 DEF WriterInv
<1>15. CASE Close
  BY <1>15, <1>d DEF Close, WriterInv, purgeVars
<1>16. CASE Crash
  BY <1>16, <1>d DEF Crash, WriterInv
<1>17. CASE UNCHANGED vars
  BY <1>17, <1>d DEF vars, WriterInv, procVars, writerVars, purgeVars
<1> QED
  BY <1>1, <1>2, <1>3, <1>4, <1>5, <1>6, <1>7, <1>8, <1>9, <1>10, <1>11, <1>12,
     <1>13, <1>14, <1>15, <1>16, <1>17 DEF Next

-----------------------------------------------------------------------------
LEMMA ScheduleStep == IndInv /\ [Next]_vars => ScheduleInv'
<1> SUFFICES ASSUME IndInv, [Next]_vars PROVE ScheduleInv'
  OBVIOUS
<1> USE DEF IndInv
<1>a. TypeOK'
  BY TypeStep
<1>b. /\ FindLoadStep \in Int /\ step \in Int /\ writing \in Int
      /\ FindLoadStep >= -1 /\ writing >= -1 /\ step >= 0 /\ step' \in Int
      /\ Steps \subseteq Nat
  BY <1>a, LoadStep DEF TypeOK, Steps, NoStep
<1>c. UNCHANGED disk => Dirs' = Dirs /\ FindLoadStep' = FindLoadStep
  BY SameDisk
<1>d. ASSUME UNCHANGED schedule
      PROVE  \A u \in Steps : ShouldSave(u)' <=> ShouldSave(u)
  BY <1>d DEF ShouldSave
<1>e. ASSUME UNCHANGED schedule, FindLoadStep' = FindLoadStep, NEW t \in Steps
      PROVE  NextDue(t)' <=> NextDue(t)
  BY <1>d, <1>e DEF NextDue
\* Nothing the invariant is about moves, but the loop may advance.
<1>f. ASSUME UNCHANGED <<schedule, changed, starts>>,
             FindLoadStep' = FindLoadStep,
             \A t \in Dirs' : t \in Dirs \/ t <= FindLoadStep \/ t = writing,
             starts = 0 => Dirs' \subseteq Dirs /\ UNCHANGED proc,
             writing' \in {writing, NoStep},
             proc' \in {"train", "save", "write", "purge"} /\ ~failed' =>
                 /\ writing' = writing
                 /\ proc \in {"train", "save", "write", "purge"} /\ ~failed
                 /\ \A u \in Steps : u <= Passed' => u <= Passed \/ ~ShouldSave(u)
      PROVE  ScheduleInv'
  <2>1. (starts = 0 => proc = "down" /\ \A t \in Dirs : t <= FindLoadStep)'
    BY <1>f DEF ScheduleInv
  <2>2. ASSUME ~changed', NEW t \in Steps, (t \in Dirs' /\ t > FindLoadStep') \/ t = writing'
        PROVE  NextDue(t)'
    <3>1. (t \in Dirs /\ t > FindLoadStep) \/ t = writing
      BY <1>b, <1>f, <2>2 DEF NoStep
    <3> QED  BY <1>e, <1>f, <2>2, <3>1 DEF ScheduleInv
  <2>3. ASSUME ~changed', proc' \in {"train", "save", "write", "purge"}, ~failed',
               NEW u \in Steps, FindLoadStep' < u, 1 <= u, u <= Passed', ShouldSave(u)'
        PROVE  u = writing'
    <3>1. ShouldSave(u)
      BY <1>d, <1>f, <2>3
    <3> QED  BY <1>f, <2>3, <3>1 DEF ScheduleInv
  <2> QED  BY <2>1, <2>2, <2>3 DEF ScheduleInv
<1>1. CASE Start
  <2>1. writing' = NoStep /\ starts' # 0 /\ proc' = "train" /\ UNCHANGED disk
    BY <1>1, <1>b DEF Start, WriterInv, writerVars, TypeOK
  <2>2. Passed' = step' /\ \A u \in Steps : FindLoadStep' < u /\ 1 <= u => ~ (u <= Passed')
    <3>1. Passed' = IF FindLoadStep = NoStep THEN 0 ELSE FindLoadStep
      BY <1>1, <2>1 DEF Start, Passed
    <3>2. Passed' = step'
      BY <2>1 DEF Passed
    <3> QED  BY <1>b, <1>c, <2>1, <3>1, <3>2 DEF NoStep
  <2>3. ASSUME ~changed', NEW t \in Steps, (t \in Dirs' /\ t > FindLoadStep') \/ t = writing'
        PROVE  NextDue(t)'
    <3>1. t \in Dirs /\ t > FindLoadStep
      BY <1>b, <1>c, <2>1, <2>3 DEF NoStep
    <3>2. starts > 0 /\ UNCHANGED schedule /\ ~changed
      <4>1. starts > 0
        <5>1. ~ (t <= FindLoadStep)
          BY <1>b, <3>1
        <5> QED  BY <3>1, <5>1 DEF ScheduleInv, TypeOK
      <4>2. ~ (changed \/ (starts > 0 /\ schedule' # schedule))
        BY <1>1, <2>3, Zenon DEF Start
      <4> QED  BY <4>1, <4>2
    <3> QED  BY <1>c, <1>e, <2>1, <3>1, <3>2 DEF ScheduleInv
  <2> QED  BY <2>1, <2>2, <2>3 DEF ScheduleInv
<1>2. CASE TrainStep
  <2>1. Passed' = Passed
    BY <1>2, <1>b DEF TrainStep, Passed
  <2> QED  BY <1>2, <1>c, <1>f, <2>1 DEF TrainStep, ScheduleInv
<1>3. CASE LeaveLoop
  BY <1>3, <1>c, <1>f DEF LeaveLoop, writerVars, ScheduleInv
<1>4. CASE SkipSave
  <2>1. Passed' = step /\ Passed = step - 1 /\ ~ShouldSave(step)
    BY <1>4, <1>b DEF SkipSave, Passed
  <2>2. \A u \in Steps : u <= Passed' => u <= Passed \/ ~ShouldSave(u)
    BY <1>b, <2>1
  <2> QED  BY <1>4, <1>c, <1>f, <2>2 DEF SkipSave, writerVars, ScheduleInv
<1>5. CASE BeginSave
  <2>1. /\ UNCHANGED <<schedule, changed, starts, disk>> /\ writing = NoStep
        /\ writing' = step /\ ~failed /\ proc = "save" /\ proc' # "save" /\ ShouldSave(step)
        /\ Passed' = step /\ Passed = step - 1 /\ step >= 1 /\ step \in Steps
        /\ UNCHANGED step
    BY <1>5, <1>b DEF BeginSave, SaveWaited, Passed, WriterInv, TypeOK
  <2>2. ASSUME ~changed PROVE NextDue(step)
    <3>1. \A u \in Steps : FindLoadStep < u /\ 1 <= u /\ u <= step - 1 => ~ShouldSave(u)
      BY <1>b, <2>1, <2>2 DEF ScheduleInv, NoStep
    <3> QED  BY <1>b, <2>1, <3>1 DEF NextDue
  <2>3. ASSUME ~changed', NEW t \in Steps, (t \in Dirs' /\ t > FindLoadStep') \/ t = writing'
        PROVE  NextDue(t)'
    <3>1. NextDue(t)
      BY <1>c, <2>1, <2>2, <2>3 DEF ScheduleInv
    <3> QED  BY <1>c, <1>e, <2>1, <3>1
  <2>4. ASSUME ~changed', NEW u \in Steps, FindLoadStep' < u, 1 <= u, u <= Passed',
               ShouldSave(u)'
        PROVE  u = writing'
    <3>1. ShouldSave(u) /\ FindLoadStep < u
      BY <1>c, <1>d, <2>1, <2>4
    <3>2. u <= step - 1 => u = NoStep
      BY <2>1, <2>4, <3>1 DEF ScheduleInv
    <3> QED  BY <1>b, <2>1, <2>4, <3>2 DEF NoStep
  <2>5. (starts = 0 => proc = "down" /\ \A t \in Dirs : t <= FindLoadStep)'
    BY <2>1 DEF ScheduleInv
  <2> QED  BY <2>3, <2>4, <2>5 DEF ScheduleInv
<1>6. CASE SaveRaises
  BY <1>6, <1>c, <1>f DEF SaveRaises, writerVars, ScheduleInv
<1>7. CASE SaveReturns
  <2>1. Passed' = Passed
    BY <1>7 DEF SaveReturns, Passed
  <2> QED  BY <1>7, <1>c, <1>f, <2>1 DEF SaveReturns, writerVars, ScheduleInv
<1>8. CASE PurgeStale
  <2>1. Passed' = Passed
    BY <1>8 DEF PurgeStale, Passed
  <2> QED  BY <1>8, <1>c, <1>f, <2>1 DEF PurgeStale, writerVars, ScheduleInv
<1>9. CASE StagingDone
  <2>1. Passed' = Passed
    BY <1>9 DEF StagingDone, Passed, procVars
  <2> QED  BY <1>9, <1>c, <1>f, <2>1 DEF StagingDone, procVars, ScheduleInv
<1>10. CASE CreateDir
  <2>1. FindLoadStep' = FindLoadStep
    BY <1>10, CreateKeepsValid, SameValid
  <2>2. Passed' = Passed /\ starts # 0
    BY <1>10 DEF CreateDir, Passed, procVars, ScheduleInv, WriterInv
  <2>3. Dirs' \subseteq Dirs \union {writing}
    BY <1>10 DEF CreateDir, Dirs, TypeOK
  <2> QED  BY <1>10, <1>f, <2>1, <2>2, <2>3 DEF CreateDir, procVars, writerVars, ScheduleInv
<1>11. CASE Commit
  <2>1. /\ FindLoadStep' = writing /\ writing > FindLoadStep /\ writing \in Steps
        /\ writing' = NoStep /\ UNCHANGED <<schedule, changed, starts, proc, step, failed>>
    BY <1>11, <1>a, CommitMovesUp DEF Commit, procVars
  <2>2. starts # 0 /\ Dirs' = Dirs /\ Passed' = Passed
    BY <1>11, <2>1 DEF Commit, Dirs, TypeOK, Complete, ScheduleInv, WriterInv, Passed
  <2>3. ASSUME ~changed, NEW t \in Steps, t \in Dirs, t > writing PROVE FALSE
    <3>1. NextDue(t) /\ NextDue(writing)
      BY <1>b, <2>1, <2>3 DEF ScheduleInv
    <3> QED  BY <1>b, <2>1, <2>3, <3>1 DEF NextDue
  <2>4. ASSUME ~changed, NEW t \in Steps, (t \in Dirs' /\ t > FindLoadStep') \/ t = writing'
        PROVE  NextDue(t)'
    BY <1>b, <2>1, <2>2, <2>3, <2>4 DEF NoStep
  <2>5. ASSUME ~changed, proc' \in {"train", "save", "write", "purge"}, ~failed',
               NEW u \in Steps, FindLoadStep' < u, 1 <= u, u <= Passed', ShouldSave(u)'
        PROVE  u = writing'
    <3>1. ShouldSave(u)
      BY <1>d, <2>1, <2>5
    <3>2. u = writing
      BY <1>b, <2>1, <2>2, <2>5, <3>1 DEF ScheduleInv
    <3> QED  BY <1>b, <2>1, <2>5, <3>2
  <2> QED  BY <2>1, <2>2, <2>4, <2>5 DEF ScheduleInv
<1>12. CASE WriteFails
  <2>1. starts # 0
    BY <1>12 DEF WriteFails, ScheduleInv, WriterInv
  <2> QED  BY <1>12, <1>c, <1>f, <2>1 DEF WriteFails, procVars, ScheduleInv
<1>13. CASE TakePath
  <2>1. Passed' = Passed
    BY <1>13 DEF TakePath, Passed, procVars
  <2> QED  BY <1>13, <1>c, <1>f, <2>1 DEF TakePath, procVars, writerVars, ScheduleInv
<1>14. CASE RemoveSome \/ RemoveEnds
  <2>1. Dirs' \subseteq Dirs /\ Passed' = Passed
    BY <1>14 DEF RemoveSome, RemoveEnds, Dirs, TypeOK, Passed, procVars
  <2>2. UNCHANGED <<schedule, changed, starts, proc, writing, failed>>
    BY <1>14 DEF RemoveSome, RemoveEnds, procVars
  <2>3. CASE changed
    BY <2>1, <2>2, <2>3, <1>14 DEF RemoveSome, RemoveEnds, ScheduleInv, WriterInv, Dirs, Steps, NoStep
  <2>4. CASE ~changed
    <3>1. removing \in Steps /\ TwoAbove(removing)
      BY <1>14 DEF RemoveSome, RemoveEnds, PurgeInv, TypeOK, Dirs, Steps, NoStep
    <3>2. removing < FindLoadStep
      BY <2>4, <3>1, NoDamage DEF LeftOversHarmless
    <3>3. FindLoadStep \in Valid /\ FindLoadStep # removing
      BY <1>b, <3>1, <3>2, LoadStep DEF NoStep
    <3>4. FindLoadStep \in Valid'
      BY <1>14, <3>3 DEF RemoveSome, RemoveEnds, Valid, TypeOK
    <3>5. FindLoadStep' = FindLoadStep
      <4>1. FindLoadStep' <= FindLoadStep
        BY <1>14, <1>a, RemovalShrinksValid, FewerValid
      <4>2. FindLoadStep <= FindLoadStep' /\ FindLoadStep' \in Int
        BY <1>a, <3>4, LoadStepNext DEF Steps, NoStep
      <4> QED  BY <1>b, <4>1, <4>2
    <3> QED  BY <1>f, <2>1, <2>2, <3>5
  <2> QED  BY <2>3, <2>4
<1>15. CASE Close
  BY <1>15, <1>c, <1>f DEF Close, ScheduleInv
<1>16. CASE Crash
  BY <1>16, <1>c, <1>f DEF Crash, ScheduleInv
<1>17. CASE UNCHANGED vars
  <2>1. Passed' = Passed
    BY <1>17 DEF vars, Passed, procVars
  <2> QED  BY <1>17, <1>c, <1>f, <2>1 DEF vars, procVars, writerVars, ScheduleInv
<1> QED
  BY <1>1, <1>2, <1>3, <1>4, <1>5, <1>6, <1>7, <1>8, <1>9, <1>10, <1>11, <1>12,
     <1>13, <1>14, <1>15, <1>16, <1>17 DEF Next

-----------------------------------------------------------------------------
LEMMA IndInit == Init => IndInv
<1> SUFFICES ASSUME Init PROVE IndInv
  OBVIOUS
<1>1. TypeOK
  BY TypeInit
<1>2. /\ FindLoadStep \in Steps \union {NoStep} /\ \A s \in Valid : s <= FindLoadStep
      /\ Steps \subseteq Nat
  BY <1>1, LoadStep DEF Steps
<1>3. \A s \in Steps : disk[s] \in {"none", "model"}
  BY DEF Init
<1>4. PurgeInv
  BY <1>1, <1>3 DEF Init, PurgeInv
<1>5. WriterInv
  BY DEF Init, WriterInv
<1>6. \A t \in Dirs : t <= FindLoadStep
  BY <1>2, <1>3 DEF Dirs, Valid
<1>7. ScheduleInv
  <2>1. NoStep \notin Steps
    BY <1>2 DEF NoStep
  <2>2. \A t \in Steps : ~ (t \in Dirs /\ t > FindLoadStep) /\ t # writing
    BY <1>2, <1>6, <2>1 DEF Init, NoStep
  <2> QED  BY <1>6, <2>2 DEF Init, ScheduleInv
<1> QED  BY <1>1, <1>4, <1>5, <1>7 DEF IndInv

\* One step never moves the resume point back.
LEMMA ResumeStep ==
    IndInv /\ [Next]_vars => (LeftOversHarmless => ResumePoint' >= ResumePoint)
<1> SUFFICES ASSUME IndInv, [Next]_vars, LeftOversHarmless
             PROVE  ResumePoint' >= ResumePoint
  OBVIOUS
<1>a. TypeOK /\ TypeOK' /\ PurgeInv
  BY TypeStep DEF IndInv
<1>b. /\ FindLoadStep \in Steps \union {NoStep} /\ FindLoadStep \in Int
      /\ FindLoadStep # NoStep => FindLoadStep \in Valid
      /\ Steps \subseteq Nat
  BY <1>a, LoadStep DEF Steps, NoStep
<1>c. ResumePoint = FindLoadStep
  <2>1. ASSUME FindLoadStep # NoStep, disk[FindLoadStep] = "broken" PROVE FALSE
    <3>1. TwoAbove(FindLoadStep)
      BY <1>a, <1>b, <2>1 DEF PurgeInv
    <3> QED  BY <1>b, <3>1, NoDamage
  <2> QED  BY <2>1 DEF ResumePoint
<1>1. CASE UNCHANGED disk
  <2>1. ResumePoint' = ResumePoint
    BY <1>1, SameDisk DEF ResumePoint
  <2> QED  BY <1>b, <1>c, <2>1
<1>2. CASE CreateDir
  <2>1. FindLoadStep' = FindLoadStep
    BY <1>2, <1>a, CreateKeepsValid, SameValid
  <2>2. FindLoadStep # NoStep => disk'[FindLoadStep] = disk[FindLoadStep]
    BY <1>2, <1>a, <1>b DEF CreateDir, TypeOK, Valid
  <2>3. ResumePoint' = ResumePoint
    BY <2>1, <2>2 DEF ResumePoint
  <2> QED  BY <1>b, <1>c, <2>3
<1>3. CASE Commit
  <2>1. FindLoadStep' = writing /\ writing > FindLoadStep /\ writing \in Steps
    BY <1>3, <1>a, CommitMovesUp
  <2>2. writing # NoStep
    BY <1>3 DEF Commit
  <2>3. copy # "mixed"
    <3>1. TwoAbove(writing) => writing < FindLoadStep
      BY <2>1, NoDamage
    <3> QED  BY <1>a, <1>b, <2>1, <2>2, <3>1 DEF PurgeInv
  <2>4. disk'[writing] # "broken"
    BY <1>3, <1>a, <2>1, <2>3 DEF Commit, Complete, TypeOK
  <2>5. ResumePoint' = writing
    BY <2>1, <2>2, <2>4 DEF ResumePoint
  <2> QED  BY <1>b, <1>c, <2>1, <2>5
<1>4. CASE RemoveSome \/ RemoveEnds
  <2>1. removing \in Steps /\ TwoAbove(removing)
    BY <1>4, <1>a, <1>b DEF RemoveSome, RemoveEnds, PurgeInv, TypeOK, Dirs, NoStep
  <2>2. removing < FindLoadStep
    BY <2>1, NoDamage
  <2>3. FindLoadStep \in Valid /\ FindLoadStep # removing /\ FindLoadStep # NoStep
    BY <1>b, <2>1, <2>2 DEF NoStep
  <2>4. disk'[FindLoadStep] = disk[FindLoadStep] /\ FindLoadStep \in Valid'
    BY <1>4, <1>a, <2>3 DEF RemoveSome, RemoveEnds, Valid, TypeOK
  <2>5. FindLoadStep' = FindLoadStep
    <3>1. FindLoadStep' <= FindLoadStep
      BY <1>4, <1>a, RemovalShrinksValid, FewerValid
    <3>2. FindLoadStep <= FindLoadStep' /\ FindLoadStep' \in Int
      BY <1>a, <2>4, LoadStepNext DEF Steps, NoStep
    <3> QED  BY <1>b, <3>1, <3>2
  <2>6. ResumePoint' = ResumePoint
    BY <2>4, <2>5 DEF ResumePoint
  <2> QED  BY <1>b, <1>c, <2>6
<1>5. UNCHANGED disk \/ CreateDir \/ Commit \/ RemoveSome \/ RemoveEnds
  BY DEF Next, vars, Start, TrainStep, LeaveLoop, SkipSave, BeginSave, SaveRaises,
         SaveReturns, PurgeStale, StagingDone, WriteFails, TakePath, Close, Crash
<1> QED  BY <1>1, <1>2, <1>3, <1>4, <1>5

\* Whatever crashes, fails or is deleted, a restart resumes where it would have a
\* moment before or later, as long as a restart under another schedule left no
\* incomplete newer directory: for every schedule and every keep_latest_k the
\* configuration accepts.
THEOREM NoRegress == Spec => ResumeNeverRegresses
<1>1. IndInv /\ [Next]_vars => IndInv'
  BY TypeStep, PurgeStep, WriterStep, ScheduleStep DEF IndInv
<1>2. IndInv /\ [Next]_vars => [LeftOversHarmless => ResumePoint' >= ResumePoint]_vars
  BY ResumeStep
<1> QED  BY IndInit, <1>1, <1>2, PTL DEF Spec, ResumeNeverRegresses

-----------------------------------------------------------------------------
(* What a crash may lose.                                                  *)

Live == proc \in {"train", "save", "write", "purge"}

\* A save is due at u, its turn is over, and nothing says that u is safe: no
\* complete directory as new as u, and no two directories newer than u, which is
\* what a directory deleted after it was written has.
Pending(u) ==
    /\ 1 <= u /\ u <= Passed /\ ShouldSave(u)
    /\ FindLoadStep < u
    /\ ~TwoAbove(u)

\* At most one save is pending: the one being written, or the one that failed.
LossInv ==
    /\ writing # NoStep => ~failed
    /\ Live => \A u, v \in Steps :
                  Pending(u) /\ Pending(v) => u = v /\ (~failed => u = writing)

\* A step that saves nothing and keeps the directories adds no pending save.
LEMMA NothingPending ==
    ASSUME LossInv, UNCHANGED schedule,
           Live' => /\ Live
                    /\ \A u \in Steps : u <= Passed' => u <= Passed \/ ~ShouldSave(u),
           \A u \in Steps : FindLoadStep' < u /\ ~TwoAbove(u)' => FindLoadStep < u /\ ~TwoAbove(u),
           writing' # NoStep => UNCHANGED <<writing, failed>>,
           Live' /\ ~failed' => UNCHANGED <<writing, failed>>
    PROVE  LossInv'
<1>1. \A u \in Steps : Live' /\ Pending(u)' => Live /\ Pending(u)
  BY DEF Pending, ShouldSave
<1> QED  BY <1>1 DEF LossInv

LEMMA LossStep == IndInv /\ LossInv /\ [Next]_vars => LossInv'
<1> SUFFICES ASSUME IndInv, LossInv, [Next]_vars PROVE LossInv'
  OBVIOUS
<1> USE DEF IndInv
<1>a. TypeOK'
  BY TypeStep
<1>b. /\ FindLoadStep \in Int /\ step \in Int /\ writing \in Int
      /\ FindLoadStep >= -1 /\ writing >= -1 /\ step >= 0 /\ step' \in Int
      /\ Steps \subseteq Nat
  BY <1>a, LoadStep DEF TypeOK, Steps, NoStep
<1>c. ASSUME UNCHANGED disk, NEW u \in Steps, FindLoadStep' < u, ~TwoAbove(u)'
      PROVE  FindLoadStep < u /\ ~TwoAbove(u)
  BY <1>c, SameDisk
<1>1. CASE Start
  <2>1. writing' = NoStep /\ proc' = "train"
    BY <1>1 DEF Start, WriterInv, writerVars
  <2>2. FindLoadStep' = FindLoadStep
    BY <1>1, SameDisk DEF Start
  <2>3. Passed' = IF FindLoadStep = NoStep THEN 0 ELSE FindLoadStep
    BY <1>1, <2>1 DEF Start, Passed
  <2>4. \A u \in Steps : ~Pending(u)'
    BY <1>b, <2>2, <2>3 DEF Pending, NoStep
  <2> QED  BY <2>1, <2>4 DEF LossInv
<1>2. CASE TrainStep
  <2>1. Passed' = Passed /\ Live /\ UNCHANGED <<schedule, disk, writing, failed>>
    BY <1>2, <1>b DEF TrainStep, Passed, Live
  <2> QED  BY <1>c, <2>1, NothingPending
<1>3. CASE LeaveLoop \/ SaveRaises \/ Close \/ Crash
  <2>1. ~Live' /\ UNCHANGED disk /\ (UNCHANGED <<writing, failed>> \/ writing' = NoStep)
    BY <1>3 DEF LeaveLoop, SaveRaises, Close, Crash, Live, writerVars
  <2> QED  BY <2>1 DEF LossInv
<1>4. CASE SkipSave
  <2>1. Live /\ UNCHANGED <<schedule, disk, writing, failed>>
    BY <1>4 DEF SkipSave, Live, writerVars
  <2>2. Passed' = step /\ Passed = step - 1 /\ ~ShouldSave(step)
    BY <1>4 DEF SkipSave, Passed
  <2>3. \A u \in Steps : u <= Passed' => u <= Passed \/ ~ShouldSave(u)
    BY <1>b, <2>2
  <2> QED  BY <1>c, <2>1, <2>3, NothingPending
<1>5. CASE BeginSave
  <2>1. /\ Live /\ writing = NoStep /\ ~failed /\ writing' = step
        /\ UNCHANGED <<schedule, disk, failed, step>>
        /\ Passed = step - 1 /\ Passed' = step
    BY <1>5 DEF BeginSave, SaveWaited, Live, Passed
  <2>2. \A u \in Steps : ~Pending(u)
    BY <1>b, <2>1 DEF LossInv, NoStep
  <2>3. ASSUME NEW u \in Steps, Pending(u)' PROVE u = step
    <3>1. 1 <= u /\ u <= step /\ ShouldSave(u) /\ FindLoadStep < u /\ ~TwoAbove(u)
      BY <1>c, <2>1, <2>3 DEF Pending, ShouldSave
    <3>2. ~ (u <= Passed)
      BY <2>2, <3>1 DEF Pending
    <3> QED  BY <1>b, <2>1, <3>1, <3>2
  <2> QED  BY <2>1, <2>3 DEF LossInv
<1>6. CASE SaveReturns \/ PurgeStale \/ StagingDone \/ TakePath
  <2>1. /\ UNCHANGED <<schedule, disk, writing, failed, step>>
        /\ Live' => Live /\ Passed' = Passed
    BY <1>6 DEF SaveReturns, PurgeStale, StagingDone, TakePath, procVars, writerVars, Live, Passed
  <2> QED  BY <1>c, <2>1, NothingPending
<1>7. CASE CreateDir
  <2>1. FindLoadStep' = FindLoadStep
    BY <1>7, CreateKeepsValid, SameValid
  <2>2. \A u \in Steps : TwoAbove(u) => TwoAbove(u)'
    BY <1>7, MoreDirs DEF CreateDir, Dirs, TypeOK
  <2>3. UNCHANGED <<schedule, writing, failed, step, proc>> /\ Passed' = Passed
    BY <1>7 DEF CreateDir, procVars, writerVars, Passed
  <2> QED  BY <2>1, <2>2, <2>3, NothingPending DEF Live
<1>8. CASE Commit
  <2>1. FindLoadStep' = writing /\ writing > FindLoadStep
    BY <1>8, <1>a, CommitMovesUp
  <2>2. /\ writing # NoStep /\ writing' = NoStep
        /\ UNCHANGED <<schedule, failed, step, proc>> /\ Passed' = Passed
    BY <1>8 DEF Commit, procVars, Passed
  <2>3. \A u \in Steps : TwoAbove(u) => TwoAbove(u)'
    BY <1>8, MoreDirs DEF Commit, Dirs, TypeOK, Complete
  <2>4. ASSUME Live, NEW u \in Steps, Pending(u)' PROVE FALSE
    <3>1. Pending(u)
      BY <1>b, <2>1, <2>2, <2>3, <2>4 DEF Pending, ShouldSave
    <3>2. u = writing
      BY <2>2, <2>4, <3>1 DEF LossInv
    <3> QED  BY <1>b, <2>1, <2>4, <3>2 DEF Pending
  <2> QED  BY <2>2, <2>4 DEF LossInv, Live
<1>9. CASE WriteFails
  <2>1. /\ UNCHANGED <<schedule, disk, step, proc>> /\ Passed' = Passed
        /\ failed' /\ writing' = NoStep
    BY <1>9 DEF WriteFails, procVars, Passed
  <2> QED  BY <1>c, <2>1, NothingPending DEF Live
<1>10. CASE RemoveSome \/ RemoveEnds
  <2>1. UNCHANGED <<schedule, writing, failed, step, proc>> /\ Passed' = Passed
    BY <1>10 DEF RemoveSome, RemoveEnds, procVars, Passed
  <2>2. removing \in Steps /\ TwoAbove(removing)
    BY <1>10 DEF RemoveSome, RemoveEnds, PurgeInv, TypeOK, Dirs, Steps, NoStep
  <2>3. \A u \in Steps : TwoAbove(u) => TwoAbove(u)'
    <3>1. CASE Dirs \subseteq Dirs'
      <4> TAKE u \in Steps
      <4> QED  BY <3>1, MoreDirs
    <3>2. CASE Dirs' = Dirs \ {removing}
      <4> TAKE u \in Steps
      <4> QED  BY <2>2, <3>2, RemovalKeepsTwoAbove
    <3>3. Dirs \subseteq Dirs' \/ Dirs' = Dirs \ {removing}
      BY <1>10 DEF RemoveSome, RemoveEnds, Dirs, TypeOK
    <3> QED  BY <3>1, <3>2, <3>3
  <2>4. ASSUME NEW u \in Steps, FindLoadStep' < u, ~TwoAbove(u)'
        PROVE  FindLoadStep < u
    <3>1. SUFFICES ASSUME u <= FindLoadStep PROVE FALSE
      BY <1>b
    <3>2. FindLoadStep \in Valid /\ FindLoadStep # NoStep
      BY <1>b, <3>1, LoadStep DEF NoStep
    <3>3. FindLoadStep \notin Valid'
      BY <1>a, <1>b, <2>4, <3>1, LoadStepNext DEF Steps, NoStep
    <3>4. PICK r \in Steps : r = removing /\ r = FindLoadStep
      BY <1>10, <2>2, <3>2, <3>3 DEF RemoveSome, RemoveEnds, Valid, TypeOK
    <3>5. TwoAbove(r)'
      BY <2>2, <2>3, <3>4
    <3>6. TwoAbove(u)'
      <4>1. PICK t, v \in Dirs' : r < t /\ t < v
        BY <3>5 DEF TwoAbove
      <4>2. u < t
        BY <1>b, <3>1, <3>4, <4>1 DEF Dirs
      <4> QED  BY <4>1, <4>2 DEF TwoAbove
    <3> QED  BY <2>4, <3>6
  <2> QED  BY <2>1, <2>3, <2>4, NothingPending DEF Live
<1>11. CASE UNCHANGED vars
  <2>1. UNCHANGED <<schedule, disk, writing, failed, step, proc>> /\ Passed' = Passed
    BY <1>11 DEF vars, procVars, writerVars, Passed
  <2> QED  BY <1>c, <2>1, NothingPending DEF Live
<1> QED
  BY <1>1, <1>2, <1>3, <1>4, <1>5, <1>6, <1>7, <1>8, <1>9, <1>10, <1>11 DEF Next

LEMMA LossInit == Init => LossInv
BY DEF Init, LossInv, Live

\* Of the saves due since the resume point, all but the pending one and the one
\* whose turn it is are safe.
LEMMA LossOfState == IndInv /\ LossInv => LossBounded
<1> SUFFICES ASSUME IndInv, LossInv, Live, LeftOversHarmless
             PROVE  Cardinality({s \in (ResumePoint + 1)..step : s > 0 /\ ShouldSave(s)})
                        <= IF proc = "save" THEN 2 ELSE 1
  BY DEF LossBounded, Live
<1> USE DEF IndInv
<1>1. /\ FindLoadStep \in Int /\ FindLoadStep >= -1 /\ step \in Int /\ step <= MaxStep
      /\ Steps \subseteq Nat /\ MaxStep \in Nat
  BY LoadStep, CheckpointAssumption DEF TypeOK, Steps, NoStep
<1>2. ResumePoint = FindLoadStep
  <2>1. ASSUME FindLoadStep # NoStep, disk[FindLoadStep] = "broken" PROVE FALSE
    <3>1. FindLoadStep \in Steps
      BY <2>1, LoadStep
    <3>2. TwoAbove(FindLoadStep)
      BY <2>1, <3>1 DEF PurgeInv
    <3> QED  BY <1>1, <3>1, <3>2, NoDamage
  <2> QED  BY <2>1 DEF ResumePoint
<1> DEFINE Due == {s \in (ResumePoint + 1)..step : s > 0 /\ ShouldSave(s)}
<1>3. \A s \in Due : s \in Steps /\ (s <= Passed => Pending(s))
  <2> TAKE s \in Due
  <2>1. s \in Steps /\ FindLoadStep < s /\ 1 <= s /\ ShouldSave(s)
    BY <1>1, <1>2 DEF Steps
  <2>2. ~TwoAbove(s)
    BY <1>1, <2>1, NoDamage
  <2> QED  BY <2>1, <2>2 DEF Pending
<1>4. PICK w : \A s \in Due : s <= Passed => s = w
  <2>1. \A s, t \in Due : s <= Passed /\ t <= Passed => s = t
    BY <1>3 DEF LossInv
  <2> HIDE DEF Due
  <2> QED  BY <2>1
<1>5. Cardinality({w}) = 1 /\ IsFiniteSet({w})
  BY FS_Singleton
<1>6. CASE proc = "save"
  <2>1. Due \subseteq {w} \union {step}
    <3>1. \A s \in Due : s <= Passed \/ s = step
      BY <1>1, <1>6 DEF Passed
    <3> QED  BY <1>4, <3>1
  <2>2. /\ IsFiniteSet({w} \union {step})
        /\ Cardinality({w} \union {step}) \in {1, 2}
    BY <1>5, FS_AddElement
  <2> HIDE DEF Due
  <2>3. Cardinality(Due) <= Cardinality({w} \union {step}) /\ Cardinality(Due) \in Nat
    BY <2>1, <2>2, FS_Subset, FS_CardinalityType
  <2>4. Cardinality(Due) <= 2
    BY <2>2, <2>3
  <2> QED  BY <1>6, <2>4 DEF Due
<1>7. CASE proc # "save"
  <2>1. Due \subseteq {w}
    BY <1>1, <1>4, <1>7 DEF Passed
  <2> HIDE DEF Due
  <2>2. Cardinality(Due) <= Cardinality({w})
    BY <1>5, <2>1, FS_Subset
  <2>3. Cardinality(Due) <= 1
    BY <1>5, <2>2
  <2> QED  BY <1>7, <2>3 DEF Due
<1> QED  BY <1>6, <1>7

\* A crash loses at most the checkpoint being written (or the one that failed) and
\* the one due now, for every schedule, mode, keep_latest_k and history of restarts
\* that left no incomplete newer directory behind.
THEOREM LossLimit == Spec => []LossBounded
<1>1. IndInv /\ LossInv /\ [Next]_vars => IndInv' /\ LossInv'
  BY TypeStep, PurgeStep, WriterStep, ScheduleStep, LossStep DEF IndInv
<1>2. IndInv /\ LossInv => LossBounded
  BY LossOfState
<1> QED  BY IndInit, LossInit, <1>1, <1>2, PTL DEF Spec
=============================================================================
