---------------------------- MODULE RolloutProofs ----------------------------
(***************************************************************************)
(* A rollout group, from its prompt to the batch it is trained in, and the *)
(* router its calls to the generators go through.                          *)
(*                                                                         *)
(* The router, for any number of generators and sessions, every strategy,  *)
(* hot swap on or off.  None of its properties is inductive by itself.     *)
(* That a drained generator stays empty while it pulls needs the state it  *)
(* is kept in and that its load counts the calls in flight; that a woken   *)
(* call finds a server needs that the serving event follows the states and *)
(* that nobody clears it while a woken call is still to run.  That a       *)
(* session stays where it is pinned needs the order of the session map:    *)
(* who comes after a session in it has called since, so that what evicts   *)
(* it is max_sessions other sessions.                                      *)
(*                                                                         *)
(* The group, for any number of siblings and turns, whatever they are      *)
(* answered, for every batch shape.  Its invariant says little: what turn  *)
(* t of sibling i recorded is a prompt and CompletionToken(i, t, k) for    *)
(* the first k, and what follows is computed from the recorded turns.  The *)
(* work is in the computation.  Each of its stages keeps one relation, the *)
(* sampled tokens stand in the samples, each in one trained cell, under    *)
(* the context it was sampled from (Sound), and all of them do (All):      *)
(* turns are folded into samples, samples into rows by next-fit, a row is  *)
(* laid out from its samples, rows are dealt to a grid by division with    *)
(* remainder, and FlattenSeq joins the parts at each stage, so that what   *)
(* is known of it is proved first.                                         *)
(***************************************************************************)
EXTENDS RolloutGroup, GeneratorRouter, FiniteSetTheorems, SequenceTheorems,
        WellFoundedInduction, TLAPS

-----------------------------------------------------------------------------
(***************************************************************************)
(* The router.                                                             *)
(***************************************************************************)
RouterTypes ==
    /\ state \in [Generators -> {"SERVING", "SYNCING"}]
    /\ load \in [Generators -> Int]
    /\ idle \in [Generators -> BOOLEAN]
    /\ serving \in BOOLEAN
    /\ pc \in [Sessions -> {"out", "blocked", "woken", "running", "asserted"}]
    /\ on \in [Sessions -> Generators \cup {NoGenerator}]
    /\ pull \in [Generators -> {"none", "draining", "reading"}]

ServingFollows ==
    /\ serving <=> Candidates # {}
    /\ \A s \in Sessions : pc[s] = "woken" => serving

DrainHolds ==
    ~HotSwap => \A g \in Generators : pull[g] # "none" => state[g] = "SYNCING"

RunningSomewhere == \A s \in Sessions : pc[s] = "running" => on[s] \in Generators

RouterInv ==
    /\ RouterTypes
    /\ RunningSomewhere
    /\ LoadIsInFlight
    /\ ServingFollows
    /\ DrainHolds
    /\ DrainedPull
    /\ RouteFindsServer

-----------------------------------------------------------------------------
(* Sets of calls in flight. *)

LEMMA InFlightFinite ==
    ASSUME NEW g \in Generators
    PROVE  IsFiniteSet(InFlight(g)) /\ Cardinality(InFlight(g)) \in Nat
BY RouterAssumption, FS_Subset, FS_CardinalityType DEF InFlight

\* A call dispatched to h joins the calls in flight there and nowhere else.
LEMMA JoinsFlight ==
    ASSUME RouterTypes, LoadIsInFlight,
           NEW s \in Sessions, pc[s] # "running",
           NEW h \in Generators,
           Reserve(h),
           on' = [on EXCEPT ![s] = h],
           pc' = [pc EXCEPT ![s] = "running"]
    PROVE  /\ LoadIsInFlight'
           /\ \A g \in Generators : g # h => InFlight(g)' = InFlight(g)
           /\ load' \in [Generators -> Int]
           /\ idle' \in [Generators -> BOOLEAN]
<1>1. InFlight(h)' = InFlight(h) \cup {s} /\ s \notin InFlight(h)
  BY DEF InFlight, RouterTypes
<1>2. ASSUME NEW g \in Generators, g # h PROVE InFlight(g)' = InFlight(g)
  BY <1>2 DEF InFlight, RouterTypes
<1>3. Cardinality(InFlight(h)') = Cardinality(InFlight(h)) + 1
  BY <1>1, InFlightFinite, FS_AddElement
<1>4. /\ load' = [load EXCEPT ![h] = load[h] + 1]
      /\ idle' = IF load[h] = 0 THEN [idle EXCEPT ![h] = FALSE] ELSE idle
  BY DEF Reserve
<1>5. load[h] = Cardinality(InFlight(h)) /\ (idle[h] <=> InFlight(h) = {})
  BY DEF LoadIsInFlight
<1>6. load[h] = 0 <=> InFlight(h) = {}
  BY <1>5, InFlightFinite, FS_EmptySet
<1>7. idle'[h] = FALSE
  <2>1. CASE load[h] = 0
    BY <2>1, <1>4 DEF RouterTypes
  <2>2. CASE load[h] # 0
    <3>1. idle' = idle /\ InFlight(h) # {}
      BY <2>2, <1>4, <1>6
    <3> QED BY <3>1, <1>5 DEF RouterTypes
  <2> QED BY <2>1, <2>2
<1>8. load'[h] = Cardinality(InFlight(h)') /\ (idle'[h] <=> InFlight(h)' = {})
  <2>1. load'[h] = load[h] + 1
    BY <1>4 DEF RouterTypes
  <2> QED BY <2>1, <1>1, <1>3, <1>5, <1>7
<1>9. ASSUME NEW g \in Generators, g # h
      PROVE  load'[g] = Cardinality(InFlight(g)')
             /\ (idle'[g] <=> InFlight(g)' = {})
  <2>1. load'[g] = load[g] /\ idle'[g] = idle[g]
    BY <1>4, <1>9 DEF RouterTypes
  <2> QED BY <2>1, <1>2, <1>9 DEF LoadIsInFlight
<1>10. LoadIsInFlight'
  BY <1>8, <1>9 DEF LoadIsInFlight
<1> QED BY <1>2, <1>4, <1>10 DEF RouterTypes

\* A call that ends on h leaves the calls in flight there and nowhere else.
LEMMA LeavesFlight ==
    ASSUME RouterTypes, LoadIsInFlight,
           NEW s \in Sessions, pc[s] = "running",
           NEW h \in Generators, on[s] = h,
           Release(h),
           UNCHANGED on,
           pc' = [pc EXCEPT ![s] = "out"]
    PROVE  /\ LoadIsInFlight'
           /\ \A g \in Generators : InFlight(g)' \subseteq InFlight(g)
           /\ load' \in [Generators -> Int]
           /\ idle' \in [Generators -> BOOLEAN]
<1>1. InFlight(h)' = InFlight(h) \ {s} /\ s \in InFlight(h)
  BY DEF InFlight, RouterTypes
<1>2. ASSUME NEW g \in Generators, g # h PROVE InFlight(g)' = InFlight(g)
  BY <1>2 DEF InFlight, RouterTypes
<1>3. /\ Cardinality(InFlight(h)') = Cardinality(InFlight(h)) - 1
      /\ IsFiniteSet(InFlight(h)')
  BY <1>1, InFlightFinite, FS_RemoveElement
<1>4. /\ load' = [load EXCEPT ![h] = load[h] - 1]
      /\ idle' = IF load[h] - 1 = 0 THEN [idle EXCEPT ![h] = TRUE] ELSE idle
  BY DEF Release
<1>5. load[h] = Cardinality(InFlight(h)) /\ ~idle[h]
  BY <1>1 DEF LoadIsInFlight
<1>6. load[h] - 1 = 0 <=> InFlight(h)' = {}
  BY <1>3, <1>5, FS_EmptySet
<1>7. load'[h] = Cardinality(InFlight(h)') /\ (idle'[h] <=> InFlight(h)' = {})
  <2>1. load'[h] = load[h] - 1
    BY <1>4 DEF RouterTypes
  <2>2. CASE load[h] - 1 = 0
    <3>1. idle'[h]
      BY <2>2, <1>4 DEF RouterTypes
    <3> QED BY <3>1, <2>1, <2>2, <1>3, <1>5, <1>6
  <2>3. CASE load[h] - 1 # 0
    <3>1. ~idle'[h]
      BY <2>3, <1>4, <1>5 DEF RouterTypes
    <3> QED BY <3>1, <2>1, <2>3, <1>3, <1>5, <1>6
  <2> QED BY <2>2, <2>3
<1>8. ASSUME NEW g \in Generators, g # h
      PROVE  load'[g] = Cardinality(InFlight(g)')
             /\ (idle'[g] <=> InFlight(g)' = {})
  <2>1. load'[g] = load[g] /\ idle'[g] = idle[g]
    BY <1>4, <1>8 DEF RouterTypes
  <2> QED BY <2>1, <1>2, <1>8 DEF LoadIsInFlight
<1>9. LoadIsInFlight'
  BY <1>7, <1>8 DEF LoadIsInFlight
<1>10. \A g \in Generators : InFlight(g)' \subseteq InFlight(g)
  BY <1>1, <1>2
<1> QED BY <1>4, <1>9, <1>10 DEF RouterTypes

-----------------------------------------------------------------------------
(* The invariant is kept by each action. *)

LEMMA InitInv == Init => RouterInv
<1> SUFFICES ASSUME Init PROVE RouterInv
  OBVIOUS
<1>1. RouterTypes /\ RunningSomewhere
  BY DEF Init, RouterTypes, RunningSomewhere
<1>2. \A g \in Generators : InFlight(g) = {}
  BY DEF Init, InFlight
<1>3. LoadIsInFlight
  BY <1>2, FS_EmptySet DEF Init, LoadIsInFlight
<1>4. 1 \in Candidates
  BY RouterAssumption DEF Init, Candidates, Generators
<1>5. ServingFollows /\ DrainHolds /\ DrainedPull /\ RouteFindsServer
  BY <1>4 DEF Init, ServingFollows, DrainHolds, DrainedPull, RouteFindsServer
<1> QED BY <1>1, <1>3, <1>5 DEF RouterInv

\* A call is dispatched only while some generator serves, to one that serves.
LEMMA DispatchKeeps ==
    ASSUME RouterInv, UNCHANGED config, NEW s \in Sessions,
           pc[s] \in {"out", "woken"}, serving, Dispatch(s), UNCHANGED <<state, serving, pullVars>>
    PROVE  RouterInv'
<1>1. Candidates # {}
  BY DEF RouterInv, ServingFollows
<1>2. PICK g \in Candidates :
        /\ Reserve(g)
        /\ on' = [on EXCEPT ![s] = g]
        /\ pc' = [pc EXCEPT ![s] = "running"]
  BY <1>1 DEF Dispatch
<1>3. g \in Generators /\ state[g] = "SERVING" /\ pc[s] # "running"
  BY DEF Candidates
<1>4. /\ LoadIsInFlight'
      /\ \A h \in Generators : h # g => InFlight(h)' = InFlight(h)
      /\ load' \in [Generators -> Int]
      /\ idle' \in [Generators -> BOOLEAN]
  BY <1>2, <1>3, JoinsFlight DEF RouterInv
<1>5. RouterTypes' /\ RunningSomewhere'
  BY <1>2, <1>3, <1>4 DEF RouterInv, RouterTypes, RunningSomewhere, pullVars
<1>6. ServingFollows' /\ DrainHolds' /\ RouteFindsServer'
  BY <1>2 DEF HotSwap, RouterInv, RouterTypes, ServingFollows, DrainHolds,
              RouteFindsServer, Candidates, pullVars
<1>7. DrainedPull'
  <2> SUFFICES ASSUME ~HotSwap, NEW h \in Generators, pull[h] = "reading"
               PROVE  InFlight(h)' = {}
    BY DEF HotSwap, DrainedPull, pullVars
  <2>1. h # g
    BY <1>3 DEF HotSwap, RouterInv, DrainHolds
  <2> QED BY <2>1, <1>4 DEF HotSwap, RouterInv, DrainedPull
<1> QED BY <1>4, <1>5, <1>6, <1>7 DEF RouterInv

LEMMA ReturnKeeps ==
    ASSUME RouterInv, UNCHANGED config, NEW s \in Sessions, RouteReturns(s)
    PROVE  RouterInv'
<1>1. on[s] \in Generators
  BY DEF RouterInv, RunningSomewhere, RouteReturns
<1>2. /\ LoadIsInFlight'
      /\ \A g \in Generators : InFlight(g)' \subseteq InFlight(g)
      /\ load' \in [Generators -> Int]
      /\ idle' \in [Generators -> BOOLEAN]
  BY <1>1, LeavesFlight DEF RouterInv, RouteReturns
<1>3. RouterTypes' /\ RunningSomewhere'
  BY <1>2 DEF RouterInv, RouterTypes, RunningSomewhere, RouteReturns, pullVars
<1>4. ServingFollows' /\ DrainHolds' /\ RouteFindsServer'
  BY DEF HotSwap, RouterInv, RouterTypes, ServingFollows, DrainHolds,
         RouteFindsServer, Candidates, RouteReturns, pullVars
<1>5. DrainedPull'
  BY <1>2 DEF HotSwap, RouterInv, DrainedPull, RouteReturns, pullVars
<1> QED BY <1>2, <1>3, <1>4, <1>5 DEF RouterInv

LEMMA WaitKeeps ==
    ASSUME RouterInv, UNCHANGED config, NEW s \in Sessions, RouteWaits(s)
    PROVE  RouterInv'
<1>1. \A g \in Generators : InFlight(g)' = InFlight(g)
  BY DEF InFlight, RouteWaits, RouterInv, RouterTypes, callVars
<1>2. RouterTypes' /\ RunningSomewhere'
  BY DEF RouterInv, RouterTypes, RunningSomewhere, RouteWaits, callVars, pullVars
<1>3. ServingFollows' /\ DrainHolds' /\ RouteFindsServer'
  BY DEF HotSwap, RouterInv, RouterTypes, ServingFollows, DrainHolds,
         RouteFindsServer, Candidates, RouteWaits, callVars, pullVars
<1>4. LoadIsInFlight' /\ DrainedPull'
  BY <1>1 DEF HotSwap, RouterInv, LoadIsInFlight, DrainedPull, RouteWaits,
              callVars, pullVars
<1> QED BY <1>2, <1>3, <1>4 DEF RouterInv

\* Changing states keeps the calls in flight, and the serving event follows.
LEMMA SetStateKeeps ==
    ASSUME RouterInv, NEW gs, NEW st \in {"SERVING", "SYNCING"},
           SetState(gs, st), UNCHANGED callVars,
           st = "SYNCING" => \A s \in Sessions : pc[s] # "woken",
           st = "SERVING" => \E g \in gs : g \in Generators
    PROVE  /\ state' \in [Generators -> {"SERVING", "SYNCING"}]
           /\ serving' \in BOOLEAN
           /\ pc' \in [Sessions ->
                        {"out", "blocked", "woken", "running", "asserted"}]
           /\ ServingFollows' /\ LoadIsInFlight' /\ RouteFindsServer'
           /\ RunningSomewhere'
           /\ \A g \in Generators : InFlight(g)' = InFlight(g)
<1>1. /\ state' \in [Generators -> {"SERVING", "SYNCING"}]
      /\ serving' \in BOOLEAN
      /\ pc' \in [Sessions ->
                   {"out", "blocked", "woken", "running", "asserted"}]
  BY DEF SetState, RouterInv, RouterTypes
<1>2. \A s \in Sessions : pc'[s] = pc[s] \/ (pc'[s] = "woken" /\ serving')
  BY DEF SetState
<1>3. \A s \in Sessions : pc'[s] = "running" <=> pc[s] = "running"
  BY DEF SetState, RouterInv, RouterTypes
<1>4. \A g \in Generators : InFlight(g)' = InFlight(g)
  BY <1>3 DEF InFlight, callVars
<1>5. LoadIsInFlight' /\ RunningSomewhere' /\ RouteFindsServer'
  BY <1>2, <1>3, <1>4 DEF RouterInv, LoadIsInFlight, RunningSomewhere,
                          RouteFindsServer, callVars
<1>6. serving' <=> Candidates' # {}
  BY DEF SetState, Candidates
<1>7. st = "SERVING" => serving'
  BY DEF SetState
<1>8. \A s \in Sessions : pc'[s] = "woken" => serving'
  BY <1>2, <1>7
<1> QED BY <1>1, <1>4, <1>5, <1>6, <1>8 DEF ServingFollows

LEMMA RoundKeeps == ASSUME RouterInv, UNCHANGED config, PullRound PROVE RouterInv'
<1>1. CASE HotSwap
  <2>1. pull' = [g \in Generators |-> "reading"]
        /\ UNCHANGED <<state, serving, pc, callVars>>
    BY <1>1 DEF PullRound
  <2>2. RouterTypes' /\ RunningSomewhere'
    BY <2>1 DEF RouterInv, RouterTypes, RunningSomewhere, callVars
  <2>3. \A g \in Generators : InFlight(g)' = InFlight(g)
    BY <2>1 DEF InFlight, callVars
  <2>4. LoadIsInFlight' /\ ServingFollows' /\ RouteFindsServer'
    BY <2>1, <2>3 DEF RouterInv, LoadIsInFlight, ServingFollows, Candidates,
                      RouteFindsServer, callVars
  <2>5. DrainHolds' /\ DrainedPull'
    BY <1>1 DEF DrainHolds, DrainedPull, HotSwap
  <2> QED BY <2>2, <2>4, <2>5 DEF RouterInv
<1>2. CASE ~HotSwap
  <2>1. /\ pull' = [g \in Generators |-> "draining"]
        /\ SetState(Generators, "SYNCING")
        /\ UNCHANGED callVars
        /\ \A s \in Sessions : pc[s] # "woken"
    BY <1>2 DEF PullRound
  <2>2. /\ state' \in [Generators -> {"SERVING", "SYNCING"}]
        /\ serving' \in BOOLEAN
        /\ pc' \in [Sessions ->
                     {"out", "blocked", "woken", "running", "asserted"}]
        /\ ServingFollows' /\ LoadIsInFlight' /\ RouteFindsServer'
        /\ RunningSomewhere'
    BY <2>1, SetStateKeeps
  <2>3. RouterTypes'
    BY <2>1, <2>2 DEF RouterInv, RouterTypes, callVars
  <2>4. DrainHolds' /\ DrainedPull'
    BY <2>1 DEF SetState, DrainHolds, DrainedPull, HotSwap
  <2> QED BY <2>2, <2>3, <2>4 DEF RouterInv
<1> QED BY <1>1, <1>2

LEMMA DrainedKeeps ==
    ASSUME RouterInv, UNCHANGED config, NEW g \in Generators, PullDrained(g)
    PROVE  RouterInv'
<1>1. RouterTypes' /\ RunningSomewhere'
  BY DEF RouterInv, RouterTypes, RunningSomewhere, PullDrained, callVars
<1>2. \A h \in Generators : InFlight(h)' = InFlight(h)
  BY DEF InFlight, PullDrained, callVars
<1>3. LoadIsInFlight' /\ ServingFollows' /\ RouteFindsServer'
  BY <1>2 DEF RouterInv, LoadIsInFlight, ServingFollows, Candidates,
              RouteFindsServer, PullDrained, callVars
<1>4. pull' = [pull EXCEPT ![g] = "reading"] /\ pull[g] = "draining"
  BY DEF PullDrained
<1>5. DrainHolds'
  BY <1>4 DEF HotSwap, RouterInv, RouterTypes, DrainHolds, PullDrained
<1>6. InFlight(g) = {}
  BY DEF RouterInv, LoadIsInFlight, PullDrained
<1>7. DrainedPull'
  BY <1>2, <1>4, <1>6 DEF HotSwap, RouterInv, RouterTypes, DrainedPull
<1> QED BY <1>1, <1>3, <1>5, <1>7 DEF RouterInv

LEMMA PullReturnKeeps ==
    ASSUME RouterInv, UNCHANGED config, NEW g \in Generators, PullReturns(g)
    PROVE  RouterInv'
<1>1. /\ pull' = [pull EXCEPT ![g] = "none"]
      /\ pull' \in [Generators -> {"none", "draining", "reading"}]
      /\ UNCHANGED callVars
  BY DEF PullReturns, RouterInv, RouterTypes
<1>2. CASE HotSwap
  <2>1. UNCHANGED <<state, serving, pc, callVars>>
    BY <1>2, <1>1 DEF PullReturns
  <2>2. RouterTypes' /\ RunningSomewhere'
    BY <1>1, <2>1 DEF RouterInv, RouterTypes, RunningSomewhere, callVars
  <2>3. \A h \in Generators : InFlight(h)' = InFlight(h)
    BY <2>1 DEF InFlight, callVars
  <2>4. LoadIsInFlight' /\ ServingFollows' /\ RouteFindsServer'
    BY <2>1, <2>3 DEF RouterInv, LoadIsInFlight, ServingFollows, Candidates,
                      RouteFindsServer, callVars
  <2>5. DrainHolds' /\ DrainedPull'
    BY <1>2 DEF DrainHolds, DrainedPull, HotSwap
  <2> QED BY <2>2, <2>4, <2>5 DEF RouterInv
<1>3. CASE ~HotSwap
  <2>1. SetState({g}, "SERVING")
    BY <1>3 DEF PullReturns
  <2>2. /\ state' \in [Generators -> {"SERVING", "SYNCING"}]
        /\ serving' \in BOOLEAN
        /\ pc' \in [Sessions ->
                     {"out", "blocked", "woken", "running", "asserted"}]
        /\ ServingFollows' /\ LoadIsInFlight' /\ RouteFindsServer'
        /\ RunningSomewhere'
        /\ \A h \in Generators : InFlight(h)' = InFlight(h)
    BY <1>1, <2>1, SetStateKeeps
  <2>3. RouterTypes'
    BY <1>1, <2>2 DEF RouterInv, RouterTypes, callVars
  <2>4. \A h \in Generators : h # g => pull'[h] = pull[h] /\ state'[h] = state[h]
    BY <1>1, <2>1 DEF SetState, RouterInv, RouterTypes
  <2>5. pull'[g] = "none"
    BY <1>1 DEF RouterInv, RouterTypes
  <2>6. DrainHolds' /\ DrainedPull'
    BY <2>2, <2>4, <2>5 DEF RouterInv, DrainHolds, DrainedPull, HotSwap
  <2> QED BY <2>2, <2>3, <2>6 DEF RouterInv
<1> QED BY <1>2, <1>3

LEMMA StepInv == RouterInv /\ [Next]_vars => RouterInv'
<1> SUFFICES ASSUME RouterInv, [Next]_vars PROVE RouterInv'
  OBVIOUS
<1>1. CASE UNCHANGED vars
  <2>1. UNCHANGED <<config, state, load, idle, serving, pc, on, pull>>
    BY <1>1 DEF vars, callVars, pullVars
  <2>2. RouterTypes' /\ RunningSomewhere'
    BY <2>1 DEF RouterInv, RouterTypes, RunningSomewhere
  <2>3. \A g \in Generators : InFlight(g)' = InFlight(g)
    BY <2>1 DEF InFlight
  <2>4. LoadIsInFlight' /\ DrainedPull'
    BY <2>1, <2>3 DEF RouterInv, LoadIsInFlight, DrainedPull, HotSwap
  <2>5. ServingFollows' /\ DrainHolds' /\ RouteFindsServer'
    BY <2>1 DEF RouterInv, ServingFollows, Candidates, DrainHolds,
                RouteFindsServer, HotSwap
  <2> QED BY <2>2, <2>4, <2>5 DEF RouterInv
<1>2. CASE Next
  <2>0. UNCHANGED config
    BY <1>2 DEF Next
  <2>1. ASSUME NEW s \in Sessions, RouteNow(s) PROVE RouterInv'
    BY <2>0, <2>1, DispatchKeeps DEF RouteNow
  <2>2. ASSUME NEW s \in Sessions, RouteWaits(s) PROVE RouterInv'
    BY <2>0, <2>2, WaitKeeps
  <2>3. ASSUME NEW s \in Sessions, RouteResumes(s) PROVE RouterInv'
    BY <2>0, <2>3, DispatchKeeps DEF RouteResumes, RouterInv, ServingFollows
  <2>4. ASSUME NEW s \in Sessions, RouteReturns(s) PROVE RouterInv'
    BY <2>0, <2>4, ReturnKeeps
  <2>5. ASSUME PullRound PROVE RouterInv'
    BY <2>0, <2>5, RoundKeeps
  <2>6. ASSUME NEW g \in Generators, PullDrained(g) PROVE RouterInv'
    BY <2>0, <2>6, DrainedKeeps
  <2>7. ASSUME NEW g \in Generators, PullReturns(g) PROVE RouterInv'
    BY <2>0, <2>7, PullReturnKeeps
  <2> QED BY <1>2, <2>1, <2>2, <2>3, <2>4, <2>5, <2>6, <2>7 DEF Next
<1> QED BY <1>1, <1>2

LEMMA Safety == Spec => []RouterInv
BY InitInv, StepInv, PTL DEF Spec

-----------------------------------------------------------------------------
(* The theorems. *)

\* The reserved load of a generator is the number of its calls in flight, and
\* its idle event says whether there is one.
THEOREM LoadAccounting == Spec => []LoadIsInFlight
<1>1. RouterInv => LoadIsInFlight
  BY DEF RouterInv
<1> QED BY <1>1, Safety, PTL

\* A drained generator has no call in flight while it pulls.
THEOREM DrainEmpties == Spec => []DrainedPull
<1>1. RouterInv => DrainedPull
  BY DEF RouterInv
<1> QED BY <1>1, Safety, PTL

\* No call passes the serving event and finds no generator.
THEOREM NoEmptyChoice == Spec => []RouteFindsServer
<1>1. RouterInv => RouteFindsServer
  BY DEF RouterInv
<1> QED BY <1>1, Safety, PTL

-----------------------------------------------------------------------------
(* The session map of the sticky strategy.  A session is behind in a map    *)
(* when only members of a given set were used after it: this is what the    *)
(* history variable since records, and it says who is evicted first.        *)

Distinct(q) ==
    \A i, j \in DOMAIN q : q[i].session = q[j].session => i = j

Behind(q, p, S) ==
    \E i \in 1..Len(q) :
        /\ q[i] = p
        /\ \A j \in (i + 1)..Len(q) : q[j].session \in S

PinnedOrOld(s) ==
    \/ Cardinality(since[s]) >= MaxSessions
    \/ Behind(recent, [session |-> s, generator |-> on[s]], since[s])

PinInv ==
    /\ config \in Config
    /\ counter \in 0..(CounterPeriod - 1)
    /\ failed \in BOOLEAN
    /\ recent \in Seq(Pin)
    /\ Len(recent) <= MaxSessions
    /\ Distinct(recent)
    /\ since \in [Sessions -> SUBSET Sessions]
    /\ Strategy = "sticky" =>
        \A s \in Sessions : on[s] # NoGenerator => PinnedOrOld(s)

\* Taking a session out keeps the order of the others.
LEMMA OtherPinsOf ==
    ASSUME NEW s \in Sessions, recent \in Seq(Pin), Distinct(recent)
    PROVE  /\ OtherPins(s) \in Seq(Pin)
           /\ Len(OtherPins(s)) <= Len(recent)
           /\ Distinct(OtherPins(s))
           /\ \A k \in 1..Len(OtherPins(s)) : OtherPins(s)[k].session # s
           /\ \A p \in Pin, S \in SUBSET Sessions :
                p.session # s /\ Behind(recent, p, S) => Behind(OtherPins(s), p, S)
<1>1. CASE ~ \E i \in DOMAIN recent : recent[i].session = s
  <2>1. OtherPins(s) = recent
    BY <1>1 DEF OtherPins
  <2> QED BY <1>1, <2>1
<1>2. CASE \E i \in DOMAIN recent : recent[i].session = s
  <2>1. PICK i \in DOMAIN recent :
          /\ recent[i].session = s
          /\ OtherPins(s) =
                [k \in 1..(Len(recent) - 1) |-> recent[IF k < i THEN k ELSE k + 1]]
    BY <1>2 DEF OtherPins
  <2> DEFINE n == Len(recent)
             q == OtherPins(s)
  <2>2. n \in Nat /\ i \in 1..n /\ DOMAIN recent = 1..n
    BY <2>1
  <2>3. \A k \in 1..(n - 1) : q[k] = recent[IF k < i THEN k ELSE k + 1]
    BY <2>1
  <2>4. q \in Seq(Pin) /\ Len(q) = n - 1 /\ DOMAIN q = 1..(n - 1)
    <3>1. \A k \in 1..(n - 1) : recent[IF k < i THEN k ELSE k + 1] \in Pin
      BY <2>2
    <3>2. q \in [1..(n - 1) -> Pin] /\ n - 1 \in Nat
      BY <2>1, <2>2, <3>1
    <3> QED BY <3>2
  <2> HIDE DEF q, n
  <2>5. Distinct(q)
    <3> SUFFICES ASSUME NEW k \in 1..(n - 1), NEW l \in 1..(n - 1),
                        q[k].session = q[l].session
                 PROVE  k = l
      BY <2>4 DEF Distinct
    <3>1. (IF k < i THEN k ELSE k + 1) = (IF l < i THEN l ELSE l + 1)
      BY <2>2, <2>3, SMTT(30) DEF Distinct
    <3> QED BY <2>2, <3>1
  <2>6. \A k \in 1..(n - 1) : q[k].session # s
    <3> SUFFICES ASSUME NEW k \in 1..(n - 1), q[k].session = s PROVE FALSE
      OBVIOUS
    <3>1. (IF k < i THEN k ELSE k + 1) = i
      BY <2>1, <2>2, <2>3 DEF Distinct
    <3> QED BY <2>2, <3>1
  <2>7. ASSUME NEW p \in Pin, NEW S \in SUBSET Sessions, p.session # s,
               Behind(recent, p, S)
        PROVE  Behind(q, p, S)
    <3>1. PICK h \in 1..n :
            recent[h] = p /\ \A j \in (h + 1)..n : recent[j].session \in S
      BY <2>7 DEF Behind, n
    <3>2. h # i
      BY <2>1, <2>7, <3>1
    <3> DEFINE k == IF h < i THEN h ELSE h - 1
    <3>3. k \in 1..(n - 1) /\ (IF k < i THEN k ELSE k + 1) = h
      BY <2>2, <3>2
    <3>4. q[k] = p
      BY <2>3, <3>1, <3>3
    <3>5. ASSUME NEW j \in (k + 1)..(n - 1) PROVE q[j].session \in S
      <4>1. j \in 1..(n - 1) /\ (IF j < i THEN j ELSE j + 1) \in (h + 1)..n
        BY <2>2, <3>2, <3>3
      <4> QED BY <2>3, <3>1, <4>1
    <3> HIDE DEF k
    <3> QED BY <2>4, <3>3, <3>4, <3>5 DEF Behind
  <2> QED BY <2>2, <2>4, <2>5, <2>6, <2>7 DEF q, n
<1> QED BY <1>1, <1>2

\* A session used last is behind nobody, and whoever was behind a set of
\* sessions is behind that set and the new one.
LEMMA AppendedPin ==
    ASSUME NEW q \in Seq(Pin), NEW e \in Pin,
           \A k \in 1..Len(q) : q[k].session # e.session, Distinct(q)
    PROVE  /\ Append(q, e) \in Seq(Pin) /\ Len(Append(q, e)) = Len(q) + 1
           /\ Distinct(Append(q, e))
           /\ Behind(Append(q, e), e, {})
           /\ \A p \in Pin, S \in SUBSET Sessions :
                Behind(q, p, S) => Behind(Append(q, e), p, S \cup {e.session})
<1> DEFINE r == Append(q, e)
           n == Len(q)
<1>1. /\ r \in Seq(Pin) /\ n \in Nat /\ Len(r) = n + 1 /\ DOMAIN r = 1..(n + 1)
      /\ DOMAIN q = 1..n
      /\ r[n + 1] = e
      /\ \A k \in 1..n : r[k] = q[k]
  OBVIOUS
<1>2. Distinct(r)
  <2> HIDE DEF r
  <2> SUFFICES ASSUME NEW k \in 1..(n + 1), NEW l \in 1..(n + 1),
                      r[k].session = r[l].session
               PROVE  k = l
    BY <1>1 DEF Distinct
  <2>1. CASE k \in 1..n /\ l \in 1..n
    BY <1>1, <2>1 DEF Distinct
  <2>2. CASE k = n + 1 \/ l = n + 1
    <3>1. k \notin 1..n /\ l \notin 1..n
      BY <1>1, <2>2
    <3> QED BY <1>1, <3>1
  <2> QED BY <1>1, <2>1, <2>2
<1>3. Behind(r, e, {})
  BY <1>1 DEF Behind
<1>4. ASSUME NEW p \in Pin, NEW S \in SUBSET Sessions, Behind(q, p, S)
      PROVE  Behind(r, p, S \cup {e.session})
  <2>1. PICK h \in 1..n : q[h] = p /\ \A j \in (h + 1)..n : q[j].session \in S
    BY <1>4 DEF Behind
  <2> HIDE DEF r
  <2>2. h \in 1..(n + 1) /\ r[h] = p
    BY <1>1, <2>1
  <2>3. ASSUME NEW j \in (h + 1)..(n + 1) PROVE r[j].session \in S \cup {e.session}
    <3>1. j = n + 1 \/ (j \in (h + 1)..n /\ j \in 1..n)
      BY <1>1
    <3> QED BY <1>1, <2>1, <3>1
  <2> QED BY <1>1, <2>2, <2>3 DEF Behind
<1> QED BY <1>1, <1>2, <1>3, <1>4

\* Dropping the oldest pin of a map of more than m sessions: whoever it
\* belonged to, at least m sessions were used after it.
LEMMA DroppedPin ==
    ASSUME NEW q \in Seq(Pin), Distinct(q), NEW m \in Nat, Len(q) = m + 1
    PROVE  /\ Tail(q) \in Seq(Pin) /\ Len(Tail(q)) = m
           /\ Distinct(Tail(q))
           /\ \A p \in Pin, S \in SUBSET Sessions :
                Behind(q, p, S) => Behind(Tail(q), p, S) \/ Cardinality(S) >= m
<1> DEFINE r == Tail(q)
<1>1. /\ r \in Seq(Pin) /\ Len(r) = m /\ DOMAIN r = 1..m
      /\ DOMAIN q = 1..(m + 1)
      /\ \A k \in 1..m : r[k] = q[k + 1]
  <2>1. q # <<>> /\ DOMAIN q = 1..(m + 1)
    OBVIOUS
  <2>2. /\ r \in Seq(Pin) /\ Len(r) = Len(q) - 1
        /\ \A k \in 1..Len(r) : r[k] = q[k + 1]
    BY <2>1, HeadTailProperties
  <2> HIDE DEF r
  <2>3. Len(r) = m /\ DOMAIN r = 1..m
    BY <2>2
  <2> QED BY <2>1, <2>2, <2>3
<1> HIDE DEF r
<1>0. \A a, b \in 1..(m + 1) : q[a].session = q[b].session => a = b
  BY <1>1 DEF Distinct
<1>2. Distinct(r)
  <2> SUFFICES ASSUME NEW k \in 1..m, NEW l \in 1..m,
                      r[k].session = r[l].session
               PROVE  k = l
    BY <1>1 DEF Distinct
  <2>1. k + 1 \in 1..(m + 1) /\ l + 1 \in 1..(m + 1)
    OBVIOUS
  <2>2. k + 1 = l + 1
    BY <1>0, <1>1, <2>1
  <2> QED BY <2>2
<1>3. ASSUME NEW p \in Pin, NEW S \in SUBSET Sessions, Behind(q, p, S)
      PROVE  Behind(r, p, S) \/ Cardinality(S) >= m
  <2>1. PICK h \in 1..(m + 1) :
          q[h] = p /\ \A j \in (h + 1)..(m + 1) : q[j].session \in S
    BY <1>3 DEF Behind
  <2>2. CASE h # 1
    <3>1. h - 1 \in 1..m /\ r[h - 1] = p
      BY <1>1, <2>1, <2>2
    <3>2. ASSUME NEW j \in ((h - 1) + 1)..m PROVE r[j].session \in S
      <4>1. j \in 1..m /\ j + 1 \in (h + 1)..(m + 1)
        BY <2>1, <2>2
      <4> QED BY <1>1, <2>1, <4>1
    <3> QED BY <1>1, <3>1, <3>2 DEF Behind
  <2>3. CASE h = 1
    <3> DEFINE f == [j \in 2..(m + 1) |-> q[j].session]
    <3>1. f \in [2..(m + 1) -> S]
      BY <2>1, <2>3
    <3>2. \A j, k \in 2..(m + 1) : f[j] = f[k] => j = k
      <4>1. \A j \in 2..(m + 1) : j \in 1..(m + 1) /\ f[j] = q[j].session
        OBVIOUS
      <4> HIDE DEF f
      <4> QED BY <1>0, <4>1
    <3>3. IsFiniteSet(S) /\ Cardinality(S) \in Nat
      BY RouterAssumption, FS_Subset, FS_CardinalityType
    <3>4. IsFiniteSet(2..(m + 1)) /\ Cardinality(2..(m + 1)) = m
      <4>1. 2 \in Int /\ m + 1 \in Int
        OBVIOUS
      <4>2. /\ IsFiniteSet(2..(m + 1))
            /\ Cardinality(2..(m + 1)) = IF 2 > m + 1 THEN 0 ELSE (m + 1) - 2 + 1
        BY <4>1, FS_Interval
      <4> QED BY <4>2
    <3> HIDE DEF f
    <3>5. ~(Cardinality(S) < m)
      <4> SUFFICES ASSUME Cardinality(S) < m PROVE FALSE
        OBVIOUS
      <4>1. \E j, k \in 2..(m + 1) : j # k /\ f[j] = f[k]
        BY <3>1, <3>3, <3>4, FS_PigeonHole
      <4> QED BY <3>2, <4>1
    <3> QED BY <3>3, <3>5
  <2> QED BY <2>2, <2>3
<1> QED BY <1>1, <1>2, <1>3 DEF r

\* What choosing g for session s leaves in the map: the session is the most
\* recently used, and whoever was behind a set is behind that set and s, or
\* that many sessions were used after it that it may be gone.
LEMMA Repinned ==
    ASSUME PinInv, NEW s \in Sessions, NEW g \in Generators
    PROVE  /\ Repin(s, g) \in Seq(Pin)
           /\ Len(Repin(s, g)) <= MaxSessions
           /\ Distinct(Repin(s, g))
           /\ Behind(Repin(s, g), [session |-> s, generator |-> g], {})
           /\ \A p \in Pin, S \in SUBSET Sessions :
                p.session # s /\ Behind(recent, p, S)
                    => \/ Behind(Repin(s, g), p, S \cup {s})
                       \/ Cardinality(S \cup {s}) >= MaxSessions
<1> DEFINE e == [session |-> s, generator |-> g]
           others == OtherPins(s)
           pinned == Append(others, e)
<1>1. /\ others \in Seq(Pin)
      /\ Len(others) <= Len(recent)
      /\ Distinct(others)
      /\ \A k \in 1..Len(others) : others[k].session # s
      /\ \A p \in Pin, S \in SUBSET Sessions :
            p.session # s /\ Behind(recent, p, S) => Behind(others, p, S)
  BY OtherPinsOf DEF PinInv
<1>2. e \in Pin /\ e.session = s
  BY DEF Pin
<1> HIDE DEF e, others
<1>3. /\ pinned \in Seq(Pin) /\ Len(pinned) = Len(others) + 1
      /\ Distinct(pinned)
      /\ Behind(pinned, e, {})
      /\ \A p \in Pin, S \in SUBSET Sessions :
            Behind(others, p, S) => Behind(pinned, p, S \cup {s})
  BY <1>1, <1>2, AppendedPin
<1>4. Repin(s, g) = IF Len(pinned) > MaxSessions THEN Tail(pinned) ELSE pinned
  BY DEF Repin, e, others
<1> HIDE DEF pinned
<1>5. Len(others) \in Nat /\ Len(recent) \in Nat /\ Len(recent) <= MaxSessions
      /\ MaxSessions \in Nat /\ MaxSessions > 0
  BY <1>1, RouterAssumption DEF PinInv
<1>6. CASE Len(pinned) > MaxSessions
  <2>1. Len(pinned) = MaxSessions + 1
    BY <1>1, <1>3, <1>5, <1>6
  <2>2. /\ Tail(pinned) \in Seq(Pin) /\ Len(Tail(pinned)) = MaxSessions
        /\ Distinct(Tail(pinned))
        /\ \A p \in Pin, S \in SUBSET Sessions :
             Behind(pinned, p, S)
                => Behind(Tail(pinned), p, S) \/ Cardinality(S) >= MaxSessions
    BY <1>3, <1>5, <2>1, DroppedPin
  <2>3. Behind(Tail(pinned), e, {})
    <3>1. {} \in SUBSET Sessions /\ ~(Cardinality({}) >= MaxSessions)
      BY <1>5, FS_EmptySet
    <3> QED BY <1>2, <1>3, <2>2, <3>1
  <2>4. ASSUME NEW p \in Pin, NEW S \in SUBSET Sessions,
               p.session # s, Behind(recent, p, S)
        PROVE  \/ Behind(Tail(pinned), p, S \cup {s})
               \/ Cardinality(S \cup {s}) >= MaxSessions
    <3>1. Behind(pinned, p, S \cup {s}) /\ S \cup {s} \in SUBSET Sessions
      BY <1>1, <1>3, <2>4
    <3> QED BY <2>2, <3>1
  <2>5. Repin(s, g) = Tail(pinned)
    BY <1>4, <1>6
  <2> QED BY <1>5, <2>2, <2>3, <2>4, <2>5 DEF e
<1>7. CASE ~(Len(pinned) > MaxSessions)
  <2>1. Repin(s, g) = pinned
    BY <1>4, <1>7
  <2>2. Len(pinned) <= MaxSessions
    BY <1>3, <1>5, <1>7
  <2>3. ASSUME NEW p \in Pin, NEW S \in SUBSET Sessions,
               p.session # s, Behind(recent, p, S)
        PROVE  Behind(pinned, p, S \cup {s})
    BY <1>1, <1>3, <2>3
  <2> QED BY <1>3, <2>1, <2>2, <2>3 DEF e
<1> QED BY <1>6, <1>7

\* A dispatch makes its session the most recently used, and keeps the others.
LEMMA DispatchPins ==
    ASSUME RouterInv, PinInv, UNCHANGED <<config, failed>>,
           NEW s \in Sessions, Dispatch(s)
    PROVE  PinInv'
<1>1. CASE Candidates = {}
  <2>1. UNCHANGED <<config, failed, counter, recent, on, since>>
    BY <1>1 DEF Dispatch, callVars
  <2> QED BY <2>1 DEF PinInv, PinnedOrOld, Strategy
<1>2. CASE Candidates # {}
  <2>1. PICK g \in Candidates :
          /\ Remember(s, g)
          /\ on' = [on EXCEPT ![s] = g]
          /\ since' = [t \in Sessions |->
                            IF t = s THEN {} ELSE since[t] \cup {s}]
    BY <1>2 DEF Dispatch
  <2>2. g \in Generators
    BY DEF Candidates
  <2>3. since' \in [Sessions -> SUBSET Sessions]
    BY <2>1 DEF PinInv
  <2>4. counter' \in 0..(CounterPeriod - 1)
    BY <2>1, RouterAssumption DEF Remember, PinInv
  <2>5. recent' \in Seq(Pin) /\ Len(recent') <= MaxSessions /\ Distinct(recent')
    BY <2>1, <2>2, Repinned DEF Remember, PinInv
  <2>6. ASSUME Strategy = "sticky", NEW t \in Sessions, on'[t] # NoGenerator
        PROVE  PinnedOrOld(t)'
    <3>1. recent' = Repin(s, g)
      BY <2>1, <2>6 DEF Remember
    <3>2. CASE t = s
      <4>1. since'[t] = {} /\ on'[t] = g
        BY <2>1, <3>2 DEF RouterInv, RouterTypes
      <4>2. Behind(recent', [session |-> t, generator |-> on'[t]], since'[t])
        BY <2>2, <3>1, <3>2, <4>1, Repinned
      <4> QED BY <4>2 DEF PinnedOrOld
    <3>3. CASE t # s
      <4>1. since'[t] = since[t] \cup {s} /\ on'[t] = on[t]
        BY <2>1, <3>3 DEF RouterInv, RouterTypes
      <4>2. since[t] \in SUBSET Sessions /\ on[t] \in Generators
        BY <2>6, <4>1 DEF PinInv, RouterInv, RouterTypes
      <4>3. CASE Cardinality(since[t]) >= MaxSessions
        <5>1. /\ IsFiniteSet(since'[t])
              /\ since[t] \subseteq since'[t]
          BY <4>1, <4>2, RouterAssumption, FS_Subset
        <5>2. /\ Cardinality(since[t]) <= Cardinality(since'[t])
              /\ Cardinality(since[t]) \in Nat /\ Cardinality(since'[t]) \in Nat
          BY <5>1, FS_Subset, FS_CardinalityType
        <5>3. Cardinality(since'[t]) >= MaxSessions
          BY <4>3, <5>2, RouterAssumption
        <5> QED BY <5>3 DEF PinnedOrOld
      <4>4. CASE Behind(recent, [session |-> t, generator |-> on[t]], since[t])
        <5> DEFINE p == [session |-> t, generator |-> on[t]]
        <5>1. p \in Pin /\ p.session # s
          BY <3>3, <4>2 DEF Pin
        <5>2. \/ Behind(Repin(s, g), p, since[t] \cup {s})
              \/ Cardinality(since[t] \cup {s}) >= MaxSessions
          BY <2>2, <4>2, <4>4, <5>1, Repinned
        <5> QED BY <3>1, <4>1, <5>2 DEF PinnedOrOld
      <4> QED BY <2>6, <4>1, <4>3, <4>4 DEF PinInv, PinnedOrOld
    <3> QED BY <3>2, <3>3
  <2> QED BY <2>3, <2>4, <2>5, <2>6 DEF PinInv, Strategy
<1> QED BY <1>1, <1>2

LEMMA InitPins == Init => PinInv
<1> SUFFICES ASSUME Init PROVE PinInv
  OBVIOUS
<1>1. recent = <<>> /\ Len(recent) = 0 /\ DOMAIN recent = {}
  BY DEF Init
<1>2. counter \in 0..(CounterPeriod - 1) /\ MaxSessions >= 0
  BY RouterAssumption DEF Init
<1>3. \A s \in Sessions : on[s] = NoGenerator
  BY DEF Init
<1>4. recent \in Seq(Pin) /\ Distinct(recent)
  BY <1>1 DEF Distinct
<1>5. since \in [Sessions -> SUBSET Sessions] /\ config \in Config /\ failed \in BOOLEAN
  BY DEF Init
<1> QED BY <1>1, <1>2, <1>3, <1>4, <1>5 DEF PinInv

\* Only a dispatch touches the map, the counter or what sessions sit on.
LEMMA StepPins == RouterInv /\ PinInv /\ [Next]_vars => PinInv'
<1> SUFFICES ASSUME RouterInv, PinInv, [Next]_vars PROVE PinInv'
  OBVIOUS
<1>1. config' = config
  BY DEF Next, vars
<1>2. ASSUME NEW s \in Sessions, RouteNow(s) \/ RouteResumes(s) PROVE PinInv'
  BY <1>1, <1>2, DispatchPins DEF RouteNow, RouteResumes, pullVars
<1>3. CASE /\ UNCHANGED <<counter, recent, on, since>>
           /\ failed' \in BOOLEAN
  BY <1>1, <1>3 DEF PinInv, PinnedOrOld, Strategy
<1>4. ASSUME NEW s \in Sessions, RouteWaits(s) \/ RouteReturns(s) PROVE PinInv'
  BY <1>3, <1>4 DEF RouteWaits, RouteReturns, callVars, pullVars, PinInv
<1>5. ASSUME PullRound PROVE PinInv'
  BY <1>3, <1>5 DEF PullRound, callVars, PinInv
<1>6. ASSUME NEW g \in Generators, PullDrained(g) \/ PullReturns(g) PROVE PinInv'
  BY <1>3, <1>6 DEF PullDrained, PullReturns, callVars, PinInv
<1>7. ASSUME UNCHANGED vars PROVE PinInv'
  BY <1>3, <1>7 DEF vars, callVars, pullVars, PinInv
<1> QED BY <1>2, <1>4, <1>5, <1>6, <1>7 DEF Next

\* A session whose generator serves and which is not too old is sent there.
LEMMA PinIsChosen ==
    ASSUME RouterInv, PinInv, Strategy = "sticky", NEW s \in Sessions,
           on[s] # NoGenerator, state[on[s]] # "SYNCING",
           ~(Cardinality(since[s]) >= MaxSessions)
    PROVE  Chosen(s) = on[s]
<1>1. PICK i \in 1..Len(recent) :
        recent[i] = [session |-> s, generator |-> on[s]]
  BY DEF PinInv, PinnedOrOld, Behind
<1>2. recent \in Seq(Pin) /\ DOMAIN recent = 1..Len(recent)
  BY DEF PinInv
<1>3. on[s] \in Candidates
  BY DEF RouterInv, RouterTypes, Candidates
<1>4. PinnedTo(s) = {on[s]}
  <2>1. on[s] \in PinnedTo(s)
    BY <1>1, <1>2, <1>3 DEF PinnedTo, Candidates
  <2>2. ASSUME NEW g \in PinnedTo(s) PROVE g = on[s]
    <3>1. PICK j \in DOMAIN recent : recent[j] = [session |-> s, generator |-> g]
      BY <2>2 DEF PinnedTo
    <3>2. i = j
      <4>1. recent[i].session = s /\ recent[j].session = s
        BY <1>1, <3>1
      <4> QED BY <1>2, <3>1, <4>1 DEF PinInv, Distinct
    <3>3. recent[i].generator = on[s] /\ recent[j].generator = g
      BY <1>1, <3>1
    <3> QED BY <3>2, <3>3
  <2> QED BY <2>1, <2>2
<1>5. PinnedTo(s) \cap Candidates = {on[s]}
  BY <1>3, <1>4
<1>6. Chosen(s) = CHOOSE g \in PinnedTo(s) \cap Candidates : TRUE
  BY <1>5 DEF Chosen
<1> QED BY <1>5, <1>6

LEMMA PinSafety == Spec => [](RouterInv /\ PinInv)
BY InitInv, StepInv, InitPins, StepPins, PTL DEF Spec

\* Every variable keeps its type: loads are never negative, and the map never
\* holds more than max_sessions sessions nor one session twice.
THEOREM Typing == Spec => []TypeOK
<1>1. RouterInv /\ PinInv => TypeOK
  <2> SUFFICES ASSUME RouterInv, PinInv PROVE TypeOK
    OBVIOUS
  <2>1. load \in [Generators -> Nat]
    BY InFlightFinite DEF RouterInv, RouterTypes, LoadIsInFlight
  <2> QED BY <2>1 DEF RouterInv, RouterTypes, PinInv, Distinct, TypeOK
<1> QED BY <1>1, PinSafety, PTL

\* With the sticky strategy a session keeps its generator from turn to turn,
\* unless that generator is being synced or max_sessions other sessions have
\* called since.
THEOREM StickySessions == Spec => SessionStays
<1> DEFINE Stays ==
      Strategy = "sticky" =>
        \A s \in Sessions :
            on'[s] # on[s] /\ on[s] # NoGenerator =>
                \/ state[on[s]] = "SYNCING"
                \/ Cardinality(since[s]) >= MaxSessions
<1>1. RouterInv /\ PinInv /\ [Next]_vars => [Stays]_vars
  <2> SUFFICES ASSUME RouterInv, PinInv, [Next]_vars, Strategy = "sticky",
                      NEW s \in Sessions,
                      on'[s] # on[s], on[s] # NoGenerator,
                      state[on[s]] # "SYNCING",
                      ~(Cardinality(since[s]) >= MaxSessions)
               PROVE  FALSE
    OBVIOUS
  <2>1. PICK t \in Sessions : RouteNow(t) \/ RouteResumes(t)
    BY DEF Next, vars, callVars, pullVars, RouteWaits, RouteReturns, PullRound,
           PullDrained, PullReturns
  <2>2. Dispatch(t)
    BY <2>1 DEF RouteNow, RouteResumes
  <2>3. PICK g \in Candidates : g = Chosen(t) /\ on' = [on EXCEPT ![t] = g]
    BY <2>2 DEF Dispatch, callVars
  <2>4. t = s /\ on'[s] = Chosen(s)
    BY <2>3 DEF RouterInv, RouterTypes
  <2> QED BY <2>4, PinIsChosen
<1> QED BY <1>1, PinSafety, PTL DEF Spec, SessionStays

-----------------------------------------------------------------------------
(***************************************************************************)
(* The group.                                                              *)
(***************************************************************************)

-----------------------------------------------------------------------------
(* Numbers and sequences.                                                  *)

\* Induction on a set of numbers.
LEMMA NatInductionSet ==
    ASSUME NEW T, 0 \in T, \A n \in Nat : n \in T => n + 1 \in T
    PROVE  Nat \subseteq T
<1> DEFINE rest == {n \in Nat : n \notin T}
<1> SUFFICES ASSUME rest # {} PROVE FALSE
  OBVIOUS
<1>1. PICK m \in rest : \A t \in rest : <<t, m>> \notin OpToRel(<, Nat)
  BY WFMin, NatLessThanWellFounded, Zenon
<1>2. m \in Nat /\ m # 0 /\ m \notin T
  BY <1>1
<1>3. m - 1 \in Nat /\ (m - 1) + 1 = m
  BY <1>2
<1>4. m - 1 \in rest
  BY <1>2, <1>3
<1>5. <<m - 1, m>> \in Nat \X Nat /\ <<m - 1, m>>[1] = m - 1 /\ <<m - 1, m>>[2] = m
  BY <1>2, <1>3
<1>6. <<m - 1, m>> \notin OpToRel(<, Nat)
  BY <1>1, <1>4
<1> QED
  BY <1>2, <1>5, <1>6, SMT DEF OpToRel

\* A function on 1..n is a sequence.
LEMMA FunctionIsSeq ==
    ASSUME NEW S, NEW n \in Nat, NEW f \in [1..n -> S]
    PROVE  f \in Seq(S) /\ Len(f) = n /\ DOMAIN f = 1..n
<1>1. f \in Seq(S)
  BY SeqDef
<1> QED  BY <1>1, LenProperties

\* A function that joins seqs from the front.
JoinsOf(seqs, n, join) == join = [i \in 1..n |-> IF i = 1 THEN seqs[i] ELSE join[i - 1] \o seqs[i]]

\* Two functions agree on the first n places.
AgreeUpto(f, g, n) == \A i \in 1..n : f[i] = g[i]

\* The recursion of FlattenSeq has a solution.
LEMMA JoinsExist ==
    ASSUME NEW seqs, NEW n \in Nat
    PROVE  \E join : JoinsOf(seqs, n, join)
<1> DEFINE T == {k \in Nat : \E join : JoinsOf(seqs, k, join)}
<1>1. 0 \in T
  <2>1. JoinsOf(seqs, 0, [i \in 1..0 |-> 0])
    BY DEF JoinsOf
  <2> QED  BY <2>1
<1>2. ASSUME NEW k \in Nat, k \in T PROVE k + 1 \in T
  <2>1. PICK join : JoinsOf(seqs, k, join)
    BY <1>2
  <2> DEFINE last == IF k = 0 THEN seqs[1] ELSE join[k] \o seqs[k + 1]
             more == [i \in 1..(k + 1) |-> IF i = k + 1 THEN last ELSE join[i]]
  <2>2. \A i \in 1..k : join[i] = IF i = 1 THEN seqs[i] ELSE join[i - 1] \o seqs[i]
    BY <2>1 DEF JoinsOf
  <2>3. ASSUME NEW i \in 1..(k + 1)
        PROVE  more[i] = IF i = 1 THEN seqs[i] ELSE more[i - 1] \o seqs[i]
    <3>1. CASE i # k + 1 /\ i = 1
      BY <2>2, <3>1
    <3>2. CASE i # k + 1 /\ i # 1
      <4>1. i \in 1..k /\ i - 1 \in 1..(k + 1) /\ i - 1 # k + 1
        BY <3>2
      <4>2. more[i] = join[i] /\ more[i - 1] = join[i - 1]
        BY <3>2, <4>1
      <4> HIDE DEF more
      <4> QED  BY <2>2, <3>2, <4>1, <4>2
    <3>3. CASE i = k + 1 /\ i = 1
      BY <3>3
    <3>4. CASE i = k + 1 /\ i # 1
      <4>1. i - 1 = k /\ k \in 1..(k + 1) /\ k # k + 1 /\ k # 0
        BY <3>4
      <4>2. more[i] = join[k] \o seqs[k + 1] /\ more[i - 1] = join[k]
        BY <3>4, <4>1
      <4> HIDE DEF more
      <4> QED  BY <3>4, <4>1, <4>2
    <3> QED  BY <3>1, <3>2, <3>3, <3>4
  <2>4. more = [i \in 1..(k + 1) |-> more[i]]
    OBVIOUS
  <2> HIDE DEF more
  <2>5. JoinsOf(seqs, k + 1, more)
    BY <2>3, <2>4 DEF JoinsOf
  <2> QED  BY <2>5
<1> HIDE DEF T
<1>3. n \in T
  BY <1>1, <1>2, NatInductionSet
<1> QED  BY <1>3 DEF T

\* ... and only one.
LEMMA JoinsUnique ==
    ASSUME NEW a, NEW b, NEW m \in Nat, NEW n \in 0..m, NEW ja, NEW jb,
           JoinsOf(a, m, ja), JoinsOf(b, n, jb), AgreeUpto(a, b, n)
    PROVE  AgreeUpto(ja, jb, n)
<1> USE DEF AgreeUpto
<1> DEFINE T == {i \in Nat : i \in 1..n => ja[i] = jb[i]}
<1>1. /\ \A i \in 1..m : ja[i] = IF i = 1 THEN a[i] ELSE ja[i - 1] \o a[i]
      /\ \A i \in 1..n : jb[i] = IF i = 1 THEN b[i] ELSE jb[i - 1] \o b[i]
  BY DEF JoinsOf
<1>2. 0 \in T
  OBVIOUS
<1>3. ASSUME NEW i \in Nat, i \in T PROVE i + 1 \in T
  <2> SUFFICES ASSUME i + 1 \in 1..n PROVE ja[i + 1] = jb[i + 1]
    OBVIOUS
  <2>1. i + 1 \in 1..m /\ (i + 1) - 1 = i /\ (i + 1 # 1 => i \in 1..n) /\ a[i + 1] = b[i + 1]
    OBVIOUS
  <2>2. i + 1 # 1 => ja[i] = jb[i]
    BY <1>3, <2>1
  <2> HIDE DEF T
  <2> QED  BY <1>1, <2>1, <2>2
<1> HIDE DEF T
<1>4. Nat \subseteq T
  BY <1>2, <1>3, NatInductionSet
<1> QED  BY <1>4 DEF T

\* What FlattenSeq computes, from the front and at the end.
LEMMA FlattenIs ==
    ASSUME NEW seqs, Len(seqs) \in Nat
    PROVE  /\ Len(seqs) = 0 => FlattenSeq(seqs) = seqs
           /\ Len(seqs) # 0 =>
                \E join : JoinsOf(seqs, Len(seqs), join) /\ FlattenSeq(seqs) = join[Len(seqs)]
<1> DEFINE join == CHOOSE j : JoinsOf(seqs, Len(seqs), j)
<1>1. JoinsOf(seqs, Len(seqs), join)
  BY JoinsExist
<1>2. Len(seqs) # 0 => FlattenSeq(seqs) = join[Len(seqs)]
  BY DEF FlattenSeq, JoinsOf
<1>3. Len(seqs) = 0 => FlattenSeq(seqs) = seqs
  BY DEF FlattenSeq
<1> HIDE DEF join
<1> QED  BY <1>1, <1>2, <1>3

\* Flattening one more sequence appends it.
LEMMA FlattenAppend ==
    ASSUME NEW X, NEW seqs \in Seq(Seq(X)), NEW s \in Seq(X)
    PROVE  FlattenSeq(Append(seqs, s)) = FlattenSeq(seqs) \o s
<1> DEFINE n == Len(seqs)
           more == Append(seqs, s)
<1>1. n \in Nat /\ Len(more) = n + 1 /\ more[n + 1] = s /\ \A i \in 1..n : more[i] = seqs[i]
  BY AppendProperties, LenProperties
<1> HIDE DEF n, more
<1>2. PICK jm : JoinsOf(more, n + 1, jm) /\ FlattenSeq(more) = jm[n + 1]
  BY <1>1, FlattenIs
<1>3. \A i \in 1..(n + 1) : jm[i] = IF i = 1 THEN more[i] ELSE jm[i - 1] \o more[i]
  BY <1>2 DEF JoinsOf
<1>4. CASE n = 0
  <2>1. seqs = <<>>
    BY <1>4, EmptySeq DEF n
  <2>2. FlattenSeq(seqs) = <<>>
    BY <2>1, FlattenIs, EmptySeq
  <2>3. <<>> \o s = s
    BY ConcatEmptySeq
  <2> QED  BY <1>1, <1>2, <1>3, <1>4, <2>2, <2>3 DEF more
<1>5. CASE n # 0
  <2>1. PICK js : JoinsOf(seqs, n, js) /\ FlattenSeq(seqs) = js[n]
    BY <1>1, <1>5, FlattenIs DEF n
  <2>2. n \in Nat /\ n + 1 \in Nat /\ n \in 0..(n + 1) /\ n \in 1..n
    BY <1>1, <1>5
  <2>3. \A i \in 1..n : jm[i] = js[i]
    <3> DEFINE m == n + 1
    <3>1. m \in Nat /\ n \in 0..m /\ JoinsOf(more, m, jm)
      BY <1>2, <2>2
    <3>2. JoinsOf(seqs, n, js)
      BY <2>1
    <3>3. AgreeUpto(more, seqs, n)
      BY <1>1 DEF AgreeUpto
    <3> HIDE DEF m
    <3>4. AgreeUpto(jm, js, n)
      BY <3>1, <3>2, <3>3, JoinsUnique
    <3> QED  BY <3>4 DEF AgreeUpto
  <2>4. n + 1 \in 1..(n + 1) /\ n + 1 # 1 /\ (n + 1) - 1 = n
    BY <1>1, <1>5
  <2>5. jm[n + 1] = jm[n] \o more[n + 1]
    BY <1>3, <2>4
  <2> QED  BY <1>1, <1>2, <2>1, <2>2, <2>3, <2>5 DEF more
<1> QED  BY <1>4, <1>5

\* Induction on sequences, from the end.
LEMMA SeqInduction ==
    ASSUME NEW S, NEW T, <<>> \in T, \A s \in Seq(S), e \in S : s \in T => Append(s, e) \in T
    PROVE  Seq(S) \subseteq T
<1> DEFINE U == {n \in Nat : \A s \in Seq(S) : Len(s) = n => s \in T}
<1>1. 0 \in U
  BY EmptySeq
<1>2. ASSUME NEW n \in Nat, n \in U PROVE n + 1 \in U
  <2> SUFFICES ASSUME NEW s \in Seq(S), Len(s) = n + 1 PROVE s \in T
    OBVIOUS
  <2>1. s # <<>>
    BY EmptySeq
  <2>2. PICK r \in Seq(S), e \in S : s = Append(r, e)
    BY <2>1, SequenceEmptyOrAppend
  <2>3. Len(r) = n
    BY <2>2, AppendProperties, LenProperties
  <2> QED  BY <1>2, <2>2, <2>3
<1> HIDE DEF U
<1>3. Nat \subseteq U
  BY <1>1, <1>2, NatInductionSet
<1> QED  BY <1>3, LenProperties DEF U

\* A recursive definition over 0..n has a solution.
Steps(S, n, step) == \A k \in 1..n : \A x \in S : step[k][x] \in S
Solves(f, S, base, n, step) ==
    f \in [0..n -> S] /\ f[0] = base /\ \A k \in 1..n : f[k] = step[k][f[k - 1]]

\* A function given by its first value and its steps exists.
LEMMA RecursionExists ==
    ASSUME NEW S, NEW base \in S, NEW n \in Nat, NEW step, Steps(S, n, step)
    PROVE  \E f : Solves(f, S, base, n, step)
<1> DEFINE T == {m \in Nat : m \in 0..n =>
                   \E f \in [0..m -> S] : f[0] = base /\ \A k \in 1..m : f[k] = step[k][f[k - 1]]}
<1>1. 0 \in T
  <2> DEFINE f == [k \in 0..0 |-> base]
  <2>1. f \in [0..0 -> S] /\ f[0] = base /\ \A k \in 1..0 : f[k] = step[k][f[k - 1]]
    OBVIOUS
  <2> HIDE DEF f
  <2> QED  BY <2>1
<1>2. ASSUME NEW m \in Nat, m \in T PROVE m + 1 \in T
  <2> SUFFICES ASSUME m + 1 \in 0..n
               PROVE  \E f \in [0..(m + 1) -> S] :
                         f[0] = base /\ \A k \in 1..(m + 1) : f[k] = step[k][f[k - 1]]
    OBVIOUS
  <2>1. PICK f \in [0..m -> S] : f[0] = base /\ \A k \in 1..m : f[k] = step[k][f[k - 1]]
    BY <1>2
  <2> DEFINE g == [k \in 0..(m + 1) |-> IF k = m + 1 THEN step[m + 1][f[m]] ELSE f[k]]
  <2>2. f[m] \in S /\ m + 1 \in 1..n
    OBVIOUS
  <2>3. step[m + 1][f[m]] \in S
    BY <2>2 DEF Steps
  <2>4. g \in [0..(m + 1) -> S]
    BY <2>3
  <2>5. g[0] = base
    BY <2>1
  <2>6. ASSUME NEW k \in 1..(m + 1) PROVE g[k] = step[k][g[k - 1]]
    <3>1. CASE k = m + 1
      <4>1. g[k] = step[m + 1][f[m]] /\ g[k - 1] = f[m]
        BY <3>1
      <4> QED  BY <3>1, <4>1
    <3>2. CASE k # m + 1
      <4>1. g[k] = f[k] /\ g[k - 1] = f[k - 1] /\ k \in 1..m
        BY <3>2
      <4> QED  BY <2>1, <4>1
    <3> QED  BY <3>1, <3>2
  <2> HIDE DEF g
  <2> QED  BY <2>4, <2>5, <2>6
<1> HIDE DEF T
<1>3. n \in T
  BY <1>1, <1>2, NatInductionSet
<1> QED  BY <1>3 DEF T, Solves

-----------------------------------------------------------------------------
(***************************************************************************)
(* Where the sequences lie in what FlattenSeq makes of them: one after the *)
(* other, each place in one of them.                                       *)
(***************************************************************************)
Joined(seqs, flat, start) ==
    /\ start \in [1..Len(seqs) -> Nat]
    /\ \A i \in 1..Len(seqs) : \A k \in 1..Len(seqs[i]) :
          start[i] + k \in 1..Len(flat) /\ flat[start[i] + k] = seqs[i][k]
    /\ \A p \in 1..Len(flat) : \E i \in 1..Len(seqs) : \E k \in 1..Len(seqs[i]) : p = start[i] + k
    /\ \A i, j \in 1..Len(seqs) : \A k \in 1..Len(seqs[i]), l \in 1..Len(seqs[j]) :
          start[i] + k = start[j] + l => i = j /\ k = l

\* Where the parts start is still known after one more part.
LEMMA JoinedStep ==
    ASSUME NEW X, NEW seqs \in Seq(Seq(X)), NEW s \in Seq(X), NEW flat \in Seq(X), NEW start,
           Joined(seqs, flat, start)
    PROVE  \E more : Joined(Append(seqs, s), flat \o s, more)
<1> DEFINE n == Len(seqs)
           seqs1 == Append(seqs, s)
           flat1 == flat \o s
           more == [i \in 1..(n + 1) |-> IF i = n + 1 THEN Len(flat) ELSE start[i]]
<1>1. /\ n \in Nat /\ Len(flat) \in Nat /\ Len(s) \in Nat
      /\ Len(seqs1) = n + 1 /\ seqs1[n + 1] = s /\ \A i \in 1..n : seqs1[i] = seqs[i]
      /\ Len(flat1) = Len(flat) + Len(s)
      /\ \A k \in 1..(Len(flat) + Len(s)) :
            flat1[k] = IF k <= Len(flat) THEN flat[k] ELSE s[k - Len(flat)]
  BY LenProperties, AppendProperties, ConcatProperties
<1>2. /\ start \in [1..n -> Nat]
      /\ \A i \in 1..n : \A k \in 1..Len(seqs[i]) :
            start[i] + k \in 1..Len(flat) /\ flat[start[i] + k] = seqs[i][k]
      /\ \A p \in 1..Len(flat) : \E i \in 1..n : \E k \in 1..Len(seqs[i]) : p = start[i] + k
      /\ \A i, j \in 1..n : \A k \in 1..Len(seqs[i]), l \in 1..Len(seqs[j]) :
            start[i] + k = start[j] + l => i = j /\ k = l
  BY DEF Joined
<1>3. /\ more \in [1..(n + 1) -> Nat] /\ more[n + 1] = Len(flat)
      /\ \A i \in 1..n : more[i] = start[i]
  BY <1>1, <1>2
<1>4. \A i \in 1..(n + 1) : i \in 1..n \/ i = n + 1
  BY <1>1
<1>9. \A i \in 1..n : Len(seqs[i]) \in Nat
  BY ElementOfSeq, LenProperties
<1> HIDE DEF n, seqs1, flat1, more
<1>5. ASSUME NEW i \in 1..(n + 1), NEW k \in 1..Len(seqs1[i])
      PROVE  more[i] + k \in 1..Len(flat1) /\ flat1[more[i] + k] = seqs1[i][k]
  <2>1. CASE i \in 1..n
    <3>1. start[i] + k \in 1..Len(flat) /\ flat[start[i] + k] = seqs[i][k]
      BY <1>1, <1>2, <2>1
    <3> DEFINE z == start[i] + k
               a == Len(flat)
               e == Len(s)
    <3>2. more[i] = start[i] /\ seqs1[i] = seqs[i]
      BY <1>1, <1>3, <2>1
    <3>3. a \in Nat /\ e \in Nat /\ z \in 1..a /\ Len(flat1) = a + e
      BY <1>1, <3>1
    <3>4. \A y \in 1..(a + e) : y <= a => flat1[y] = flat[y]
      BY <1>1
    <3>5. flat[z] = seqs[i][k]
      BY <3>1
    <3> HIDE DEF z, a, e
    <3>6. z \in 1..(a + e) /\ z <= a
      BY <3>3
    <3>7. flat1[z] = seqs[i][k] /\ z \in 1..Len(flat1)
      BY <3>3, <3>4, <3>5, <3>6
    <3> QED  BY <3>2, <3>7 DEF z
  <2>2. CASE i = n + 1
    <3>1. k \in 1..Len(s) /\ more[i] = Len(flat) /\ seqs1[i] = s
      BY <1>1, <1>3, <2>2
    <3>2. /\ Len(flat) + k \in 1..(Len(flat) + Len(s)) /\ ~(Len(flat) + k <= Len(flat))
          /\ (Len(flat) + k) - Len(flat) = k
      BY <1>1, <3>1
    <3> QED  BY <1>1, <3>1, <3>2
  <2> QED  BY <1>4, <2>1, <2>2
<1>6. ASSUME NEW p \in 1..Len(flat1)
      PROVE  \E i \in 1..(n + 1) : \E k \in 1..Len(seqs1[i]) : p = more[i] + k
  <2>1. CASE p <= Len(flat)
    <3>1. PICK i \in 1..n : \E k \in 1..Len(seqs[i]) : p = start[i] + k
      BY <1>1, <1>2, <2>1
    <3>2. i \in 1..(n + 1) /\ seqs1[i] = seqs[i] /\ more[i] = start[i]
      BY <1>1, <1>3
    <3> QED  BY <3>1, <3>2
  <2>2. CASE ~(p <= Len(flat))
    <3>1. p - Len(flat) \in 1..Len(s) /\ p = Len(flat) + (p - Len(flat)) /\ n + 1 \in 1..(n + 1)
      BY <1>1, <2>2
    <3> QED  BY <1>1, <1>3, <3>1
  <2> QED  BY <2>1, <2>2
<1>7. ASSUME NEW i \in 1..(n + 1), NEW j \in 1..(n + 1),
             NEW k \in 1..Len(seqs1[i]), NEW l \in 1..Len(seqs1[j]), more[i] + k = more[j] + l
      PROVE  i = j /\ k = l
  <2>0. i \in 1..n => more[i] = start[i] /\ start[i] \in Nat /\ start[i] + k \in 1..Len(flat) /\ k \in 1..Len(seqs[i])
    BY <1>1, <1>2, <1>3
  <2>5. j \in 1..n => more[j] = start[j] /\ start[j] \in Nat /\ start[j] + l \in 1..Len(flat) /\ l \in 1..Len(seqs[j])
    BY <1>1, <1>2, <1>3
  <2>6. k \in Nat /\ l \in Nat /\ k >= 1 /\ l >= 1
    <3>1. Len(seqs1[i]) \in Nat /\ Len(seqs1[j]) \in Nat
      BY <1>1, <1>4, <1>9
    <3> QED  BY <3>1
  <2>1. CASE i \in 1..n /\ j \in 1..n
    <3>1. start[i] + k = start[j] + l /\ k \in 1..Len(seqs[i]) /\ l \in 1..Len(seqs[j])
      BY <1>7, <2>0, <2>5, <2>1
    <3>2. \A g, h \in 1..n : \A m \in 1..Len(seqs[g]), o \in 1..Len(seqs[h]) :
             start[g] + m = start[h] + o => g = h /\ m = o
      BY <1>2
    <3>3. i \in 1..n /\ j \in 1..n
      BY <2>1
    <3>4. \A m \in 1..Len(seqs[i]), o \in 1..Len(seqs[j]) : start[i] + m = start[j] + o => i = j /\ m = o
      BY <3>2, <3>3
    <3> QED  BY <3>1, <3>4
  <2>2. CASE i = n + 1 /\ j = n + 1
    <3>1. Len(flat) + k = Len(flat) + l
      BY <1>3, <1>7, <2>2
    <3> QED  BY <1>1, <2>2, <2>6, <3>1
  <2>3. CASE i \in 1..n /\ j = n + 1
    BY <1>1, <1>3, <1>7, <2>0, <2>6, <2>3
  <2>4. CASE i = n + 1 /\ j \in 1..n
    <3> DEFINE z == start[j] + l
               a == Len(flat)
    <3>1. z \in 1..a /\ a \in Nat
      BY <1>1, <2>4, <2>5
    <3>2. a + k = z
      BY <1>3, <1>7, <2>4, <2>5
    <3> HIDE DEF z, a
    <3> QED  BY <2>6, <3>1, <3>2
  <2> QED  BY <1>4, <2>1, <2>2, <2>3, <2>4
<1>8. Joined(seqs1, flat1, more)
  BY <1>1, <1>3, <1>5, <1>6, <1>7 DEF Joined
<1> QED  BY <1>8 DEF seqs1, flat1

\* Every element of a flattened sequence has its place in one of the parts.
LEMMA FlattenPlaces ==
    ASSUME NEW X, NEW seqs \in Seq(Seq(X))
    PROVE  FlattenSeq(seqs) \in Seq(X) /\ \E start : Joined(seqs, FlattenSeq(seqs), start)
<1> DEFINE T == {q \in Seq(Seq(X)) : FlattenSeq(q) \in Seq(X) /\ \E start : Joined(q, FlattenSeq(q), start)}
<1>1. <<>> \in T
  <2>1. <<>> \in Seq(Seq(X)) /\ <<>> \in Seq(X) /\ Len(<<>>) = 0
    BY EmptySeq
  <2>2. FlattenSeq(<<>>) = <<>>
    BY <2>1, FlattenIs
  <2> DEFINE none == [i \in 1..0 |-> 0]
  <2>3. none \in [1..0 -> Nat]
    OBVIOUS
  <2> HIDE DEF none
  <2>4. Joined(<<>>, <<>>, none)
    BY <2>1, <2>3 DEF Joined
  <2> QED  BY <2>1, <2>2, <2>4
<1>2. ASSUME NEW q \in Seq(Seq(X)), NEW s \in Seq(X), q \in T PROVE Append(q, s) \in T
  <2>1. FlattenSeq(Append(q, s)) = FlattenSeq(q) \o s
    BY FlattenAppend
  <2>2. Append(q, s) \in Seq(Seq(X)) /\ FlattenSeq(q) \o s \in Seq(X)
    BY <1>2, AppendProperties, ConcatProperties
  <2>3. \E start : Joined(Append(q, s), FlattenSeq(q) \o s, start)
    BY <1>2, JoinedStep
  <2> QED  BY <2>1, <2>2, <2>3
<1> HIDE DEF T
<1>3. seqs \in T
  BY <1>1, <1>2, SeqInduction
<1> QED  BY <1>3 DEF T

-----------------------------------------------------------------------------
(***************************************************************************)
(* The samples of a rollout.                                               *)
(***************************************************************************)

\* The cells of the samples of an advantage, over a set of tokens.
Cells(K, a) == [token : K, trained : BOOLEAN, logprob : K \cup {NoLogprob}, advantage : {0, a}]

\* A turn that a rollout can record.
Spoken(K, turn) ==
    /\ turn.prompt \in Seq(K) /\ turn.prompt # <<>>
    /\ turn.completion \in Seq(K) /\ turn.completion # <<>>
    /\ turn.logprobs = turn.completion

\* The tokens of a sample.
Tells(s, tokens) == Len(s) = Len(tokens) /\ \A k \in 1..Len(tokens) : s[k].token = tokens[k]

\* The cells a turn adds when shared tokens of its prompt are there already.
TurnCells(turn, shared, a) ==
    [k \in 1..(Len(turn.prompt) - shared) |-> Untrained(turn.prompt[shared + k])]
    \o [k \in 1..Len(turn.completion) |-> Trained(turn.completion[k], turn.logprobs[k], a)]

\* A sample after a turn: the prompt's tokens, what was there kept, the new ones
\* untrained, and the completion trained.
Follows(s, last, turn, a) ==
    /\ Len(last) \in 0..Len(turn.prompt)
    /\ Len(s) = Len(turn.prompt) + Len(turn.completion)
    /\ \A k \in 1..Len(turn.prompt) : s[k].token = turn.prompt[k]
    /\ \A k \in 1..Len(last) : s[k] = last[k]
    /\ \A k \in (Len(last) + 1)..Len(turn.prompt) : s[k].trained = FALSE
    /\ \A l \in 1..Len(turn.completion) :
          s[Len(turn.prompt) + l] = Trained(turn.completion[l], turn.logprobs[l], a)

\* u has the members of s, then those of t.
TwoParts(X, s, t, u) ==
    /\ u \in Seq(X) /\ Len(s) \in Nat /\ Len(t) \in Nat /\ Len(u) = Len(s) + Len(t)
    /\ \A k \in 1..Len(s) : u[k] = s[k]
    /\ \A k \in 1..Len(t) : u[Len(s) + k] = t[k]

\* A concatenation, told by the places of its second part.
LEMMA PartsJoined ==
    ASSUME NEW X, NEW s \in Seq(X), NEW t \in Seq(X)
    PROVE  TwoParts(X, s, t, s \o t)
<1>1. /\ Len(s) \in Nat /\ Len(t) \in Nat /\ s \o t \in Seq(X) /\ Len(s \o t) = Len(s) + Len(t)
      /\ \A i \in 1..(Len(s) + Len(t)) : (s \o t)[i] = IF i <= Len(s) THEN s[i] ELSE t[i - Len(s)]
  BY LenProperties, ConcatProperties
<1>2. ASSUME NEW k \in 1..Len(s) PROVE (s \o t)[k] = s[k]
  BY <1>1
<1>3. ASSUME NEW k \in 1..Len(t) PROVE (s \o t)[Len(s) + k] = t[k]
  <2>1. Len(s) + k \in 1..(Len(s) + Len(t)) /\ ~(Len(s) + k <= Len(s)) /\ (Len(s) + k) - Len(s) = k
    BY <1>1
  <2> QED  BY <1>1, <2>1
<1>4. ASSUME NEW u, u = s \o t PROVE TwoParts(X, s, t, u)
  BY <1>1, <1>2, <1>3, <1>4 DEF TwoParts
<1> QED  BY <1>4

\* The same, spelled out.
LEMMA SecondPart ==
    ASSUME NEW X, NEW s \in Seq(X), NEW t \in Seq(X)
    PROVE  /\ s \o t \in Seq(X) /\ Len(s) \in Nat /\ Len(t) \in Nat /\ Len(s \o t) = Len(s) + Len(t)
           /\ \A k \in 1..Len(s) : (s \o t)[k] = s[k]
           /\ \A k \in 1..Len(t) : (s \o t)[Len(s) + k] = t[k]
<1>1. TwoParts(X, s, t, s \o t)
  BY PartsJoined
<1> QED  BY <1>1 DEF TwoParts

\* Counting from a place q to a place p.
LEMMA PlacesAfter ==
    ASSUME NEW p \in Nat, NEW q \in 0..p
    PROVE  /\ p - q \in Nat /\ q + (p - q) = p /\ q \in Nat
           /\ \A n \in Nat : q + ((p - q) + n) = p + n
           /\ \A k \in (q + 1)..p : k - q \in 1..(p - q) /\ q + (k - q) = k /\ k \in 1..p
           /\ \A k \in 1..(p - q) : q + k \in 1..p
           /\ \A k \in 1..p : k \in 1..q \/ k \in (q + 1)..p
OBVIOUS

\* A sample that continues a prompt holds the prompt and then the completion.
LEMMA SampleFollows ==
    ASSUME NEW K, NEW a, NEW turn, Spoken(K, turn), NEW last \in Seq(Cells(K, a)),
           Len(last) <= Len(turn.prompt), \A k \in 1..Len(last) : last[k].token = turn.prompt[k]
    PROVE  LET s == last \o TurnCells(turn, Len(last), a)
           IN  s \in Seq(Cells(K, a)) /\ Follows(s, last, turn, a)
<1> DEFINE X == Cells(K, a)
           p == Len(turn.prompt)
           q == Len(last)
           said == Len(turn.completion)
           before == [k \in 1..(p - q) |-> Untrained(turn.prompt[q + k])]
           after == [k \in 1..said |-> Trained(turn.completion[k], turn.logprobs[k], a)]
           cells == before \o after
           s == last \o cells
<1>1. /\ turn.prompt \in Seq(K) /\ turn.completion \in Seq(K) /\ turn.logprobs = turn.completion
      /\ p \in Nat /\ said \in Nat /\ q \in 0..p
  <2>1. turn.prompt \in Seq(K) /\ turn.completion \in Seq(K) /\ turn.logprobs = turn.completion
    BY DEF Spoken
  <2>2. p \in Nat /\ said \in Nat /\ q \in Nat
    BY <2>1, LenProperties
  <2> QED  BY <2>1, <2>2
<1>2. /\ p - q \in Nat /\ q + (p - q) = p /\ q \in Nat
      /\ \A n \in Nat : q + ((p - q) + n) = p + n
      /\ \A k \in (q + 1)..p : k - q \in 1..(p - q) /\ q + (k - q) = k /\ k \in 1..p
      /\ \A k \in 1..(p - q) : q + k \in 1..p
      /\ \A k \in 1..p : k \in 1..q \/ k \in (q + 1)..p
  <2> HIDE DEF p, q
  <2> QED  BY <1>1, PlacesAfter
<1>3. before \in [1..(p - q) -> X]
  <2> SUFFICES ASSUME NEW k \in 1..(p - q) PROVE Untrained(turn.prompt[q + k]) \in X
    OBVIOUS
  <2>1. turn.prompt[q + k] \in K
    BY <1>1, <1>2, ElementOfSeq
  <2> QED  BY <2>1 DEF Untrained, Cells
<1>4. after \in [1..said -> X]
  <2> SUFFICES ASSUME NEW k \in 1..said
               PROVE  Trained(turn.completion[k], turn.logprobs[k], a) \in X
    OBVIOUS
  <2>1. turn.completion[k] \in K
    BY <1>1, ElementOfSeq
  <2> QED  BY <1>1, <2>1 DEF Trained, Cells
<1>7. \A k \in 1..(p - q) : before[k] = Untrained(turn.prompt[q + k])
  OBVIOUS
<1>8. \A k \in 1..said : after[k] = Trained(turn.completion[k], turn.logprobs[k], a)
  OBVIOUS
<1>9. s = last \o TurnCells(turn, Len(last), a)
  BY DEF TurnCells
<1>10. last \in Seq(X) /\ Len(last) = q
  OBVIOUS
<1> HIDE DEF before, after, cells, X, p, q, said
<1>5. before \in Seq(X) /\ Len(before) = p - q
  BY <1>2, <1>3, FunctionIsSeq, Zenon
<1>6. after \in Seq(X) /\ Len(after) = said
  BY <1>1, <1>4, FunctionIsSeq, Zenon
<1>11. /\ cells \in Seq(X) /\ Len(cells) = (p - q) + said
       /\ \A k \in 1..(p - q) : cells[k] = before[k]
       /\ \A k \in 1..said : cells[(p - q) + k] = after[k]
  <2>1. /\ before \o after \in Seq(X) /\ Len(before \o after) = Len(before) + Len(after)
        /\ \A k \in 1..Len(before) : (before \o after)[k] = before[k]
        /\ \A k \in 1..Len(after) : (before \o after)[Len(before) + k] = after[k]
    <3>1. before \in Seq(X) /\ after \in Seq(X)
      BY <1>5, <1>6
    <3>2. TwoParts(X, before, after, before \o after)
      BY <3>1, PartsJoined
    <3> QED  BY <3>2 DEF TwoParts
  <2> QED  BY <1>5, <1>6, <2>1 DEF cells
<1>12. /\ s \in Seq(X) /\ Len(s) = q + Len(cells)
       /\ \A k \in 1..q : s[k] = last[k]
       /\ \A k \in 1..Len(cells) : s[q + k] = cells[k]
  <2>1. cells \in Seq(X) /\ last \in Seq(X)
    BY <1>10, <1>11
  <2>2. /\ last \o cells \in Seq(X) /\ Len(last \o cells) = Len(last) + Len(cells)
        /\ \A k \in 1..Len(last) : (last \o cells)[k] = last[k]
        /\ \A k \in 1..Len(cells) : (last \o cells)[Len(last) + k] = cells[k]
    BY <2>1, SecondPart
  <2> QED  BY <1>10, <2>2
<1> HIDE DEF s
<1>13. Len(s) = p + said
  BY <1>1, <1>2, <1>11, <1>12
<1>14. ASSUME NEW k \in (q + 1)..p PROVE s[k] = Untrained(turn.prompt[k])
  <2>1. k - q \in 1..(p - q) /\ q + (k - q) = k
    BY <1>2
  <2>2. k - q \in 1..Len(cells)
    BY <1>1, <1>2, <1>11, <2>1
  <2> QED  BY <1>7, <1>11, <1>12, <2>1, <2>2
<1>15. ASSUME NEW l \in 1..said PROVE s[p + l] = Trained(turn.completion[l], turn.logprobs[l], a)
  <2>1. (p - q) + l \in 1..Len(cells) /\ q + ((p - q) + l) = p + l
    BY <1>1, <1>2, <1>11
  <2> QED  BY <1>8, <1>11, <1>12, <2>1
<1>16. ASSUME NEW k \in 1..p PROVE s[k].token = turn.prompt[k]
  <2>1. CASE k \in 1..q
    BY <1>12, <2>1, Zenon DEF q
  <2>2. CASE k \in (q + 1)..p
    <3>1. s[k] = Untrained(turn.prompt[k])
      BY <1>14, <2>2
    <3> QED  BY <3>1 DEF Untrained
  <2>3. k \in 1..q \/ k \in (q + 1)..p
    BY <1>2, Zenon
  <2> QED  BY <2>1, <2>2, <2>3, Zenon
<1>17. ASSUME NEW k \in (q + 1)..p PROVE s[k].trained = FALSE
  <2>1. s[k] = Untrained(turn.prompt[k])
    BY <1>14
  <2> QED  BY <2>1 DEF Untrained
<1>18. Follows(s, last, turn, a)
  BY <1>1, <1>12, <1>13, <1>15, <1>16, <1>17 DEF Follows, p, q, said
<1> QED  BY <1>9, <1>12, <1>18 DEF X

\* Replacing the last element.
LEMMA ReplaceLast ==
    ASSUME NEW X, NEW old \in Seq(X), old # <<>>, NEW s \in X
    PROVE  LET new == Front(old) \o <<s>>
           IN  /\ Len(old) \in Nat \ {0}
               /\ new \in Seq(X) /\ Len(new) = Len(old)
               /\ new[Len(old)] = s
               /\ \A j \in 1..Len(old) : j # Len(old) => new[j] = old[j]
<1> DEFINE front == Front(old)
           m == Len(old)
           new == front \o <<s>>
<1>1. m \in Nat \ {0}
  BY EmptySeq
<1>2. front \in Seq(X) /\ Len(front) = m - 1 /\ \A j \in 1..(m - 1) : front[j] = old[j]
  <2>1. \A i \in 1..(m - 1) : old[i] \in X
    BY <1>1, ElementOfSeq
  <2>2. 1 \in Int /\ m - 1 \in Int /\ (m - 1) - 1 + 1 = m - 1 /\ \A i \in 1..(m - 1) : 1 + i - 1 = i
    BY <1>1
  <2>3. /\ SubSeq(old, 1, m - 1) \in Seq(X)
        /\ Len(SubSeq(old, 1, m - 1)) = IF 1 <= m - 1 THEN (m - 1) - 1 + 1 ELSE 0
        /\ \A i \in 1..((m - 1) - 1 + 1) : SubSeq(old, 1, m - 1)[i] = old[1 + i - 1]
    BY <2>1, <2>2, SubSeqProperties
  <2>5. front = SubSeq(old, 1, m - 1)
    BY DEF Front
  <2> HIDE DEF m, front
  <2>4. 1 <= m - 1 \/ m - 1 = 0
    BY <1>1
  <2> QED  BY <2>2, <2>3, <2>4, <2>5
<1>3. <<s>> \in Seq(X) /\ Len(<<s>>) = 1 /\ <<s>>[1] = s
  OBVIOUS
<1> HIDE DEF front, m
<1>4. /\ new \in Seq(X) /\ Len(new) = (m - 1) + 1
      /\ \A j \in 1..((m - 1) + 1) : new[j] = IF j <= m - 1 THEN front[j] ELSE <<s>>[j - (m - 1)]
  <2> DEFINE one == <<s>>
  <2> HIDE DEF one
  <2>1. one \in Seq(X) /\ Len(one) = 1
    BY <1>3 DEF one
  <2>2. /\ front \o one \in Seq(X) /\ Len(front \o one) = Len(front) + Len(one)
        /\ \A j \in 1..(Len(front) + Len(one)) :
              (front \o one)[j] = IF j <= Len(front) THEN front[j] ELSE one[j - Len(front)]
    BY <1>2, <2>1, ConcatProperties
  <2>3. /\ front \o one \in Seq(X) /\ Len(front \o one) = (m - 1) + 1
        /\ \A j \in 1..((m - 1) + 1) : (front \o one)[j] = IF j <= m - 1 THEN front[j] ELSE one[j - (m - 1)]
    BY <1>2, <2>1, <2>2
  <2> QED  BY <2>3 DEF one
<1> HIDE DEF new
<1>5. (m - 1) + 1 = m /\ m \in 1..m /\ ~(m <= m - 1) /\ m - (m - 1) = 1
  BY <1>1
<1>6. new[m] = s
  BY <1>3, <1>4, <1>5
<1>7. ASSUME NEW j \in 1..m, j # m PROVE new[j] = old[j]
  <2>1. j <= m - 1 /\ j \in 1..(m - 1)
    BY <1>1, <1>7
  <2> QED  BY <1>2, <1>4, <1>5, <2>1
<1> QED  BY <1>1, <1>4, <1>5, <1>6, <1>7 DEF front, m, new

\* What AddTurn does to the samples.
Grown(K, old, turn, a, new) ==
    /\ new \in Seq(Seq(Cells(K, a))) /\ Len(old) \in Nat
    /\ \A j \in 1..Len(old) : j # Len(new) => new[j] = old[j]
    /\ \E last : /\ \/ Len(new) = Len(old) /\ Len(old) # 0 /\ last = old[Len(old)]
                    \/ Len(new) = Len(old) + 1 /\ last = <<>>
                 /\ Follows(new[Len(new)], last, turn, a)

\* A turn that starts a sample.
LEMMA FreshSample ==
    ASSUME NEW K, NEW a, NEW old \in Seq(Seq(Cells(K, a))), NEW turn, Spoken(K, turn)
    PROVE  Grown(K, old, turn, a, Append(old, TurnCells(turn, 0, a)))
<1> DEFINE cells == TurnCells(turn, 0, a)
           new == Append(old, cells)
<1>1. Len(turn.prompt) \in Nat /\ <<>> \in Seq(Cells(K, a)) /\ Len(<<>>) = 0
  BY LenProperties, EmptySeq DEF Spoken
<1>2. LET s == <<>> \o TurnCells(turn, Len(<<>>), a)
      IN  s \in Seq(Cells(K, a)) /\ Follows(s, <<>>, turn, a)
  <2> DEFINE none == <<>>
  <2> HIDE DEF none
  <2>1. none \in Seq(Cells(K, a)) /\ Len(none) <= Len(turn.prompt)
    BY <1>1 DEF none
  <2>2. \A k \in 1..Len(none) : none[k].token = turn.prompt[k]
    BY <1>1 DEF none
  <2>3. LET s == none \o TurnCells(turn, Len(none), a)
        IN  s \in Seq(Cells(K, a)) /\ Follows(s, none, turn, a)
    BY <2>1, <2>2, SampleFollows, Zenon
  <2> QED  BY <2>3 DEF none
<1>3. <<>> \o cells \in Seq(Cells(K, a)) /\ Follows(<<>> \o cells, <<>>, turn, a)
  BY <1>1, <1>2
<1>4. cells \in Seq(Cells(K, a)) /\ Follows(cells, <<>>, turn, a)
  BY <1>3, <1>1
<1> HIDE DEF cells
<1>5. /\ new \in Seq(Seq(Cells(K, a))) /\ Len(new) = Len(old) + 1 /\ Len(old) \in Nat
      /\ \A j \in 1..Len(old) : new[j] = old[j]
      /\ new[Len(old) + 1] = cells
  BY <1>4, AppendProperties, LenProperties
<1> HIDE DEF new
<1>6. Grown(K, old, turn, a, new)
  BY <1>4, <1>5 DEF Grown
<1> QED  BY <1>6 DEF new, cells

\* A turn that continues the last sample.
LEMMA LongerSample ==
    ASSUME NEW K, NEW a, NEW old \in Seq(Seq(Cells(K, a))), NEW turn, Spoken(K, turn), old # <<>>,
           NEW last, last = old[Len(old)], Len(last) <= Len(turn.prompt),
           \A k \in 1..Len(last) : last[k].token = turn.prompt[k]
    PROVE  Grown(K, old, turn, a, Front(old) \o <<last \o TurnCells(turn, Len(last), a)>>)
<1> DEFINE s == last \o TurnCells(turn, Len(last), a)
           new == Front(old) \o <<s>>
<1>1. Len(old) \in Nat \ {0}
  BY EmptySeq
<1>2. last \in Seq(Cells(K, a))
  BY <1>1, ElementOfSeq
<1>3. s \in Seq(Cells(K, a)) /\ Follows(s, last, turn, a)
  BY <1>2, SampleFollows
<1> HIDE DEF s
<1>4. /\ new \in Seq(Seq(Cells(K, a))) /\ Len(new) = Len(old)
      /\ new[Len(old)] = s
      /\ \A j \in 1..Len(old) : j # Len(old) => new[j] = old[j]
  BY <1>3, ReplaceLast
<1> HIDE DEF new
<1>5. Grown(K, old, turn, a, new)
  BY <1>1, <1>3, <1>4 DEF Grown
<1> QED  BY <1>5 DEF new, s

\* A turn lengthens the last sample, or adds one; the other samples stay.
LEMMA AddTurnGrows ==
    ASSUME NEW K, NEW a, NEW acc, NEW turn, Spoken(K, turn),
           acc.samples \in Seq(Seq(Cells(K, a))), acc.prev \in Seq(K),
           acc.samples # <<>> => Tells(Last(acc.samples), acc.prev)
    PROVE  LET new == AddTurn(acc, turn, a)
           IN  /\ Grown(K, acc.samples, turn, a, new.samples)
               /\ new.prev = turn.prompt \o turn.completion
               /\ new = [samples |-> new.samples, prev |-> new.prev]
<1> DEFINE old == acc.samples
           m == Len(old)
           extends == old # <<>> /\ Continues(turn.prompt, acc.prev)
           new == AddTurn(acc, turn, a)
<1>1. /\ new.samples =
             IF extends THEN Front(old) \o <<Last(old) \o TurnCells(turn, Len(acc.prev), a)>>
                        ELSE Append(old, TurnCells(turn, 0, a))
      /\ new.prev = turn.prompt \o turn.completion
      /\ new = [samples |-> new.samples, prev |-> new.prev]
  <2>1. turn.completion # <<>>
    BY DEF Spoken
  <2> DEFINE grown == IF extends THEN Front(old) \o <<Last(old) \o TurnCells(turn, Len(acc.prev), a)>>
                      ELSE Append(old, TurnCells(turn, 0, a))
             said == turn.prompt \o turn.completion
             shared == IF extends THEN Len(acc.prev) ELSE 0
             cells == TurnCells(turn, shared, a)
  <2>2. new = [samples |-> IF extends THEN Front(old) \o <<Last(old) \o cells>> ELSE Append(old, cells),
               prev |-> said]
    BY <2>1, Zenon DEF AddTurn, TurnCells
  <2>3. (IF extends THEN Front(old) \o <<Last(old) \o cells>> ELSE Append(old, cells)) = grown
    BY Zenon
  <2> HIDE DEF new, grown, said, extends, cells
  <2>4. new = [samples |-> grown, prev |-> said]
    BY <2>2, <2>3
  <2> QED  BY <2>4 DEF grown, said
<1> HIDE DEF new
<1>2. CASE ~extends
  <2>1. new.samples = Append(old, TurnCells(turn, 0, a))
    BY <1>1, <1>2
  <2>2. Grown(K, old, turn, a, Append(old, TurnCells(turn, 0, a)))
    BY FreshSample
  <2> QED  BY <1>1, <2>1, <2>2 DEF new
<1>3. CASE extends
  <2>1. Len(old[m]) = Len(acc.prev) /\ \A k \in 1..Len(acc.prev) : old[m][k].token = acc.prev[k]
    BY <1>3 DEF Tells, Last
  <2>2. Len(acc.prev) <= Len(turn.prompt) /\ \A k \in 1..Len(acc.prev) : acc.prev[k] = turn.prompt[k]
    <3> DEFINE q == Len(acc.prev)
    <3>1. q \in Nat /\ Len(turn.prompt) \in Nat /\ turn.prompt \in Seq(K)
      BY LenProperties DEF Spoken
    <3>2. q <= Len(turn.prompt) /\ SubSeq(acc.prev, 1, q) = SubSeq(turn.prompt, 1, q)
      BY <1>3 DEF Continues, IsPrefix
    <3>3. \A i \in 1..q : acc.prev[i] \in K /\ turn.prompt[i] \in K
      BY <3>1, <3>2, ElementOfSeq
    <3>4. 1 \in Int /\ q \in Int /\ (q - 1) + 1 = q /\ \A i \in 1..q : 1 + i - 1 = i
      BY <3>1
    <3> HIDE DEF q
    <3>5. \A i \in 1..((q - 1) + 1) : SubSeq(acc.prev, 1, q)[i] = acc.prev[1 + i - 1]
      BY <3>3, <3>4, SubSeqProperties
    <3>6. \A i \in 1..((q - 1) + 1) : SubSeq(turn.prompt, 1, q)[i] = turn.prompt[1 + i - 1]
      BY <3>3, <3>4, SubSeqProperties
    <3>7. \A k \in 1..q : acc.prev[k] = turn.prompt[k]
      BY <3>2, <3>4, <3>5, <3>6
    <3> QED  BY <3>2, <3>7 DEF q
  <2>3. new.samples = Front(old) \o <<old[m] \o TurnCells(turn, Len(old[m]), a)>>
    BY <1>1, <1>3, <2>1 DEF Last
  <2>4. Len(old[m]) <= Len(turn.prompt) /\ \A k \in 1..Len(old[m]) : old[m][k].token = turn.prompt[k]
    BY <2>1, <2>2
  <2>5. Grown(K, old, turn, a, Front(old) \o <<old[m] \o TurnCells(turn, Len(old[m]), a)>>)
    BY <1>3, <2>4, LongerSample
  <2> QED  BY <1>1, <2>3, <2>5 DEF new
<1> QED  BY <1>2, <1>3

\* What a cell shows the model, by its place in the sample.
Shown(s, k) ==
    [token |-> s[k].token, logprob |-> s[k].logprob, advantage |-> s[k].advantage,
     context |-> [m \in 1..(k - 1) |-> s[m].token]]

\* A sample opens with a cell that is not trained and has one that is.
Whole(s) ==
    Len(s) \in Nat \ {0} /\ s[1].trained = FALSE /\ \E k \in 1..Len(s) : s[k].trained = TRUE

\* The samples train what is said, each thing in one cell, nothing else.
Only(made, said) ==
    \A j \in 1..Len(made) : \A k \in 1..Len(made[j]) :
       made[j][k].trained = TRUE => Shown(made[j], k) \in said
All(made, said) ==
    \A w \in said : \E j \in 1..Len(made) : \E k \in 1..Len(made[j]) :
       made[j][k].trained = TRUE /\ Shown(made[j], k) = w
Once(made) ==
    \A i, j \in 1..Len(made) : \A k \in 1..Len(made[i]), l \in 1..Len(made[j]) :
       /\ made[i][k].trained = TRUE /\ made[j][l].trained = TRUE
       /\ made[i][k].token = made[j][l].token
       => i = j /\ k = l
Sound(made, said) ==
    (\A j \in 1..Len(made) : Whole(made[j])) /\ Only(made, said) /\ Once(made)

\* What a turn says.
Says(turn, a) == {SampledAt(turn, l, a) : l \in DOMAIN turn.completion}

\* A completion token is shown with what it was sampled from.
LEMMA CompletionShown ==
    ASSUME NEW K, NEW a, NEW turn, Spoken(K, turn), NEW last, NEW s, Follows(s, last, turn, a),
           NEW l \in 1..Len(turn.completion)
    PROVE  /\ Len(turn.prompt) + l \in 1..Len(s)
           /\ s[Len(turn.prompt) + l].trained = TRUE
           /\ Shown(s, Len(turn.prompt) + l) = SampledAt(turn, l, a)
<1> DEFINE p == Len(turn.prompt)
           said == Len(turn.completion)
           before == SubSeq(turn.completion, 1, l - 1)
           context == [m \in 1..((p + l) - 1) |-> s[m].token]
<1>1. /\ turn.prompt \in Seq(K) /\ turn.completion \in Seq(K)
      /\ p \in Nat /\ said \in Nat
  BY LenProperties DEF Spoken
<1>2. /\ Len(s) = p + said
      /\ \A k \in 1..p : s[k].token = turn.prompt[k]
      /\ \A k \in 1..said : s[p + k] = Trained(turn.completion[k], turn.logprobs[k], a)
  BY DEF Follows
<1>3. l \in 1..said
  OBVIOUS
<1> HIDE DEF p, said
<1>4. /\ p + l \in 1..(p + said) /\ (p + l) - 1 \in Nat /\ (p + l) - 1 = p + (l - 1)
      /\ l - 1 \in Nat /\ l \in Nat
  BY <1>1, <1>3
<1>5. \A i \in 1..(l - 1) : i \in 1..said /\ turn.completion[i] \in K
  <2> SUFFICES ASSUME NEW i \in 1..(l - 1) PROVE i \in 1..said /\ turn.completion[i] \in K
    OBVIOUS
  <2>1. i \in 1..said
    BY <1>1, <1>3
  <2> QED  BY <1>1, <2>1, ElementOfSeq DEF said
<1>6. /\ before \in Seq(K) /\ Len(before) = l - 1
      /\ \A i \in 1..(l - 1) : before[i] = turn.completion[i]
  <2>1. /\ 1 \in Int /\ l - 1 \in Int /\ (l - 1) - 1 + 1 = l - 1 /\ \A i \in 1..(l - 1) : 1 + i - 1 = i
        /\ (1 <= l - 1 \/ l - 1 = 0)
    BY <1>4
  <2>2. /\ before \in Seq(K)
        /\ Len(before) = IF 1 <= l - 1 THEN (l - 1) - 1 + 1 ELSE 0
        /\ \A i \in 1..((l - 1) - 1 + 1) : before[i] = turn.completion[1 + i - 1]
    BY <1>5, <2>1, SubSeqProperties
  <2> HIDE DEF before
  <2> QED  BY <2>1, <2>2
<1>7. /\ turn.prompt \o before \in Seq(K) /\ Len(turn.prompt \o before) = p + (l - 1)
      /\ \A k \in 1..p : (turn.prompt \o before)[k] = turn.prompt[k]
      /\ \A k \in 1..(l - 1) : (turn.prompt \o before)[p + k] = before[k]
  <2> HIDE DEF before
  <2>1. /\ turn.prompt \o before \in Seq(K) /\ Len(turn.prompt \o before) = Len(turn.prompt) + Len(before)
        /\ \A k \in 1..Len(turn.prompt) : (turn.prompt \o before)[k] = turn.prompt[k]
        /\ \A k \in 1..Len(before) : (turn.prompt \o before)[Len(turn.prompt) + k] = before[k]
    <3>1. turn.prompt \in Seq(K) /\ before \in Seq(K)
      BY <1>1, <1>6
    <3> QED  BY <3>1, SecondPart
  <2>2. Len(before) = l - 1 /\ Len(turn.prompt) = p
    BY <1>6 DEF p
  <2> QED  BY <2>1, <2>2
<1> DEFINE said1 == turn.prompt \o before
<1> HIDE DEF before, said1
<1>8. ASSUME NEW m \in 1..((p + l) - 1) PROVE s[m].token = said1[m]
  <2>1. CASE m <= p
    <3>1. m \in 1..p
      BY <1>1, <2>1
    <3> QED  BY <1>2, <1>7, <3>1 DEF said1
  <2>2. CASE ~(m <= p)
    <3> DEFINE i == m - p
    <3>1. i \in 1..(l - 1) /\ p + i = m
      BY <1>1, <1>4, <2>2
    <3> HIDE DEF i
    <3>2. s[m] = Trained(turn.completion[i], turn.logprobs[i], a)
      BY <1>2, <1>5, <3>1
    <3>3. said1[m] = before[i]
      BY <1>7, <3>1 DEF said1
    <3> QED  BY <1>6, <3>1, <3>2, <3>3 DEF Trained
  <2> QED  BY <2>1, <2>2
<1>9. said1 = [m \in 1..((p + l) - 1) |-> said1[m]]
  BY <1>4, <1>7, LenProperties DEF said1
<1>10. context = said1
  BY <1>8, <1>9
<1>11. s[p + l] = Trained(turn.completion[l], turn.logprobs[l], a)
  BY <1>2, <1>3
<1> HIDE DEF context
<1>12. Shown(s, p + l) = [token |-> turn.completion[l], logprob |-> turn.logprobs[l],
                          advantage |-> a, context |-> context]
  BY <1>11 DEF Shown, Trained, context
<1>13. SampledAt(turn, l, a) = [token |-> turn.completion[l], logprob |-> turn.logprobs[l],
                                advantage |-> a, context |-> said1]
  BY DEF SampledAt, said1, before
<1>14. s[p + l].trained = TRUE
  BY <1>11 DEF Trained
<1>15. Shown(s, p + l) = SampledAt(turn, l, a)
  BY <1>10, <1>12, <1>13
<1>16. p + l \in 1..Len(s)
  BY <1>2, <1>4
<1> QED  BY <1>14, <1>15, <1>16 DEF p

\* The cells of a sample after a turn: the trained ones that were there, and the completion.
Extended(s, last, turn) ==
    /\ (Whole(last) \/ last = <<>>) => Whole(s)
    /\ \A k \in 1..Len(last) : k \in 1..Len(s) /\ s[k] = last[k] /\ Shown(s, k) = Shown(last, k)
    /\ \A k \in 1..Len(s) : s[k].trained = TRUE =>
          k \in 1..Len(last) \/ \E l \in 1..Len(turn.completion) : k = Len(turn.prompt) + l
    /\ Tells(s, turn.prompt \o turn.completion)

\* What a longer sample keeps of the shorter one and what it adds.
LEMMA FollowsCells ==
    ASSUME NEW K, NEW a, NEW turn, Spoken(K, turn), NEW last, NEW s, Follows(s, last, turn, a)
    PROVE  Extended(s, last, turn)
<1> DEFINE p == Len(turn.prompt)
           said == Len(turn.completion)
           q == Len(last)
<1>1. /\ turn.prompt \in Seq(K) /\ turn.completion \in Seq(K)
      /\ p \in Nat \ {0} /\ said \in Nat \ {0}
  BY EmptySeq DEF Spoken
<1>2. /\ q \in 0..p
      /\ Len(s) = p + said
      /\ \A k \in 1..p : s[k].token = turn.prompt[k]
      /\ \A k \in 1..q : s[k] = last[k]
      /\ \A k \in (q + 1)..p : s[k].trained = FALSE
      /\ \A l \in 1..said : s[p + l] = Trained(turn.completion[l], turn.logprobs[l], a)
  BY DEF Follows
<1>3. /\ \A k \in 1..said : p + k \in 1..Len(s) /\ s[p + k].trained = TRUE
      /\ 1 \in 1..said
  <2>1. \A k \in 1..said : p + k \in 1..Len(s) /\ s[p + k].trained = TRUE
    BY CompletionShown
  <2>2. 1 \in 1..said
    <3> HIDE DEF said
    <3> QED  BY <1>1
  <2> QED  BY <2>1, <2>2
<1> HIDE DEF p, said, q
<1>4. ASSUME NEW k \in 1..q PROVE k \in 1..Len(s) /\ s[k] = last[k] /\ Shown(s, k) = Shown(last, k)
  <2>1. k \in 1..Len(s) /\ s[k] = last[k]
    BY <1>1, <1>2
  <2>2. \A m \in 1..(k - 1) : m \in 1..q
    BY <1>1, <1>2
  <2>3. [m \in 1..(k - 1) |-> s[m].token] = [m \in 1..(k - 1) |-> last[m].token]
    BY <1>2, <2>2
  <2> QED  BY <2>1, <2>3 DEF Shown
<1>5. ASSUME NEW k \in 1..Len(s), s[k].trained = TRUE
      PROVE  k \in 1..q \/ \E l \in 1..said : k = p + l
  <2>1. k \in 1..q \/ k \in (q + 1)..p \/ (k - p \in 1..said /\ k = p + (k - p))
    BY <1>1, <1>2
  <2>2. ~(k \in (q + 1)..p)
    BY <1>2, <1>5
  <2> QED  BY <2>1, <2>2
<1>6. ASSUME Whole(last) \/ last = <<>> PROVE Whole(s)
  <2>1. s[1].trained = FALSE
    <3>1. CASE q = 0
      <4>1. 1 \in (q + 1)..p
        BY <1>1, <3>1
      <4> QED  BY <1>2, <4>1
    <3>2. CASE q # 0
      <4>1. last # <<>>
        BY <3>2 DEF q
      <4>2. last[1].trained = FALSE
        BY <1>6, <4>1 DEF Whole
      <4>3. 1 \in 1..q
        BY <1>1, <1>2, <3>2
      <4> QED  BY <1>2, <4>2, <4>3
    <3> QED  BY <3>1, <3>2
  <2>2. Len(s) \in Nat \ {0}
    BY <1>1, <1>2
  <2> QED  BY <1>3, <2>1, <2>2 DEF Whole
<1>7. Tells(s, turn.prompt \o turn.completion)
  <2> DEFINE both == turn.prompt \o turn.completion
  <2>1. /\ both \in Seq(K) /\ Len(both) = Len(turn.prompt) + Len(turn.completion)
        /\ \A k \in 1..Len(turn.prompt) : both[k] = turn.prompt[k]
        /\ \A k \in 1..Len(turn.completion) : both[Len(turn.prompt) + k] = turn.completion[k]
    <3> DEFINE x == turn.prompt
               y == turn.completion
    <3>1. x \in Seq(K) /\ y \in Seq(K)
      BY <1>1
    <3> HIDE DEF x, y
    <3>2. /\ x \o y \in Seq(K) /\ Len(x \o y) = Len(x) + Len(y)
          /\ \A k \in 1..Len(x) : (x \o y)[k] = x[k]
          /\ \A k \in 1..Len(y) : (x \o y)[Len(x) + k] = y[k]
      BY <3>1, SecondPart
    <3> QED  BY <3>2 DEF x, y
  <2> HIDE DEF both
  <2>2. /\ Len(both) = p + said
        /\ \A k \in 1..p : both[k] = turn.prompt[k]
        /\ \A k \in 1..said : both[p + k] = turn.completion[k]
    BY <2>1 DEF p, said
  <2>3. ASSUME NEW k \in 1..(p + said) PROVE s[k].token = both[k]
    <3>1. CASE k \in 1..p
      BY <1>2, <2>2, <3>1
    <3>2. CASE k \notin 1..p
      <4> DEFINE i == k - p
      <4>1. i \in 1..said /\ p + i = k
        BY <1>1, <3>2
      <4> HIDE DEF i
      <4>2. s[k] = Trained(turn.completion[i], turn.logprobs[i], a) /\ both[k] = turn.completion[i]
        BY <1>2, <2>2, <4>1
      <4> QED  BY <4>2 DEF Trained
    <3> QED  BY <3>1, <3>2
  <2>4. Tells(s, both)
    BY <1>2, <2>2, <2>3 DEF Tells
  <2> QED  BY <2>4 DEF both
<1> QED  BY <1>4, <1>5, <1>6, <1>7 DEF Extended, p, said, q

\* A turn keeps what the samples train and adds what it says, and nothing else.
KeptAndAdded(new, old, turn) ==
    /\ \A j \in 1..Len(new) : Whole(new[j])
    /\ Len(new) \in 1..Len(new) /\ Tells(new[Len(new)], turn.prompt \o turn.completion)
    /\ \A j \in 1..Len(old) : j \in 1..Len(new) /\
          \A k \in 1..Len(old[j]) : /\ k \in 1..Len(new[j]) /\ new[j][k] = old[j][k]
                                    /\ Shown(new[j], k) = Shown(old[j], k)
    /\ \A j \in 1..Len(new) : \A k \in 1..Len(new[j]) : new[j][k].trained = TRUE =>
          \/ j \in 1..Len(old) /\ k \in 1..Len(old[j])
          \/ j = Len(new) /\ \E l \in 1..Len(turn.completion) : k = Len(turn.prompt) + l

\* The trained cells after a turn are those before it and the completion's.
LEMMA GrownCells ==
    ASSUME NEW K, NEW a, NEW turn, Spoken(K, turn), NEW old, NEW new, Grown(K, old, turn, a, new),
           \A j \in 1..Len(old) : Whole(old[j])
    PROVE  KeptAndAdded(new, old, turn)
<1> DEFINE n == Len(old)
           m == Len(new)
           s == new[m]
<1>1. /\ n \in Nat
      /\ \A j \in 1..n : j # m => new[j] = old[j]
  BY DEF Grown
<1>2. PICK last : /\ \/ m = n /\ n # 0 /\ last = old[n]
                     \/ m = n + 1 /\ last = <<>>
                  /\ Follows(s, last, turn, a)
  BY DEF Grown
<1> HIDE DEF n, m, s
<1>3. /\ m \in Nat \ {0} /\ m \in 1..m /\ (m = n \/ m = n + 1)
      /\ \A j \in 1..n : j \in 1..m
      /\ \A j \in 1..m : j = m \/ j \in 1..n
  BY <1>1, <1>2
<1>4. Whole(last) \/ last = <<>>
  <2>1. CASE m = n /\ n # 0 /\ last = old[n]
    <3>1. n \in 1..n
      BY <1>1, <2>1
    <3> QED  BY <2>1, <3>1 DEF n
  <2> QED  BY <1>2, <2>1
<1>5. /\ Whole(s)
      /\ \A k \in 1..Len(last) : k \in 1..Len(s) /\ s[k] = last[k] /\ Shown(s, k) = Shown(last, k)
      /\ \A k \in 1..Len(s) : s[k].trained = TRUE =>
            k \in 1..Len(last) \/ \E l \in 1..Len(turn.completion) : k = Len(turn.prompt) + l
      /\ Tells(s, turn.prompt \o turn.completion)
  <2>1. Follows(s, last, turn, a)
    BY <1>2
  <2>2. Extended(s, last, turn)
    BY <2>1, FollowsCells
  <2> QED  BY <1>4, <2>2 DEF Extended
<1>6. ASSUME NEW j \in 1..m PROVE Whole(new[j])
  <2>1. CASE j = m
    BY <1>5, <2>1 DEF s
  <2>2. CASE j # m
    <3>1. j \in 1..n
      BY <1>3, <2>2
    <3>2. new[j] = old[j]
      BY <1>1, <2>2, <3>1
    <3>3. Whole(old[j])
      BY <3>1 DEF n
    <3> QED  BY <3>2, <3>3
  <2> QED  BY <2>1, <2>2
<1>7. ASSUME NEW j \in 1..n, NEW k \in 1..Len(old[j])
      PROVE  k \in 1..Len(new[j]) /\ new[j][k] = old[j][k] /\ Shown(new[j], k) = Shown(old[j], k)
  <2>1. CASE j = m
    <3>1. last = old[j] /\ new[j] = s
      BY <1>1, <1>2, <2>1 DEF s
    <3> QED  BY <1>5, <3>1
  <2>2. CASE j # m
    <3>1. new[j] = old[j]
      BY <1>1, <2>2
    <3> QED  BY <3>1
  <2> QED  BY <2>1, <2>2
<1>8. ASSUME NEW j \in 1..m, NEW k \in 1..Len(new[j]), new[j][k].trained = TRUE
      PROVE  \/ j \in 1..n /\ k \in 1..Len(old[j])
             \/ j = m /\ \E l \in 1..Len(turn.completion) : k = Len(turn.prompt) + l
  <2>1. CASE j = m
    <3>1. k \in 1..Len(s) /\ s[k].trained = TRUE
      BY <1>8, <2>1 DEF s
    <3>2. k \in 1..Len(last) \/ \E l \in 1..Len(turn.completion) : k = Len(turn.prompt) + l
      BY <1>5, <3>1
    <3>3. CASE k \in 1..Len(last)
      <4>1. CASE last = <<>>
        <5>1. Len(last) = 0
          BY <4>1
        <5> QED  BY <3>3, <5>1
      <4>2. CASE m = n /\ n # 0 /\ last = old[n]
        <5>1. n \in 1..n
          BY <1>1, <4>2
        <5> QED  BY <2>1, <3>3, <4>2, <5>1
      <4> QED  BY <1>2, <4>1, <4>2
    <3> QED  BY <2>1, <3>2, <3>3
  <2>2. CASE j # m
    <3>1. j \in 1..n
      BY <1>3, <2>2
    <3>2. new[j] = old[j]
      BY <1>1, <2>2, <3>1
    <3> QED  BY <3>1, <3>2
  <2> QED  BY <2>1, <2>2
<1>9. \A j \in 1..n : j \in 1..m
  BY <1>3
<1> QED  BY <1>3, <1>5, <1>6, <1>7, <1>8, <1>9 DEF KeptAndAdded, n, m, s

\* No two things said are the same token.
Apart(turn, said) ==
    /\ \A l, i \in DOMAIN turn.completion : turn.completion[l] = turn.completion[i] => l = i
    /\ \A w \in said : \A l \in DOMAIN turn.completion : w.token # turn.completion[l]

\* The samples stay sound under a turn whose tokens are new.
LEMMA GrownSound ==
    ASSUME NEW K, NEW a, NEW turn, Spoken(K, turn), NEW old, NEW new, Grown(K, old, turn, a, new),
           NEW said, Sound(old, said), All(old, said), Apart(turn, said)
    PROVE  Sound(new, said \cup Says(turn, a)) /\ All(new, said \cup Says(turn, a))
<1> DEFINE more == said \cup Says(turn, a)
           m == Len(new)
           p == Len(turn.prompt)
           c == Len(turn.completion)
<1>1. /\ \A j \in 1..Len(old) : Whole(old[j])
      /\ \A j \in 1..Len(old) : \A k \in 1..Len(old[j]) :
            old[j][k].trained = TRUE => Shown(old[j], k) \in said
      /\ Once(old)
  BY DEF Sound, Only
<1>2. \A w \in said : \E j \in 1..Len(old) : \E k \in 1..Len(old[j]) :
         old[j][k].trained = TRUE /\ Shown(old[j], k) = w
  BY DEF All
<1>3. DOMAIN turn.completion = 1..c
  BY LenProperties DEF Spoken
<1>4. /\ \A j \in 1..m : Whole(new[j])
      /\ m \in 1..m
      /\ \A j \in 1..Len(old) : j \in 1..m /\
            \A k \in 1..Len(old[j]) : /\ k \in 1..Len(new[j]) /\ new[j][k] = old[j][k]
                                      /\ Shown(new[j], k) = Shown(old[j], k)
      /\ \A j \in 1..m : \A k \in 1..Len(new[j]) : new[j][k].trained = TRUE =>
            \/ j \in 1..Len(old) /\ k \in 1..Len(old[j])
            \/ j = m /\ \E l \in 1..c : k = p + l
  <2>1. \A j \in 1..Len(old) : Whole(old[j])
    BY <1>1
  <2>2. KeptAndAdded(new, old, turn)
    BY <2>1, GrownCells
  <2> QED  BY <2>2 DEF KeptAndAdded
<1>5. \A l \in 1..c : /\ p + l \in 1..Len(new[m]) /\ new[m][p + l].trained = TRUE
                      /\ Shown(new[m], p + l) = SampledAt(turn, l, a)
  <2>1. PICK last : Follows(new[m], last, turn, a)
    BY DEF Grown
  <2> HIDE DEF m, p, c
  <2> QED  BY <2>1, CompletionShown DEF p, c
<1>6. \A l \in 1..c : SampledAt(turn, l, a) \in Says(turn, a)
  BY <1>3 DEF Says
<1>7. \A s : \A k : Shown(s, k).token = s[k].token
  BY DEF Shown
<1>8. \A l : SampledAt(turn, l, a).token = turn.completion[l]
  BY DEF SampledAt
<1> HIDE DEF m, p, c
<1>9. Only(new, more)
  <2> SUFFICES ASSUME NEW j \in 1..m, NEW k \in 1..Len(new[j]), new[j][k].trained = TRUE
               PROVE  Shown(new[j], k) \in more
    BY DEF Only, m
  <2>1. CASE j \in 1..Len(old) /\ k \in 1..Len(old[j])
    BY <1>1, <1>4, <2>1
  <2>2. CASE j = m /\ \E l \in 1..c : k = p + l
    BY <1>5, <1>6, <2>2
  <2> QED  BY <1>4, <2>1, <2>2
<1>10. All(new, more)
  <2> SUFFICES ASSUME NEW w \in more
               PROVE  \E j \in 1..m : \E k \in 1..Len(new[j]) : new[j][k].trained = TRUE /\ Shown(new[j], k) = w
    BY DEF All, m
  <2>1. CASE w \in said
    <3>1. PICK j \in 1..Len(old) : \E k \in 1..Len(old[j]) : old[j][k].trained = TRUE /\ Shown(old[j], k) = w
      BY <1>2, <2>1
    <3>2. PICK k \in 1..Len(old[j]) : old[j][k].trained = TRUE /\ Shown(old[j], k) = w
      BY <3>1
    <3>3. j \in 1..m /\ k \in 1..Len(new[j]) /\ new[j][k] = old[j][k] /\ Shown(new[j], k) = Shown(old[j], k)
      BY <1>4
    <3> QED  BY <3>2, <3>3
  <2>2. CASE w \in Says(turn, a)
    <3>1. PICK l \in 1..c : w = SampledAt(turn, l, a)
      BY <1>3, <2>2 DEF Says
    <3> QED  BY <1>4, <1>5, <3>1
  <2> QED  BY <2>1, <2>2
<1>11. Once(new)
  <2> SUFFICES \A i, j \in 1..m : \A k \in 1..Len(new[i]), l \in 1..Len(new[j]) :
                  /\ new[i][k].trained = TRUE /\ new[j][l].trained = TRUE
                  /\ new[i][k].token = new[j][l].token
                  => i = j /\ k = l
    BY DEF Once, m
  <2> TAKE i, j \in 1..m
  <2> TAKE k \in 1..Len(new[i]), l \in 1..Len(new[j])
  <2> HAVE /\ new[i][k].trained = TRUE /\ new[j][l].trained = TRUE
           /\ new[i][k].token = new[j][l].token
  <2> DEFINE Before(g, h) == g \in 1..Len(old) /\ h \in 1..Len(old[g])
             Now(g, h) == g = m /\ \E x \in 1..c : h = p + x
  <2>1. (Before(i, k) \/ Now(i, k)) /\ (Before(j, l) \/ Now(j, l))
    BY <1>4
  <2>2. ASSUME NEW g, NEW h, Before(g, h), new[g][h].trained = TRUE
        PROVE  old[g][h].trained = TRUE /\ old[g][h].token = new[g][h].token /\ Shown(old[g], h) \in said
    BY <1>1, <1>4, <2>2
  <2>3. ASSUME NEW g, NEW h, Now(g, h)
        PROVE  \E x \in 1..c : h = p + x /\ new[g][h].token = turn.completion[x]
    BY <1>5, <1>7, <1>8, <2>3
  <2>4. CASE Before(i, k) /\ Before(j, l)
    <3>1. old[i][k].trained = TRUE /\ old[j][l].trained = TRUE /\ old[i][k].token = old[j][l].token
      BY <2>2, <2>4
    <3> QED  BY <1>1, <2>4, <3>1 DEF Once
  <2>5. CASE Now(i, k) /\ Now(j, l)
    <3>1. PICK x \in 1..c : k = p + x /\ new[i][k].token = turn.completion[x]
      BY <2>3, <2>5
    <3>2. PICK y \in 1..c : l = p + y /\ new[j][l].token = turn.completion[y]
      BY <2>3, <2>5
    <3>3. x = y
      BY <1>3, <3>1, <3>2 DEF Apart
    <3> QED  BY <2>5, <3>1, <3>2, <3>3
  <2>6. ASSUME NEW g, NEW h, NEW e, NEW f, Before(g, h), Now(e, f), new[g][h].trained = TRUE,
               new[g][h].token = new[e][f].token
        PROVE  FALSE
    <3>1. Shown(old[g], h) \in said /\ Shown(old[g], h).token = new[g][h].token
      <4>1. old[g][h].token = new[g][h].token /\ Shown(old[g], h) \in said
        BY <2>2, <2>6
      <4> QED  BY <1>7, <4>1
    <3>2. PICK x \in 1..c : new[e][f].token = turn.completion[x]
      <4>1. \E v \in 1..c : f = p + v /\ new[e][f].token = turn.completion[v]
        BY <2>3, <2>6
      <4> QED  BY <4>1
    <3>3. \A w \in said : \A v \in 1..c : w.token # turn.completion[v]
      BY <1>3 DEF Apart
    <3> QED  BY <2>6, <3>1, <3>2, <3>3
  <2> HIDE DEF Before, Now
  <2>7. ~(Before(i, k) /\ Now(j, l)) /\ ~(Now(i, k) /\ Before(j, l))
    BY <2>6
  <2> QED  BY <2>1, <2>4, <2>5, <2>7
<1>12. \A j \in 1..Len(new) : Whole(new[j])
  BY <1>4 DEF m
<1> QED  BY <1>9, <1>10, <1>11, <1>12 DEF Sound

\* What the fold over the turns has made so far.
Ledger(K, a) ==
    {acc \in [samples : Seq(Seq(Cells(K, a))), prev : Seq(K)] :
        acc.samples # <<>> => Tells(Last(acc.samples), acc.prev)}

\* A turn keeps what the fold over the turns knows.
LEMMA AddTurnLedger ==
    ASSUME NEW K, NEW a, NEW acc \in Ledger(K, a), NEW turn, Spoken(K, turn)
    PROVE  /\ AddTurn(acc, turn, a) \in Ledger(K, a)
           /\ Grown(K, acc.samples, turn, a, AddTurn(acc, turn, a).samples)
<1> DEFINE new == AddTurn(acc, turn, a)
<1>1. /\ acc.samples \in Seq(Seq(Cells(K, a))) /\ acc.prev \in Seq(K)
      /\ acc.samples # <<>> => Tells(Last(acc.samples), acc.prev)
  BY DEF Ledger
<1>2. /\ Grown(K, acc.samples, turn, a, new.samples)
      /\ new.prev = turn.prompt \o turn.completion
      /\ new = [samples |-> new.samples, prev |-> new.prev]
  BY <1>1, AddTurnGrows
<1> HIDE DEF new
<1>3. new.samples \in Seq(Seq(Cells(K, a))) /\ new.prev \in Seq(K)
  <2> DEFINE x == turn.prompt
             y == turn.completion
  <2>1. x \in Seq(K) /\ y \in Seq(K)
    BY DEF Spoken
  <2>2. new.samples \in Seq(Seq(Cells(K, a))) /\ new.prev = x \o y
    BY <1>2 DEF Grown
  <2> HIDE DEF x, y
  <2>3. x \o y \in Seq(K)
    BY <2>1, ConcatProperties
  <2> QED  BY <2>2, <2>3
<1>4. Tells(Last(new.samples), new.prev)
  <2>1. PICK last : Follows(new.samples[Len(new.samples)], last, turn, a)
    BY <1>2 DEF Grown
  <2>2. Extended(new.samples[Len(new.samples)], last, turn)
    BY <2>1, FollowsCells
  <2>3. Tells(new.samples[Len(new.samples)], turn.prompt \o turn.completion)
    BY <2>2 DEF Extended
  <2> QED  BY <1>2, <2>3 DEF Last
<1>5. new \in Ledger(K, a)
  <2>1. new \in [samples : Seq(Seq(Cells(K, a))), prev : Seq(K)]
    BY <1>2, <1>3
  <2> QED  BY <1>4, <2>1 DEF Ledger
<1> QED  BY <1>2, <1>5 DEF new

\* The turns a rollout can have handed in.
Handed(K, ts) ==
    /\ Len(ts) \in Nat
    /\ \A t \in 1..Len(ts) : Spoken(K, ts[t])
    /\ \A t, i \in 1..Len(ts) : \A l \in DOMAIN ts[t].completion, k \in DOMAIN ts[i].completion :
          ts[t].completion[l] = ts[i].completion[k] => t = i /\ l = k

\* What they say.
SaidBy(ts, n, a) == UNION {Says(ts[t], a) : t \in 1..n}

\* The recursion of RolloutToTrainingSamples.
FoldOfTurns(acc, ts, a) ==
    acc = [n \in 0..Len(ts) |-> IF n = 0 THEN [samples |-> <<>>, prev |-> <<>>]
                                ELSE AddTurn(acc[n - 1], ts[n], a)]

\* The recursive function of RolloutToTrainingSamples exists and is the fold of AddTurn.
LEMMA FoldOfTurnsExists ==
    ASSUME NEW K, NEW a, NEW ts, Handed(K, ts)
    PROVE  \E acc : /\ FoldOfTurns(acc, ts, a)
                    /\ RolloutToTrainingSamples(ts, a) = acc[Len(ts)].samples
<1> DEFINE N == Len(ts)
           S == Ledger(K, a)
           base == [samples |-> <<>>, prev |-> <<>>]
           step == [k \in 1..N |-> [x \in S |-> AddTurn(x, ts[k], a)]]
<1>1. N \in Nat /\ \A k \in 1..N : Spoken(K, ts[k])
  BY DEF Handed
<1>2. base \in S
  <2>1. <<>> \in Seq(Seq(Cells(K, a))) /\ <<>> \in Seq(K)
    BY EmptySeq
  <2>2. base.samples = <<>>
    OBVIOUS
  <2> QED  BY <2>1, <2>2 DEF Ledger
<1>3. \A k \in 1..N : \A x \in S : step[k][x] \in S /\ step[k][x] = AddTurn(x, ts[k], a)
  BY <1>1, AddTurnLedger
<1> HIDE DEF step, S, N, base
<1>4. PICK f \in [0..N -> S] : f[0] = base /\ \A k \in 1..N : f[k] = step[k][f[k - 1]]
  <2>1. Steps(S, N, step)
    BY <1>3 DEF Steps
  <2>2. N \in Nat
    BY <1>1
  <2>3. \E f : Solves(f, S, base, N, step)
    BY <1>2, <2>1, <2>2, RecursionExists
  <2> QED  BY <2>3 DEF Solves
<1>5. ASSUME NEW n \in 0..N PROVE f[n] = IF n = 0 THEN base ELSE AddTurn(f[n - 1], ts[n], a)
  <2>1. CASE n = 0
    BY <1>4, <2>1
  <2>2. CASE n # 0
    <3>1. n \in 1..N /\ n - 1 \in 0..N
      BY <1>1, <2>2
    <3>2. f[n - 1] \in S
      BY <1>4, <3>1
    <3> QED  BY <1>3, <1>4, <2>2, <3>1, <3>2
  <2> QED  BY <2>1, <2>2
<1>6. f = [n \in 0..N |-> f[n]]
  BY <1>4
<1>7. FoldOfTurns(f, ts, a)
  BY <1>5, <1>6 DEF FoldOfTurns, N, base
<1> DEFINE acc == CHOOSE x : FoldOfTurns(x, ts, a)
<1>8. FoldOfTurns(acc, ts, a)
  BY <1>7
<1>9. RolloutToTrainingSamples(ts, a) = acc[Len(ts)].samples
  BY DEF RolloutToTrainingSamples, FoldOfTurns
<1> HIDE DEF acc
<1> QED  BY <1>8, <1>9

\* However its turns branch, a rollout's samples train each of its sampled tokens
\* in one cell, after the tokens it was sampled from.
LEMMA RolloutSamples ==
    ASSUME NEW K, NEW a, NEW ts, Handed(K, ts)
    PROVE  LET made == RolloutToTrainingSamples(ts, a)
           IN  /\ made \in Seq(Seq(Cells(K, a)))
               /\ Sound(made, SaidBy(ts, Len(ts), a)) /\ All(made, SaidBy(ts, Len(ts), a))
<1> DEFINE N == Len(ts)
<1>1. PICK acc : /\ FoldOfTurns(acc, ts, a)
                 /\ RolloutToTrainingSamples(ts, a) = acc[Len(ts)].samples
  BY FoldOfTurnsExists
<1>2. N \in Nat /\ \A k \in 1..N : Spoken(K, ts[k])
  BY DEF Handed
<1>3. \A n \in 0..N : acc[n] = IF n = 0 THEN [samples |-> <<>>, prev |-> <<>>]
                               ELSE AddTurn(acc[n - 1], ts[n], a)
  <2> DEFINE value(n) == IF n = 0 THEN [samples |-> <<>>, prev |-> <<>>]
                         ELSE AddTurn(acc[n - 1], ts[n], a)
  <2>1. acc = [n \in 0..N |-> value(n)]
    BY <1>1 DEF FoldOfTurns
  <2> HIDE DEF value
  <2>2. \A n \in 0..N : acc[n] = value(n)
    BY <2>1
  <2> QED  BY <2>2 DEF value
<1> DEFINE Good(n) == /\ acc[n] \in Ledger(K, a)
                      /\ Sound(acc[n].samples, SaidBy(ts, n, a)) /\ All(acc[n].samples, SaidBy(ts, n, a))
           T == {n \in Nat : n \in 0..N => Good(n)}
<1>4. 0 \in T
  <2>1. acc[0] = [samples |-> <<>>, prev |-> <<>>]
    BY <1>2, <1>3
  <2>2. acc[0] \in Ledger(K, a) /\ Len(acc[0].samples) = 0
    BY <2>1, EmptySeq DEF Ledger
  <2>3. SaidBy(ts, 0, a) = {}
    BY DEF SaidBy
  <2>4. Sound(acc[0].samples, SaidBy(ts, 0, a)) /\ All(acc[0].samples, SaidBy(ts, 0, a))
    BY <2>2, <2>3 DEF Sound, All, Only, Once
  <2> QED  BY <2>2, <2>4
<1>5. ASSUME NEW n \in Nat, n \in T PROVE n + 1 \in T
  <2> SUFFICES ASSUME n + 1 \in 0..N PROVE Good(n + 1)
    OBVIOUS
  <2> DEFINE turn == ts[n + 1]
  <2> HIDE DEF N
  <2>1. n \in 0..N /\ n + 1 \in 1..N /\ n + 1 # 0 /\ (n + 1) - 1 = n
    BY <1>2
  <2>2. acc[n + 1] = AddTurn(acc[n], turn, a) /\ Spoken(K, turn)
    BY <1>2, <1>3, <2>1
  <2>3. Good(n)
    BY <1>5, <2>1
  <2> DEFINE said == SaidBy(ts, n, a)
             next == AddTurn(acc[n], turn, a)
  <2>4. next \in Ledger(K, a) /\ Grown(K, acc[n].samples, turn, a, next.samples)
    BY <2>2, <2>3, AddTurnLedger
  <2>5. Apart(turn, said)
    <3>1. \A l, i \in DOMAIN turn.completion : turn.completion[l] = turn.completion[i] => l = i
      BY <2>1 DEF Handed, N
    <3>2. ASSUME NEW w \in said, NEW l \in DOMAIN turn.completion PROVE w.token # turn.completion[l]
      <4>1. PICK t \in 1..n : w \in Says(ts[t], a)
        BY DEF SaidBy
      <4>2. PICK i \in DOMAIN ts[t].completion : w = SampledAt(ts[t], i, a)
        BY <4>1 DEF Says
      <4>3. w.token = ts[t].completion[i]
        BY <4>2 DEF SampledAt
      <4>4. t \in 1..N /\ t # n + 1
        BY <1>2, <2>1
      <4> QED  BY <2>1, <4>2, <4>3, <4>4 DEF Handed, N
    <3> QED  BY <3>1, <3>2 DEF Apart
  <2>6. SaidBy(ts, n + 1, a) = said \cup Says(turn, a)
    <3>1. 1..(n + 1) = (1..n) \cup {n + 1}
      BY <2>1
    <3> QED  BY <3>1 DEF SaidBy
  <2>7. Sound(acc[n].samples, said) /\ All(acc[n].samples, said)
    BY <2>3
  <2> HIDE DEF turn, said, next, Good
  <2>8. Sound(next.samples, said \cup Says(turn, a)) /\ All(next.samples, said \cup Says(turn, a))
    BY <2>2, <2>4, <2>5, <2>7, GrownSound
  <2>9. acc[n + 1] = next
    BY <2>2 DEF next
  <2> QED  BY <2>4, <2>6, <2>8, <2>9 DEF Good
<1> HIDE DEF T
<1>6. N \in T
  BY <1>2, <1>4, <1>5, NatInductionSet
<1>7. Good(N)
  <2> HIDE DEF Good, N
  <2>1. N \in 0..N
    BY <1>2
  <2> QED  BY <1>6, <2>1 DEF T
<1>8. acc[N].samples \in Seq(Seq(Cells(K, a)))
  BY <1>7 DEF Ledger
<1> QED  BY <1>1, <1>7, <1>8

-----------------------------------------------------------------------------
(***************************************************************************)
(* The samples of a group, and those that are kept.                        *)
(***************************************************************************)

\* A token is trained in one cell of the samples.
LEMMA OnceAt ==
    ASSUME NEW made, Once(made), NEW i \in 1..Len(made), NEW j \in 1..Len(made),
           NEW k \in 1..Len(made[i]), NEW l \in 1..Len(made[j]),
           made[i][k].trained = TRUE, made[j][l].trained = TRUE, made[i][k].token = made[j][l].token
    PROVE  i = j /\ k = l
BY DEF Once

\* Samples put one behind the other train what their sequences train.
LEMMA FlattenSound ==
    ASSUME NEW X, NEW parts \in Seq(Seq(X)), NEW said,
           \A i \in 1..Len(parts) : Sound(parts[i], said[i]),
           \A i, j \in 1..Len(parts) : \A v \in said[i], w \in said[j] : v.token = w.token => i = j
    PROVE  LET flat == FlattenSeq(parts)
               all == UNION {said[i] : i \in 1..Len(parts)}
           IN  /\ Sound(flat, all)
               /\ (\A i \in 1..Len(parts) : All(parts[i], said[i])) => All(flat, all)
<1> DEFINE flat == FlattenSeq(parts)
           all == UNION {said[i] : i \in 1..Len(parts)}
           n == Len(parts)
<1>1. PICK start : Joined(parts, flat, start)
  BY FlattenPlaces
<1>2. /\ \A i \in 1..n : \A k \in 1..Len(parts[i]) :
            start[i] + k \in 1..Len(flat) /\ flat[start[i] + k] = parts[i][k]
      /\ \A p \in 1..Len(flat) : \E i \in 1..n : \E k \in 1..Len(parts[i]) : p = start[i] + k
  BY <1>1 DEF Joined
<1> HIDE DEF flat, n
<1>3. /\ \A i \in 1..n : \A j \in 1..Len(parts[i]) : Whole(parts[i][j])
      /\ \A i \in 1..n : \A j \in 1..Len(parts[i]) : \A k \in 1..Len(parts[i][j]) :
            parts[i][j][k].trained = TRUE => Shown(parts[i][j], k) \in said[i]
      /\ \A i \in 1..n : Once(parts[i])
  BY DEF Sound, Only, n
<1>4. \A s : \A k : Shown(s, k).token = s[k].token
  BY DEF Shown
<1>5. ASSUME NEW p \in 1..Len(flat) PROVE Whole(flat[p])
  BY <1>2, <1>3
<1>6. Only(flat, all)
  <2> SUFFICES ASSUME NEW p \in 1..Len(flat), NEW k \in 1..Len(flat[p]), flat[p][k].trained = TRUE
               PROVE  Shown(flat[p], k) \in all
    BY DEF Only
  <2>1. PICK i \in 1..n : \E j \in 1..Len(parts[i]) : p = start[i] + j
    BY <1>2
  <2>2. PICK j \in 1..Len(parts[i]) : p = start[i] + j
    BY <2>1
  <2>3. flat[p] = parts[i][j]
    BY <1>2, <2>2
  <2>4. Shown(flat[p], k) \in said[i]
    BY <1>3, <2>3
  <2> QED  BY <2>4 DEF n
<1>7. Once(flat)
  <2> SUFFICES \A p, q \in 1..Len(flat) : \A k \in 1..Len(flat[p]), l \in 1..Len(flat[q]) :
                  /\ flat[p][k].trained = TRUE /\ flat[q][l].trained = TRUE
                  /\ flat[p][k].token = flat[q][l].token
                  => p = q /\ k = l
    BY DEF Once
  <2> TAKE p, q \in 1..Len(flat)
  <2> TAKE k \in 1..Len(flat[p]), l \in 1..Len(flat[q])
  <2> HAVE /\ flat[p][k].trained = TRUE /\ flat[q][l].trained = TRUE
           /\ flat[p][k].token = flat[q][l].token
  <2>1. PICK i \in 1..n : \E g \in 1..Len(parts[i]) : p = start[i] + g
    BY <1>2
  <2>2. PICK g \in 1..Len(parts[i]) : p = start[i] + g
    BY <2>1
  <2>3. PICK j \in 1..n : \E h \in 1..Len(parts[j]) : q = start[j] + h
    BY <1>2
  <2>4. PICK h \in 1..Len(parts[j]) : q = start[j] + h
    BY <2>3
  <2>5. flat[p] = parts[i][g] /\ flat[q] = parts[j][h]
    BY <1>2, <2>2, <2>4
  <2>6. Shown(flat[p], k) \in said[i] /\ Shown(flat[q], l) \in said[j]
    BY <1>3, <2>5
  <2>7. i = j
    <3>1. Shown(flat[p], k).token = Shown(flat[q], l).token
      BY <1>4
    <3> QED  BY <2>6, <3>1 DEF n
  <2>8. g = h /\ k = l
    <3>1. Once(parts[i])
      BY <1>3
    <3>2. /\ k \in 1..Len(parts[i][g]) /\ l \in 1..Len(parts[i][h]) /\ h \in 1..Len(parts[i])
          /\ parts[i][g][k].trained = TRUE /\ parts[i][h][l].trained = TRUE
          /\ parts[i][g][k].token = parts[i][h][l].token
      BY <2>5, <2>7
    <3> QED  BY <3>1, <3>2, OnceAt
  <2> QED  BY <2>2, <2>4, <2>7, <2>8
<1>8. ASSUME \A i \in 1..n : All(parts[i], said[i]) PROVE All(flat, all)
  <2> SUFFICES ASSUME NEW w \in all
               PROVE  \E p \in 1..Len(flat) : \E k \in 1..Len(flat[p]) :
                         flat[p][k].trained = TRUE /\ Shown(flat[p], k) = w
    BY DEF All
  <2>1. PICK i \in 1..n : w \in said[i]
    BY DEF n
  <2>2. PICK j \in 1..Len(parts[i]) : \E k \in 1..Len(parts[i][j]) :
           parts[i][j][k].trained = TRUE /\ Shown(parts[i][j], k) = w
    BY <1>8, <2>1 DEF All
  <2>3. start[i] + j \in 1..Len(flat) /\ flat[start[i] + j] = parts[i][j]
    BY <1>2
  <2> QED  BY <2>2, <2>3
<1>9. Sound(flat, all)
  BY <1>5, <1>6, <1>7 DEF Sound
<1> QED  BY <1>8, <1>9 DEF flat, n

\* What the batcher keeps: the samples that fit a row, each once, in a row's length.
KeptFrom(kept, made, b, from) ==
    /\ \A p \in 1..Len(kept) :
          from[p] \in 1..Len(made) /\ kept[p] = made[from[p]] /\ FitsRow(kept[p], b)
    /\ \A p, q \in 1..Len(kept) : from[p] = from[q] => p = q
    /\ \A j \in 1..Len(made) : FitsRow(made[j], b) => \E p \in 1..Len(kept) : from[p] = j

\* The kept samples, in their order, are the samples that fit a row.
LEMMA KeptAre ==
    ASSUME NEW X, NEW made \in Seq(X), NEW b
    PROVE  /\ KeptSamples(made, b) \in Seq(X)
           /\ \E from : KeptFrom(KeptSamples(made, b), made, b, from)
<1> DEFINE n == Len(made)
           one(k) == IF FitsRow(made[k], b) THEN <<made[k]>> ELSE <<>>
           parts == [k \in 1..n |-> one(k)]
           kept == FlattenSeq(parts)
<1>1. n \in Nat /\ DOMAIN made = 1..n
  BY LenProperties
<1>2. KeptSamples(made, b) = kept
  BY <1>1 DEF KeptSamples
<1>3. ASSUME NEW k \in 1..n
      PROVE  /\ one(k) \in Seq(X)
             /\ FitsRow(made[k], b) => Len(one(k)) = 1 /\ one(k)[1] = made[k]
             /\ ~FitsRow(made[k], b) => Len(one(k)) = 0
  <2>1. made[k] \in X
    BY ElementOfSeq
  <2>2. CASE FitsRow(made[k], b)
    <3>1. one(k) = <<made[k]>>
      BY <2>2
    <3>2. <<made[k]>> \in Seq(X) /\ Len(<<made[k]>>) = 1 /\ <<made[k]>>[1] = made[k]
      BY <2>1
    <3> QED  BY <2>2, <3>1, <3>2
  <2>3. CASE ~FitsRow(made[k], b)
    <3>1. one(k) = <<>>
      BY <2>3
    <3> QED  BY <2>3, <3>1, EmptySeq
  <2> QED  BY <2>2, <2>3
<1> HIDE DEF one, n
<1>4. parts \in Seq(Seq(X)) /\ Len(parts) = n /\ \A k \in 1..n : parts[k] = one(k)
  <2>1. parts \in [1..n -> Seq(X)]
    BY <1>3
  <2>2. \A k \in 1..n : parts[k] = one(k)
    OBVIOUS
  <2> HIDE DEF parts
  <2> QED  BY <1>1, <2>1, <2>2, FunctionIsSeq
<1> HIDE DEF parts
<1>5. kept \in Seq(X) /\ \E start : Joined(parts, kept, start)
  BY <1>4, FlattenPlaces
<1>6. PICK start : Joined(parts, kept, start)
  BY <1>5
<1> HIDE DEF kept
<1>7. /\ \A i \in 1..n : \A k \in 1..Len(parts[i]) :
            start[i] + k \in 1..Len(kept) /\ kept[start[i] + k] = parts[i][k]
      /\ \A p \in 1..Len(kept) : \E i \in 1..n : \E k \in 1..Len(parts[i]) : p = start[i] + k
  BY <1>4, <1>6 DEF Joined
<1>8. \A i \in 1..n : \A k \in 1..Len(parts[i]) : k = 1 /\ FitsRow(made[i], b) /\ parts[i][k] = made[i]
  <2> SUFFICES ASSUME NEW i \in 1..n, NEW k \in 1..Len(parts[i])
               PROVE  k = 1 /\ FitsRow(made[i], b) /\ parts[i][k] = made[i]
    OBVIOUS
  <2>1. parts[i] = one(i)
    BY <1>4
  <2>2. Len(one(i)) # 0
    BY <2>1
  <2>3. FitsRow(made[i], b) /\ Len(one(i)) = 1 /\ one(i)[1] = made[i]
    BY <1>3, <2>2
  <2> QED  BY <2>1, <2>3
<1>9. \A p \in 1..Len(kept) : \E i \in 1..n : p = start[i] + 1 /\ kept[p] = made[i] /\ FitsRow(made[i], b)
  <2> SUFFICES ASSUME NEW p \in 1..Len(kept)
               PROVE  \E i \in 1..n : p = start[i] + 1 /\ kept[p] = made[i] /\ FitsRow(made[i], b)
    OBVIOUS
  <2>1. PICK i \in 1..n : \E k \in 1..Len(parts[i]) : p = start[i] + k
    BY <1>7
  <2>2. PICK k \in 1..Len(parts[i]) : p = start[i] + k
    BY <2>1
  <2>3. kept[p] = parts[i][k]
    BY <1>7, <2>2
  <2>4. k = 1 /\ FitsRow(made[i], b) /\ parts[i][k] = made[i]
    BY <1>8
  <2> QED  BY <2>2, <2>3, <2>4
<1> DEFINE from == [p \in 1..Len(kept) |->
                      CHOOSE i \in 1..n : p = start[i] + 1 /\ kept[p] = made[i] /\ FitsRow(made[i], b)]
<1>10. \A p \in 1..Len(kept) : /\ from[p] \in 1..n /\ p = start[from[p]] + 1 /\ kept[p] = made[from[p]]
                               /\ FitsRow(kept[p], b)
  BY <1>9
<1> HIDE DEF from
<1>11. ASSUME NEW j \in 1..n, FitsRow(made[j], b) PROVE \E p \in 1..Len(kept) : from[p] = j
  <2>1. 1 \in 1..Len(parts[j])
    <3>1. Len(parts[j]) = 1
      BY <1>3, <1>4, <1>11
    <3> QED  BY <3>1
  <2> DEFINE p == start[j] + 1
  <2>2. p \in 1..Len(kept)
    BY <1>7, <2>1
  <2>3. p = start[from[p]] + 1 /\ from[p] \in 1..n /\ FitsRow(made[from[p]], b)
    BY <1>10, <2>2
  <2>4. 1 \in 1..Len(parts[from[p]])
    <3>1. Len(parts[from[p]]) = 1
      BY <1>3, <1>4, <2>3
    <3> QED  BY <3>1
  <2>5. \A g, h \in 1..n : \A k \in 1..Len(parts[g]), l \in 1..Len(parts[h]) :
           start[g] + k = start[h] + l => g = h /\ k = l
    BY <1>4, <1>6 DEF Joined
  <2>6. start[from[p]] + 1 = start[j] + 1
    BY <2>3
  <2> HIDE DEF p
  <2>7. from[p] = j
    BY <2>1, <2>3, <2>4, <2>5, <2>6, Zenon
  <2> QED  BY <2>2, <2>7
<1>12. \A p, q \in 1..Len(kept) : from[p] = from[q] => p = q
  BY <1>10
<1>13. KeptFrom(kept, made, b, from)
  BY <1>10, <1>11, <1>12 DEF KeptFrom, n
<1> QED  BY <1>2, <1>5, <1>13

\* Dropping the samples too long for a row keeps the others sound.
LEMMA KeptSound ==
    ASSUME NEW X, NEW made \in Seq(X), NEW b, NEW said, Sound(made, said)
    PROVE  LET kept == KeptSamples(made, b)
           IN  /\ kept \in Seq(X) /\ Sound(kept, said)
               /\ \A p \in 1..Len(kept) : FitsRow(kept[p], b)
               /\ (\A j \in 1..Len(made) : FitsRow(made[j], b)) /\ All(made, said) => All(kept, said)
<1> DEFINE kept == KeptSamples(made, b)
<1>1. kept \in Seq(X)
  BY KeptAre
<1>9. PICK from : KeptFrom(kept, made, b, from)
  BY KeptAre
<1>2. /\ \A p \in 1..Len(kept) :
            from[p] \in 1..Len(made) /\ kept[p] = made[from[p]] /\ FitsRow(kept[p], b)
      /\ \A p, q \in 1..Len(kept) : from[p] = from[q] => p = q
      /\ \A j \in 1..Len(made) : FitsRow(made[j], b) => \E p \in 1..Len(kept) : from[p] = j
  BY <1>9 DEF KeptFrom
<1> HIDE DEF kept
<1>3. /\ \A j \in 1..Len(made) : Whole(made[j])
      /\ \A j \in 1..Len(made) : \A k \in 1..Len(made[j]) :
            made[j][k].trained = TRUE => Shown(made[j], k) \in said
      /\ Once(made)
  BY DEF Sound, Only
<1>4. \A p \in 1..Len(kept) : Whole(kept[p])
  BY <1>2, <1>3
<1>5. Only(kept, said)
  BY <1>2, <1>3 DEF Only
<1>6. Once(kept)
  <2> SUFFICES \A p, q \in 1..Len(kept) : \A k \in 1..Len(kept[p]), l \in 1..Len(kept[q]) :
                  /\ kept[p][k].trained = TRUE /\ kept[q][l].trained = TRUE
                  /\ kept[p][k].token = kept[q][l].token
                  => p = q /\ k = l
    BY DEF Once
  <2> TAKE p, q \in 1..Len(kept)
  <2> TAKE k \in 1..Len(kept[p]), l \in 1..Len(kept[q])
  <2> HAVE /\ kept[p][k].trained = TRUE /\ kept[q][l].trained = TRUE
           /\ kept[p][k].token = kept[q][l].token
  <2>1. /\ from[p] \in 1..Len(made) /\ kept[p] = made[from[p]]
        /\ from[q] \in 1..Len(made) /\ kept[q] = made[from[q]]
    BY <1>2
  <2>2. from[p] = from[q] /\ k = l
    <3> DEFINE i == from[p]
               j == from[q]
    <3>1. /\ i \in 1..Len(made) /\ j \in 1..Len(made) /\ k \in 1..Len(made[i]) /\ l \in 1..Len(made[j])
          /\ made[i][k].trained = TRUE /\ made[j][l].trained = TRUE
          /\ made[i][k].token = made[j][l].token
      BY <2>1
    <3>2. Once(made)
      BY <1>3
    <3> HIDE DEF i, j
    <3>3. i = j /\ k = l
      BY <3>1, <3>2, OnceAt
    <3> QED  BY <3>3 DEF i, j
  <2> QED  BY <1>2, <2>2
<1>7. ASSUME \A j \in 1..Len(made) : FitsRow(made[j], b), All(made, said) PROVE All(kept, said)
  <2> SUFFICES ASSUME NEW w \in said
               PROVE  \E p \in 1..Len(kept) : \E k \in 1..Len(kept[p]) :
                         kept[p][k].trained = TRUE /\ Shown(kept[p], k) = w
    BY DEF All
  <2>1. PICK j \in 1..Len(made) : \E k \in 1..Len(made[j]) :
           made[j][k].trained = TRUE /\ Shown(made[j], k) = w
    BY <1>7 DEF All
  <2>2. PICK p \in 1..Len(kept) : from[p] = j
    BY <1>2, <1>7
  <2>3. kept[p] = made[j]
    BY <1>2, <2>2
  <2> QED  BY <2>1, <2>3
<1>8. \A p \in 1..Len(kept) : FitsRow(kept[p], b)
  BY <1>2
<1> QED  BY <1>1, <1>4, <1>5, <1>6, <1>7, <1>8 DEF Sound, kept

-----------------------------------------------------------------------------
(***************************************************************************)
(* A packed row.                                                           *)
(***************************************************************************)

\* The cells of a row of samples over X.
TokensOf(X) == {x.token : x \in X} \cup {PadToken}
RowCells(X) ==
    [input : TokensOf(X), label : TokensOf(X), trained : BOOLEAN,
     logprob : {x.logprob : x \in X} \cup {NoLogprob},
     advantage : {x.advantage : x \in X} \cup {0}, position : Nat]

\* Cells of a sample are marked trained or not.
Marked(X) == \A x \in X : x.trained \in BOOLEAN

\* Rounding up never makes a sample shorter.
LEMMA RoundUpBound ==
    ASSUME NEW n \in Nat, NEW m \in Nat \ {0}
    PROVE  RoundUp(n, m) \in Nat /\ RoundUp(n, m) >= n
<1> DEFINE x == n + m - 1
           q == x \div m
           r == x % m
<1>1. x \in Nat
  OBVIOUS
<1> HIDE DEF x
<1>2. q \in Nat /\ r \in Nat /\ r < m
  BY <1>1
<1>3. x = m * q + r
  BY <1>1
<1> HIDE DEF q, r
<1>4. q * m \in Nat /\ q * m = m * q
  BY <1>2
<1>5. q * m = x - r
  BY <1>1, <1>2, <1>3, <1>4
<1>6. q * m >= n
  BY <1>2, <1>4, <1>5 DEF x
<1> QED  BY <1>4, <1>6 DEF RoundUp, q, x

\* Padding carries nothing to train.
Pads(Y, cells, n) ==
    cells \in Seq(Y) /\ Len(cells) = n /\ \A k \in 1..n : cells[k].trained = FALSE

\* Padding is n cells that train nothing.
LEMMA PaddingIs ==
    ASSUME NEW X, NEW n \in Nat, NEW from \in Nat
    PROVE  Pads(RowCells(X), Padding(n, from), n)
<1> DEFINE cells == Padding(n, from)
<1>1. cells \in [1..n -> RowCells(X)]
  <2> SUFFICES ASSUME NEW k \in 1..n
               PROVE  [input |-> PadToken, label |-> PadToken, trained |-> FALSE,
                       logprob |-> NoLogprob, advantage |-> 0, position |-> from + k - 1] \in RowCells(X)
    BY DEF Padding
  <2>1. from + k - 1 \in Nat
    OBVIOUS
  <2> QED  BY <2>1 DEF RowCells, TokensOf
<1>2. \A k \in 1..n : cells[k].trained = FALSE
  BY DEF Padding
<1> HIDE DEF cells
<1>3. cells \in Seq(RowCells(X)) /\ Len(cells) = n
  BY <1>1, FunctionIsSeq
<1> QED  BY <1>2, <1>3 DEF Pads, cells

\* A sample in a row: each target beside the token before it, then untrained padding.
ShiftedCell(s, k) ==
    [input |-> s[k].token, label |-> s[k + 1].token, trained |-> s[k + 1].trained,
     logprob |-> s[k + 1].logprob, advantage |-> s[k + 1].advantage, position |-> k - 1]
ShiftsTo(Y, s, n, cells) ==
    /\ cells \in Seq(Y) /\ Len(cells) = n /\ n \in Nat /\ Len(s) - 1 <= n
    /\ \A k \in 1..(Len(s) - 1) : k \in 1..n /\ cells[k] = ShiftedCell(s, k)
    /\ \A k \in Len(s)..n : cells[k].trained = FALSE

\* A shifted sample has the length it is packed for, and a cell for each of its targets.
LEMMA ShiftedIs ==
    ASSUME NEW X, Marked(X), NEW s \in Seq(X), Len(s) \in Nat \ {0},
           NEW b, b.multiple \in Nat \ {0}
    PROVE  ShiftsTo(RowCells(X), s, NumTokensToPack(s, b), Shifted(s, b))
<1> DEFINE n == Len(s) - 1
           full == NumTokensToPack(s, b)
           Y == RowCells(X)
           own == [k \in 1..n |-> ShiftedCell(s, k)]
           pad == Padding(full - n, n)
<1>1. n \in Nat /\ full \in Nat /\ full >= n
  <2>1. n \in Nat
    OBVIOUS
  <2> HIDE DEF n
  <2>2. RoundUp(n, b.multiple) \in Nat /\ RoundUp(n, b.multiple) >= n
    BY <2>1, RoundUpBound
  <2> QED  BY <2>1, <2>2 DEF NumTokensToPack, n
<1>2. Shifted(s, b) = own \o pad
  BY DEF Shifted, ShiftedCell
<1>3. \A k \in 1..n : s[k] \in X /\ s[k + 1] \in X /\ k - 1 \in Nat
  <2>1. \A k \in 1..n : k \in 1..Len(s) /\ k + 1 \in 1..Len(s) /\ k - 1 \in Nat
    OBVIOUS
  <2> HIDE DEF n
  <2> QED  BY <2>1, ElementOfSeq
<1>9. Len(s) = n + 1
  OBVIOUS
<1> HIDE DEF n, full
<1>4. own \in [1..n -> Y] /\ \A k \in 1..n : own[k] = ShiftedCell(s, k)
  <2> SUFFICES ASSUME NEW k \in 1..n PROVE ShiftedCell(s, k) \in Y
    OBVIOUS
  <2>1. s[k] \in X /\ s[k + 1] \in X /\ k - 1 \in Nat
    BY <1>3
  <2> QED  BY <2>1 DEF ShiftedCell, RowCells, TokensOf, Marked
<1> HIDE DEF own, Y, pad
<1>5. own \in Seq(Y) /\ Len(own) = n
  BY <1>1, <1>4, FunctionIsSeq
<1>6. pad \in Seq(Y) /\ Len(pad) = full - n /\ \A k \in 1..(full - n) : pad[k].trained = FALSE
  <2>1. full - n \in Nat
    BY <1>1
  <2>2. Pads(Y, pad, full - n)
    BY <1>1, <2>1, PaddingIs DEF Y, pad
  <2> QED  BY <2>2 DEF Pads
<1> DEFINE cells == own \o pad
<1>7. /\ cells \in Seq(Y) /\ Len(cells) = n + (full - n)
      /\ \A k \in 1..n : cells[k] = own[k]
      /\ \A k \in 1..(full - n) : cells[n + k] = pad[k]
  <2>1. /\ own \o pad \in Seq(Y) /\ Len(own \o pad) = Len(own) + Len(pad)
        /\ \A k \in 1..Len(own) : (own \o pad)[k] = own[k]
        /\ \A k \in 1..Len(pad) : (own \o pad)[Len(own) + k] = pad[k]
    <3>1. own \in Seq(Y) /\ pad \in Seq(Y)
      BY <1>5, <1>6
    <3> QED  BY <3>1, SecondPart
  <2>2. Len(own) = n /\ Len(pad) = full - n
    BY <1>5, <1>6
  <2> QED  BY <2>1, <2>2, Zenon
<1> HIDE DEF cells
<1>8. \A k \in (n + 1)..full : cells[k].trained = FALSE
  <2> SUFFICES ASSUME NEW k \in (n + 1)..full PROVE cells[k].trained = FALSE
    OBVIOUS
  <2>1. k - n \in 1..(full - n) /\ n + (k - n) = k
    BY <1>1
  <2> QED  BY <1>6, <1>7, <2>1
<1>10. \A k \in 1..n : k \in 1..full
  BY <1>1
<1>11. Len(s) - 1 = n /\ n + (full - n) = full
  BY <1>1, <1>9
<1>12. ShiftsTo(Y, s, full, cells)
  BY <1>1, <1>4, <1>7, <1>8, <1>9, <1>10, <1>11 DEF ShiftsTo
<1> QED  BY <1>2, <1>12 DEF cells, full, Y

\* The cells of a row's samples, one after the other.
RowParts(row, b) == [k \in DOMAIN row |-> Shifted(row[k], b)]
RowLength(row, b) == Len(FlattenSeq(RowParts(row, b)))

\* Samples that can be packed.
Packable(X) == {s \in Seq(X) : Len(s) \in Nat \ {0}}

\* The parts of a row are its samples, shifted.
LEMMA RowPartsAre ==
    ASSUME NEW X, Marked(X), NEW row \in Seq(Packable(X)), NEW b, b.multiple \in Nat \ {0}
    PROVE  /\ RowParts(row, b) \in Seq(Seq(RowCells(X))) /\ Len(RowParts(row, b)) = Len(row)
           /\ \A j \in 1..Len(row) :
                /\ RowParts(row, b)[j] = Shifted(row[j], b)
                /\ ShiftsTo(RowCells(X), row[j], NumTokensToPack(row[j], b), RowParts(row, b)[j])
<1> DEFINE n == Len(row)
           parts == RowParts(row, b)
<1>1. n \in Nat /\ DOMAIN row = 1..n
  BY LenProperties
<1>2. \A j \in 1..n : parts[j] = Shifted(row[j], b)
  BY <1>1 DEF RowParts
<1>3. \A j \in 1..n : ShiftsTo(RowCells(X), row[j], NumTokensToPack(row[j], b), Shifted(row[j], b))
  <2> SUFFICES ASSUME NEW j \in 1..n
               PROVE  ShiftsTo(RowCells(X), row[j], NumTokensToPack(row[j], b), Shifted(row[j], b))
    OBVIOUS
  <2>1. row[j] \in Packable(X)
    BY ElementOfSeq
  <2>2. row[j] \in Seq(X) /\ Len(row[j]) \in Nat \ {0}
    BY <2>1 DEF Packable
  <2> QED  BY <2>2, ShiftedIs
<1>4. parts \in [1..n -> Seq(RowCells(X))]
  BY <1>1, <1>3 DEF RowParts, ShiftsTo
<1> HIDE DEF parts, n
<1>5. parts \in Seq(Seq(RowCells(X))) /\ Len(parts) = n
  BY <1>1, <1>4, FunctionIsSeq
<1> QED  BY <1>2, <1>3, <1>5 DEF parts, n

\* One more sample makes a row longer by what it is packed for.
LEMMA RowLengthAppend ==
    ASSUME NEW X, Marked(X), NEW row \in Seq(Packable(X)), NEW s \in Packable(X),
           NEW b, b.multiple \in Nat \ {0}
    PROVE  /\ RowLength(row, b) \in Nat
           /\ RowLength(Append(row, s), b) = RowLength(row, b) + NumTokensToPack(s, b)
<1> DEFINE Y == RowCells(X)
           parts == RowParts(row, b)
           more == RowParts(Append(row, s), b)
           n == Len(row)
<1>1. /\ Append(row, s) \in Seq(Packable(X)) /\ Len(Append(row, s)) = n + 1 /\ n \in Nat
      /\ \A j \in 1..n : Append(row, s)[j] = row[j]
      /\ Append(row, s)[n + 1] = s
  BY AppendProperties, LenProperties
<1>2. /\ parts \in Seq(Seq(Y)) /\ Len(parts) = n
      /\ \A j \in 1..n : parts[j] = Shifted(row[j], b)
  BY RowPartsAre
<1>3. /\ more \in Seq(Seq(Y)) /\ Len(more) = n + 1
      /\ \A j \in 1..(n + 1) : more[j] = Shifted(Append(row, s)[j], b)
  <2> DEFINE longer == Append(row, s)
  <2>1. longer \in Seq(Packable(X)) /\ Len(longer) = n + 1
    BY <1>1
  <2> HIDE DEF longer, n
  <2>2. /\ RowParts(longer, b) \in Seq(Seq(Y)) /\ Len(RowParts(longer, b)) = n + 1
        /\ \A j \in 1..(n + 1) : RowParts(longer, b)[j] = Shifted(longer[j], b)
    BY <2>1, RowPartsAre, Zenon
  <2> QED  BY <2>2 DEF longer
<1>4. Shifted(s, b) \in Seq(Y) /\ Len(Shifted(s, b)) = NumTokensToPack(s, b)
  <2>1. s \in Seq(X) /\ Len(s) \in Nat \ {0}
    BY DEF Packable
  <2> QED  BY <2>1, ShiftedIs DEF ShiftsTo
<1> DEFINE cells == Shifted(s, b)
<1> HIDE DEF Y, parts, more, n, cells
<1>5. /\ Append(parts, cells) \in Seq(Seq(Y)) /\ Len(Append(parts, cells)) = n + 1
      /\ \A j \in 1..n : Append(parts, cells)[j] = parts[j]
      /\ Append(parts, cells)[n + 1] = cells
  <2>1. cells \in Seq(Y)
    BY <1>4 DEF cells
  <2> QED  BY <1>2, <2>1, AppendProperties
<1>6. more = Append(parts, cells)
  <2>1. ASSUME NEW j \in 1..(n + 1) PROVE more[j] = Append(parts, cells)[j]
    <3>1. CASE j = n + 1
      BY <1>1, <1>3, <1>5, <3>1 DEF cells
    <3>2. CASE j # n + 1
      <4>1. j \in 1..n
        BY <1>1, <3>2
      <4> QED  BY <1>1, <1>2, <1>3, <1>5, <4>1
    <3> QED  BY <3>1, <3>2
  <2> QED  BY <1>3, <1>5, <2>1, SeqEqual
<1>7. FlattenSeq(more) = FlattenSeq(parts) \o cells
  <2>1. cells \in Seq(Y)
    BY <1>4 DEF cells
  <2> QED  BY <1>2, <1>6, <2>1, FlattenAppend
<1>8. FlattenSeq(parts) \in Seq(Y)
  BY <1>2, FlattenPlaces
<1>9. Len(FlattenSeq(more)) = Len(FlattenSeq(parts)) + Len(cells) /\ Len(FlattenSeq(parts)) \in Nat
  BY <1>4, <1>7, <1>8, ConcatProperties, LenProperties DEF cells
<1> QED  BY <1>4, <1>9 DEF RowLength, parts, more, cells

\* Where the cells of a row come from.
PackedAs(Y, row, packed, n, place) ==
    /\ packed \in Seq(Y) /\ Len(packed) = n
    /\ \A j \in 1..Len(row) : place[j] \in Nat
    /\ \A j \in 1..Len(row) : \A k \in 1..(Len(row[j]) - 1) :
          place[j] + k \in 1..n /\ packed[place[j] + k] = ShiftedCell(row[j], k)
    /\ \A c \in 1..n : packed[c].trained = TRUE =>
          \E j \in 1..Len(row) : \E k \in 1..(Len(row[j]) - 1) : c = place[j] + k

\* A row of samples that fit has seqLen cells, and each target of each sample has its own.
LEMMA RowIsPacked ==
    ASSUME NEW X, Marked(X), NEW row \in Seq(Packable(X)), NEW b, b.multiple \in Nat \ {0},
           b.seqLen \in Nat, RowLength(row, b) <= b.seqLen
    PROVE  \E place : PackedAs(RowCells(X), row, PackRow(row, b), b.seqLen, place)
<1> DEFINE Y == RowCells(X)
           parts == RowParts(row, b)
           flat == FlattenSeq(parts)
           m == Len(flat)
           n == b.seqLen
           pad == Padding(n - m, 0)
           packed == flat \o pad
<1>1. PackRow(row, b) = packed
  BY DEF PackRow, RowParts
<1>2. /\ parts \in Seq(Seq(Y)) /\ Len(parts) = Len(row)
      /\ \A j \in 1..Len(row) : ShiftsTo(Y, row[j], NumTokensToPack(row[j], b), parts[j])
  BY RowPartsAre
<1>3. flat \in Seq(Y) /\ \E start : Joined(parts, flat, start)
  <2> HIDE DEF Y, parts
  <2> QED  BY <1>2, FlattenPlaces
<1>4. PICK place : Joined(parts, flat, place)
  BY <1>3
<1>5. m \in Nat /\ n \in Nat /\ m <= n
  BY <1>3, LenProperties DEF RowLength
<1> HIDE DEF Y, parts, flat, n, m
<1>6. pad \in Seq(Y) /\ Len(pad) = n - m /\ \A k \in 1..(n - m) : pad[k].trained = FALSE
  <2>1. n - m \in Nat /\ 0 \in Nat
    BY <1>5
  <2>2. Pads(Y, pad, n - m)
    BY <2>1, PaddingIs DEF Y
  <2> QED  BY <2>2 DEF Pads
<1> HIDE DEF pad
<1>7. /\ packed \in Seq(Y) /\ Len(packed) = n
      /\ \A k \in 1..m : packed[k] = flat[k]
      /\ \A k \in 1..(n - m) : packed[m + k] = pad[k]
  <2>1. /\ flat \o pad \in Seq(Y) /\ Len(flat \o pad) = Len(flat) + Len(pad)
        /\ \A k \in 1..Len(flat) : (flat \o pad)[k] = flat[k]
        /\ \A k \in 1..Len(pad) : (flat \o pad)[Len(flat) + k] = pad[k]
    <3>1. flat \in Seq(Y) /\ pad \in Seq(Y)
      BY <1>3, <1>6
    <3> QED  BY <3>1, SecondPart
  <2>2. Len(flat) = m /\ Len(pad) = n - m /\ m + (n - m) = n
    BY <1>5, <1>6 DEF m
  <2> QED  BY <2>1, <2>2, Zenon
<1> HIDE DEF packed
<1>8. /\ \A j \in 1..Len(row) : place[j] \in Nat
      /\ \A j \in 1..Len(row) : \A k \in 1..Len(parts[j]) :
            place[j] + k \in 1..m /\ flat[place[j] + k] = parts[j][k]
      /\ \A p \in 1..m : \E j \in 1..Len(row) : \E k \in 1..Len(parts[j]) : p = place[j] + k
  BY <1>2, <1>4 DEF Joined, m
<1>9. ASSUME NEW j \in 1..Len(row), NEW k \in 1..(Len(row[j]) - 1)
      PROVE  place[j] + k \in 1..n /\ packed[place[j] + k] = ShiftedCell(row[j], k)
  <2>1. k \in 1..Len(parts[j]) /\ parts[j][k] = ShiftedCell(row[j], k)
    BY <1>2 DEF ShiftsTo
  <2>2. place[j] + k \in 1..m /\ flat[place[j] + k] = parts[j][k]
    BY <1>8, <2>1
  <2>3. place[j] + k \in 1..n
    BY <1>5, <2>2
  <2> QED  BY <1>7, <2>1, <2>2, <2>3
<1>10. ASSUME NEW c \in 1..n, packed[c].trained = TRUE
       PROVE  \E j \in 1..Len(row) : \E k \in 1..(Len(row[j]) - 1) : c = place[j] + k
  <2>1. c \in 1..m
    <3> SUFFICES ASSUME c \notin 1..m PROVE FALSE
      OBVIOUS
    <3>1. c - m \in 1..(n - m) /\ m + (c - m) = c
      BY <1>5
    <3> QED  BY <1>6, <1>7, <1>10, <3>1
  <2>2. PICK j \in 1..Len(row) : \E k \in 1..Len(parts[j]) : c = place[j] + k
    BY <1>8, <2>1
  <2>3. PICK k \in 1..Len(parts[j]) : c = place[j] + k
    BY <2>2
  <2>4. parts[j][k].trained = TRUE
    BY <1>7, <1>8, <1>10, <2>1, <2>3
  <2>5. /\ Len(parts[j]) \in Nat /\ \A i \in Len(row[j])..Len(parts[j]) : parts[j][i].trained = FALSE
    BY <1>2 DEF ShiftsTo
  <2>6. k \notin Len(row[j])..Len(parts[j])
    BY <2>4, <2>5
  <2>7. Len(row[j]) \in Nat
    <3>1. row[j] \in Packable(X)
      BY ElementOfSeq
    <3> QED  BY <3>1 DEF Packable
  <2>8. k \in 1..(Len(row[j]) - 1)
    BY <2>5, <2>6, <2>7
  <2> QED  BY <2>3, <2>8
<1>11. PackedAs(Y, row, packed, n, place)
  BY <1>7, <1>8, <1>9, <1>10 DEF PackedAs
<1> QED  BY <1>1, <1>11 DEF Y, n

\* The model sees before a cell of a row what its sample shows.
LEMMA RowShows ==
    ASSUME NEW Y, NEW row, NEW packed, NEW n, NEW place, PackedAs(Y, row, packed, n, place),
           NEW j \in 1..Len(row), Len(row[j]) \in Nat, NEW k \in 1..(Len(row[j]) - 1)
    PROVE  Seen(packed, place[j] + k) = Shown(row[j], k + 1)
<1> DEFINE s == row[j]
           start == place[j]
           c == start + k
           first == c - packed[c].position
<1>1. /\ start \in Nat
      /\ \A i \in 1..(Len(s) - 1) : packed[start + i] = ShiftedCell(s, i)
  BY DEF PackedAs
<1>2. packed[c] = ShiftedCell(s, k)
  BY <1>1
<1>3. k \in Nat /\ k >= 1 /\ \A i \in 1..k : i \in 1..(Len(s) - 1)
  OBVIOUS
<1>4. packed[c].position = k - 1
  BY <1>2 DEF ShiftedCell
<1> HIDE DEF s, start
<1>5. first = start + 1 /\ ~(first < 1) /\ c - first + 1 = k
  BY <1>1, <1>3, <1>4
<1>6. \A i \in 1..k : first + i - 1 = start + i
  BY <1>1, <1>5
<1> HIDE DEF first, c
<1>7. \A i \in 1..k : packed[first + i - 1].input = s[i].token
  <2> SUFFICES ASSUME NEW i \in 1..k PROVE packed[first + i - 1].input = s[i].token
    OBVIOUS
  <2>1. packed[start + i] = ShiftedCell(s, i)
    BY <1>1, <1>3
  <2> QED  BY <1>6, <2>1 DEF ShiftedCell
<1>8. [i \in 1..(c - first + 1) |-> packed[first + i - 1].input] = [i \in 1..((k + 1) - 1) |-> s[i].token]
  <2>1. (k + 1) - 1 = k
    BY <1>3
  <2> QED  BY <1>5, <1>7, <2>1
<1>9. /\ packed[c].label = s[k + 1].token /\ packed[c].logprob = s[k + 1].logprob
      /\ packed[c].advantage = s[k + 1].advantage
  BY <1>2 DEF ShiftedCell
<1>10. Seen(packed, c) =
         [token |-> packed[c].label, logprob |-> packed[c].logprob, advantage |-> packed[c].advantage,
          context |-> IF first < 1 THEN <<>>
                      ELSE [i \in 1..(c - first + 1) |-> packed[first + i - 1].input]]
  BY DEF Seen, first
<1> QED  BY <1>5, <1>8, <1>9, <1>10 DEF Shown, c, s, start

\* A packed row trains what its samples train, each thing in one cell.
RowTrains(row, packed, n) ==
    /\ \A c \in 1..n : packed[c].trained = TRUE =>
          \E j \in 1..Len(row) : \E k \in 1..Len(row[j]) :
             row[j][k].trained = TRUE /\ Seen(packed, c) = Shown(row[j], k)
    /\ \A j \in 1..Len(row) : \A k \in 1..Len(row[j]) : row[j][k].trained = TRUE =>
          \E c \in 1..n : packed[c].trained = TRUE /\ Seen(packed, c) = Shown(row[j], k)
    /\ Once(row) =>
         \A c, d \in 1..n : packed[c].trained = TRUE /\ packed[d].trained = TRUE
                            /\ packed[c].label = packed[d].label => c = d

\* A packed row trains what its samples train, under the same context.
LEMMA RowIsTrained ==
    ASSUME NEW Y, NEW row, NEW packed, NEW n, NEW place, PackedAs(Y, row, packed, n, place),
           \A j \in 1..Len(row) : Whole(row[j])
    PROVE  RowTrains(row, packed, n)
<1>1. /\ \A j \in 1..Len(row) : place[j] \in Nat
      /\ \A j \in 1..Len(row) : \A k \in 1..(Len(row[j]) - 1) :
            place[j] + k \in 1..n /\ packed[place[j] + k] = ShiftedCell(row[j], k)
      /\ \A c \in 1..n : packed[c].trained = TRUE =>
            \E j \in 1..Len(row) : \E k \in 1..(Len(row[j]) - 1) : c = place[j] + k
  BY DEF PackedAs
<1>2. \A j \in 1..Len(row) : Len(row[j]) \in Nat /\ row[j][1].trained = FALSE
  BY DEF Whole
<1>3. \A j \in 1..Len(row) : \A k \in 1..(Len(row[j]) - 1) :
         /\ k + 1 \in 1..Len(row[j])
         /\ packed[place[j] + k].trained = row[j][k + 1].trained
         /\ packed[place[j] + k].label = row[j][k + 1].token
         /\ Seen(packed, place[j] + k) = Shown(row[j], k + 1)
  <2> SUFFICES ASSUME NEW j \in 1..Len(row), NEW k \in 1..(Len(row[j]) - 1)
               PROVE  /\ k + 1 \in 1..Len(row[j])
                      /\ packed[place[j] + k].trained = row[j][k + 1].trained
                      /\ packed[place[j] + k].label = row[j][k + 1].token
                      /\ Seen(packed, place[j] + k) = Shown(row[j], k + 1)
    OBVIOUS
  <2>1. Len(row[j]) \in Nat
    BY <1>2
  <2>2. Seen(packed, place[j] + k) = Shown(row[j], k + 1)
    BY <2>1, RowShows
  <2>3. packed[place[j] + k] = ShiftedCell(row[j], k)
    BY <1>1
  <2>4. k + 1 \in 1..Len(row[j])
    BY <2>1
  <2> QED  BY <2>2, <2>3, <2>4 DEF ShiftedCell
<1>4. ASSUME NEW c \in 1..n, packed[c].trained = TRUE
      PROVE  \E j \in 1..Len(row) : \E k \in 1..Len(row[j]) :
                row[j][k].trained = TRUE /\ Seen(packed, c) = Shown(row[j], k)
  <2>1. PICK j \in 1..Len(row) : \E k \in 1..(Len(row[j]) - 1) : c = place[j] + k
    BY <1>1, <1>4
  <2>2. PICK k \in 1..(Len(row[j]) - 1) : c = place[j] + k
    BY <2>1
  <2> QED  BY <1>3, <1>4, <2>2
<1>5. ASSUME NEW j \in 1..Len(row), NEW k \in 1..Len(row[j]), row[j][k].trained = TRUE
      PROVE  \E c \in 1..n : packed[c].trained = TRUE /\ Seen(packed, c) = Shown(row[j], k)
  <2>1. k # 1 /\ Len(row[j]) \in Nat
    BY <1>2, <1>5
  <2>2. k - 1 \in 1..(Len(row[j]) - 1) /\ (k - 1) + 1 = k
    BY <2>1
  <2>3. place[j] + (k - 1) \in 1..n
    BY <1>1, <2>2
  <2>4. /\ packed[place[j] + (k - 1)].trained = row[j][k].trained
        /\ Seen(packed, place[j] + (k - 1)) = Shown(row[j], k)
    BY <1>3, <2>2
  <2> QED  BY <1>5, <2>3, <2>4
<1>6. ASSUME Once(row), NEW c \in 1..n, NEW d \in 1..n,
             packed[c].trained = TRUE, packed[d].trained = TRUE, packed[c].label = packed[d].label
      PROVE  c = d
  <2>1. PICK i \in 1..Len(row) : \E k \in 1..(Len(row[i]) - 1) : c = place[i] + k
    BY <1>1, <1>6
  <2>2. PICK k \in 1..(Len(row[i]) - 1) : c = place[i] + k
    BY <2>1
  <2>3. PICK j \in 1..Len(row) : \E l \in 1..(Len(row[j]) - 1) : d = place[j] + l
    BY <1>1, <1>6
  <2>4. PICK l \in 1..(Len(row[j]) - 1) : d = place[j] + l
    BY <2>3
  <2>5. /\ k + 1 \in 1..Len(row[i]) /\ l + 1 \in 1..Len(row[j])
        /\ row[i][k + 1].trained = TRUE /\ row[j][l + 1].trained = TRUE
        /\ row[i][k + 1].token = row[j][l + 1].token
    BY <1>3, <1>6, <2>2, <2>4
  <2>6. i = j /\ k + 1 = l + 1
    BY <1>6, <2>5, OnceAt
  <2>7. k = l
    BY <2>6
  <2> QED  BY <2>2, <2>4, <2>6, <2>7
<1>7. Once(row) => \A c, d \in 1..n : packed[c].trained = TRUE /\ packed[d].trained = TRUE
                                       /\ packed[c].label = packed[d].label => c = d
  BY <1>6
<1> QED  BY <1>4, <1>5, <1>7 DEF RowTrains

-----------------------------------------------------------------------------
(***************************************************************************)
(* The samples dealt to rows.                                              *)
(***************************************************************************)
RowFits(row, b) == row # <<>> /\ RowLength(row, b) <= b.seqLen

\* What next-fit has made so far: closed rows, and one that is open.
Filling(P, b) ==
    {acc \in [rows : Seq(Seq(P)), row : Seq(P), len : Nat] :
        /\ \A i \in 1..Len(acc.rows) : RowFits(acc.rows[i], b)
        /\ acc.len = RowLength(acc.row, b) /\ acc.len <= b.seqLen}
AddsUp(acc) == FlattenSeq(acc.rows) \o acc.row

\* A row of no samples has no length.
LEMMA NoRowLength ==
    ASSUME NEW b
    PROVE  RowLength(<<>>, b) = 0
<1> DEFINE none == RowParts(<<>>, b)
<1>1. none = <<>>
  BY EmptySeq DEF RowParts
<1>2. Len(none) = 0 /\ Len(none) \in Nat
  BY <1>1, EmptySeq
<1> HIDE DEF none
<1>3. FlattenSeq(none) = none
  BY <1>2, FlattenIs
<1> QED  BY <1>2, <1>3 DEF RowLength, none

\* Next-fit puts a sample behind all those placed before, and no row overflows.
LEMMA PlaceSampleFills ==
    ASSUME NEW X, Marked(X), NEW b, b.multiple \in Nat \ {0}, b.seqLen \in Nat,
           NEW acc \in Filling(Packable(X), b), NEW s \in Packable(X), FitsRow(s, b)
    PROVE  /\ PlaceSample(acc, s, b) \in Filling(Packable(X), b)
           /\ AddsUp(PlaceSample(acc, s, b)) = Append(AddsUp(acc), s)
<1> DEFINE P == Packable(X)
           n == NumTokensToPack(s, b)
           new == PlaceSample(acc, s, b)
           full == acc.row # <<>> /\ acc.len + n > b.seqLen
<1>1. /\ acc.rows \in Seq(Seq(P)) /\ acc.row \in Seq(P) /\ acc.len \in Nat
      /\ \A i \in 1..Len(acc.rows) : RowFits(acc.rows[i], b)
      /\ acc.len = RowLength(acc.row, b) /\ acc.len <= b.seqLen
  BY DEF Filling
<1>2. n \in Nat /\ n <= b.seqLen
  <2>1. s \in Seq(X) /\ Len(s) \in Nat \ {0}
    BY DEF Packable
  <2>2. ShiftsTo(RowCells(X), s, n, Shifted(s, b))
    BY <2>1, ShiftedIs
  <2> QED  BY <2>2 DEF ShiftsTo, FitsRow
<1>3. FlattenSeq(acc.rows) \in Seq(P)
  <2> HIDE DEF P
  <2> QED  BY <1>1, FlattenPlaces
<1>4. new = IF full THEN [rows |-> Append(acc.rows, acc.row), row |-> <<s>>, len |-> n]
                    ELSE [rows |-> acc.rows, row |-> Append(acc.row, s), len |-> acc.len + n]
  BY DEF PlaceSample
<1>5. /\ RowLength(Append(acc.row, s), b) = acc.len + n
      /\ RowLength(Append(<<>>, s), b) = n
  <2>1. RowLength(Append(acc.row, s), b) = acc.len + n
    BY <1>1, RowLengthAppend
  <2> DEFINE none == <<>>
  <2>2. none \in Seq(Packable(X)) /\ RowLength(none, b) = 0
    BY EmptySeq, NoRowLength
  <2> HIDE DEF none, n
  <2>3. RowLength(Append(none, s), b) = 0 + n
    BY <2>2, RowLengthAppend DEF n
  <2> QED  BY <1>2, <2>1, <2>3 DEF none
<1>6. <<s>> = Append(<<>>, s) /\ <<s>> \in Seq(P)
  OBVIOUS
<1>7. Append(acc.row, s) \in Seq(P) /\ Append(acc.row, s) = acc.row \o <<s>>
  BY <1>1, AppendProperties, AppendIsConcat
<1> HIDE DEF P, n, new
<1>8. CASE full
  <2>1. /\ new.rows = Append(acc.rows, acc.row) /\ new.row = <<s>> /\ new.len = n
        /\ new = [rows |-> new.rows, row |-> new.row, len |-> new.len]
    BY <1>4, <1>8
  <2>2. /\ Append(acc.rows, acc.row) \in Seq(Seq(P))
        /\ Len(Append(acc.rows, acc.row)) = Len(acc.rows) + 1 /\ Len(acc.rows) \in Nat
        /\ \A i \in 1..Len(acc.rows) : Append(acc.rows, acc.row)[i] = acc.rows[i]
        /\ Append(acc.rows, acc.row)[Len(acc.rows) + 1] = acc.row
    BY <1>1, AppendProperties, LenProperties
  <2>3. RowFits(acc.row, b)
    BY <1>1, <1>8 DEF RowFits
  <2>4. \A i \in 1..Len(new.rows) : RowFits(new.rows[i], b)
    <3> SUFFICES ASSUME NEW i \in 1..Len(new.rows) PROVE RowFits(new.rows[i], b)
      OBVIOUS
    <3>1. i \in 1..Len(acc.rows) \/ i = Len(acc.rows) + 1
      BY <2>1, <2>2
    <3> QED  BY <1>1, <2>1, <2>2, <2>3, <3>1
  <2>5. new.len = RowLength(new.row, b) /\ new.len <= b.seqLen
    BY <1>2, <1>5, <1>6, <2>1
  <2>6. new \in [rows : Seq(Seq(P)), row : Seq(P), len : Nat]
    BY <1>2, <1>6, <2>1, <2>2
  <2>7. new \in Filling(P, b)
    BY <2>4, <2>5, <2>6 DEF Filling
  <2>8. FlattenSeq(new.rows) = FlattenSeq(acc.rows) \o acc.row
    BY <1>1, <2>1, FlattenAppend
  <2>9. AddsUp(acc) \in Seq(P)
    BY <1>1, <1>3, ConcatProperties DEF AddsUp
  <2>10. AddsUp(new) = AddsUp(acc) \o <<s>>
    BY <2>1, <2>8 DEF AddsUp
  <2>11. Append(AddsUp(acc), s) = AddsUp(acc) \o <<s>>
    BY <2>9, AppendIsConcat DEF P
  <2> QED  BY <2>7, <2>10, <2>11 DEF new, P
<1>9. CASE ~full
  <2>1. /\ new.rows = acc.rows /\ new.row = Append(acc.row, s) /\ new.len = acc.len + n
        /\ new = [rows |-> new.rows, row |-> new.row, len |-> new.len]
    BY <1>4, <1>9
  <2>2. new.len <= b.seqLen
    <3>1. CASE acc.row = <<>>
      <4>1. acc.len = 0
        BY <1>1, <3>1, NoRowLength
      <4> QED  BY <1>2, <2>1, <4>1
    <3>2. CASE acc.row # <<>>
      BY <1>1, <1>2, <1>9, <2>1, <3>2
    <3> QED  BY <3>1, <3>2
  <2>3. new \in [rows : Seq(Seq(P)), row : Seq(P), len : Nat]
    <3>1. new.rows \in Seq(Seq(P)) /\ new.row \in Seq(P) /\ new.len \in Nat
      BY <1>1, <1>2, <1>7, <2>1
    <3> QED  BY <2>1, <3>1
  <2>4. new \in Filling(P, b)
    BY <1>1, <1>5, <2>1, <2>2, <2>3 DEF Filling
  <2>5. AddsUp(acc) \in Seq(P)
    BY <1>1, <1>3, ConcatProperties DEF AddsUp
  <2>6. AddsUp(new) = FlattenSeq(acc.rows) \o (acc.row \o <<s>>)
    BY <1>7, <2>1 DEF AddsUp
  <2>7. FlattenSeq(acc.rows) \o (acc.row \o <<s>>) = (FlattenSeq(acc.rows) \o acc.row) \o <<s>>
    <3> DEFINE u == FlattenSeq(acc.rows)
               v == acc.row
               w == <<s>>
    <3>1. u \in Seq(P) /\ v \in Seq(P) /\ w \in Seq(P)
      BY <1>1, <1>3, <1>6
    <3> HIDE DEF u, v, w
    <3>2. (u \o v) \o w = u \o (v \o w)
      BY <3>1, ConcatAssociative
    <3> QED  BY <3>2 DEF u, v, w
  <2>8. Append(AddsUp(acc), s) = AddsUp(acc) \o <<s>>
    BY <2>5, AppendIsConcat DEF P
  <2> QED  BY <2>4, <2>6, <2>7, <2>8 DEF new, P, AddsUp
<1> QED  BY <1>8, <1>9

\* The recursion of AssignToRows.
FoldOfSamples(acc, kept, b) ==
    acc = [n \in 0..Len(kept) |-> IF n = 0 THEN [rows |-> <<>>, row |-> <<>>, len |-> 0]
                                  ELSE PlaceSample(acc[n - 1], kept[n], b)]

\* The recursive function of AssignToRows exists and is the fold of PlaceSample.
LEMMA FoldOfSamplesExists ==
    ASSUME NEW X, Marked(X), NEW b, b.multiple \in Nat \ {0}, b.seqLen \in Nat,
           NEW kept \in Seq(Packable(X)), \A k \in 1..Len(kept) : FitsRow(kept[k], b)
    PROVE  \E acc : /\ FoldOfSamples(acc, kept, b)
                    /\ AssignToRows(kept, b) = IF acc[Len(kept)].row # <<>>
                                                 THEN Append(acc[Len(kept)].rows, acc[Len(kept)].row)
                                                 ELSE acc[Len(kept)].rows
                    /\ \A n \in 0..Len(kept) : acc[n] \in Filling(Packable(X), b)
<1> DEFINE N == Len(kept)
           S == Filling(Packable(X), b)
           base == [rows |-> <<>>, row |-> <<>>, len |-> 0]
           step == [k \in 1..N |-> [x \in S |-> PlaceSample(x, kept[k], b)]]
<1>1. N \in Nat /\ \A k \in 1..N : kept[k] \in Packable(X) /\ FitsRow(kept[k], b)
  BY LenProperties, ElementOfSeq
<1>2. base \in S
  <2>1. <<>> \in Seq(Seq(Packable(X))) /\ <<>> \in Seq(Packable(X)) /\ Len(<<>>) = 0
    BY EmptySeq
  <2>2. base.rows = <<>> /\ base.row = <<>> /\ base.len = 0
    OBVIOUS
  <2>3. base.len = RowLength(base.row, b) /\ base.len <= b.seqLen
    BY <2>2, NoRowLength
  <2>4. \A i \in 1..Len(base.rows) : RowFits(base.rows[i], b)
    BY <2>1
  <2>5. base \in [rows : Seq(Seq(Packable(X))), row : Seq(Packable(X)), len : Nat]
    BY <2>1
  <2> HIDE DEF base
  <2> QED  BY <2>3, <2>4, <2>5 DEF Filling
<1>3. \A k \in 1..N : \A x \in S : step[k][x] \in S /\ step[k][x] = PlaceSample(x, kept[k], b)
  BY <1>1, PlaceSampleFills
<1> HIDE DEF step, S, N, base
<1>4. PICK f \in [0..N -> S] : f[0] = base /\ \A k \in 1..N : f[k] = step[k][f[k - 1]]
  <2>1. Steps(S, N, step)
    BY <1>3 DEF Steps
  <2>2. N \in Nat
    BY <1>1
  <2>3. \E f : Solves(f, S, base, N, step)
    BY <1>2, <2>1, <2>2, RecursionExists
  <2> QED  BY <2>3 DEF Solves
<1>5. ASSUME NEW n \in 0..N PROVE f[n] = IF n = 0 THEN base ELSE PlaceSample(f[n - 1], kept[n], b)
  <2>1. CASE n = 0
    BY <1>4, <2>1
  <2>2. CASE n # 0
    <3>1. n \in 1..N /\ n - 1 \in 0..N
      BY <1>1, <2>2
    <3>2. f[n - 1] \in S
      BY <1>4, <3>1
    <3> QED  BY <1>3, <1>4, <2>2, <3>1, <3>2
  <2> QED  BY <2>1, <2>2
<1>6. f = [n \in 0..N |-> f[n]]
  BY <1>4
<1>7. FoldOfSamples(f, kept, b)
  BY <1>5, <1>6 DEF FoldOfSamples, N, base
<1> DEFINE acc == CHOOSE x : FoldOfSamples(x, kept, b)
<1>8. FoldOfSamples(acc, kept, b)
  BY <1>7
<1>9. AssignToRows(kept, b) = IF acc[Len(kept)].row # <<>>
                                THEN Append(acc[Len(kept)].rows, acc[Len(kept)].row)
                                ELSE acc[Len(kept)].rows
  BY DEF AssignToRows, FoldOfSamples
<1> HIDE DEF acc
<1>10. \A n \in 0..N : acc[n] = IF n = 0 THEN base ELSE PlaceSample(acc[n - 1], kept[n], b)
  <2> DEFINE value(n) == IF n = 0 THEN base ELSE PlaceSample(acc[n - 1], kept[n], b)
  <2>1. acc = [n \in 0..N |-> value(n)]
    BY <1>8 DEF FoldOfSamples, N, base
  <2> HIDE DEF value
  <2>2. \A n \in 0..N : acc[n] = value(n)
    BY <2>1
  <2> QED  BY <2>2 DEF value
<1> DEFINE T == {n \in Nat : n \in 0..N => acc[n] \in S}
<1>11. 0 \in T
  BY <1>1, <1>2, <1>10
<1>12. ASSUME NEW n \in Nat, n \in T PROVE n + 1 \in T
  <2> SUFFICES ASSUME n + 1 \in 0..N PROVE acc[n + 1] \in S
    OBVIOUS
  <2>1. n \in 0..N /\ n + 1 \in 1..N /\ n + 1 # 0 /\ (n + 1) - 1 = n
    BY <1>1
  <2>2. acc[n + 1] = PlaceSample(acc[n], kept[n + 1], b) /\ acc[n] \in S
    BY <1>10, <1>12, <2>1
  <2> QED  BY <1>3, <2>1, <2>2
<1> HIDE DEF T
<1>13. \A n \in 0..N : acc[n] \in S
  <2>1. Nat \subseteq T
    BY <1>11, <1>12, NatInductionSet
  <2>2. \A n \in 0..N : n \in Nat
    BY <1>1
  <2> QED  BY <2>1, <2>2 DEF T
<1> QED  BY <1>8, <1>9, <1>13 DEF N, S

\* GroupNext-fit deals every sample to one row, in order, and overfills none.
LEMMA RowsAre ==
    ASSUME NEW X, Marked(X), NEW b, b.multiple \in Nat \ {0}, b.seqLen \in Nat,
           NEW kept \in Seq(Packable(X)), \A k \in 1..Len(kept) : FitsRow(kept[k], b)
    PROVE  /\ AssignToRows(kept, b) \in Seq(Seq(Packable(X)))
           /\ FlattenSeq(AssignToRows(kept, b)) = kept
           /\ \A i \in 1..Len(AssignToRows(kept, b)) : RowFits(AssignToRows(kept, b)[i], b)
<1> DEFINE N == Len(kept)
           P == Packable(X)
<1>1. PICK acc : /\ FoldOfSamples(acc, kept, b)
                 /\ AssignToRows(kept, b) = IF acc[N].row # <<>>
                                              THEN Append(acc[N].rows, acc[N].row)
                                              ELSE acc[N].rows
                 /\ \A n \in 0..N : acc[n] \in Filling(P, b)
  BY FoldOfSamplesExists
<1>2. N \in Nat /\ \A k \in 1..N : kept[k] \in P /\ FitsRow(kept[k], b)
  BY LenProperties, ElementOfSeq
<1>3. \A n \in 0..N : acc[n] = IF n = 0 THEN [rows |-> <<>>, row |-> <<>>, len |-> 0]
                               ELSE PlaceSample(acc[n - 1], kept[n], b)
  <2> DEFINE value(n) == IF n = 0 THEN [rows |-> <<>>, row |-> <<>>, len |-> 0]
                         ELSE PlaceSample(acc[n - 1], kept[n], b)
  <2>1. acc = [n \in 0..N |-> value(n)]
    BY <1>1 DEF FoldOfSamples
  <2> HIDE DEF value
  <2>2. \A n \in 0..N : acc[n] = value(n)
    BY <2>1
  <2> QED  BY <2>2 DEF value
<1> HIDE DEF N
<1>4. \A n \in 0..N : AddsUp(acc[n]) = SubSeq(kept, 1, n)
  <2> DEFINE T == {n \in Nat : n \in 0..N => AddsUp(acc[n]) = SubSeq(kept, 1, n)}
  <2>1. 0 \in T
    <3>1. acc[0].rows = <<>> /\ acc[0].row = <<>>
      BY <1>2, <1>3
    <3>2. FlattenSeq(<<>>) = <<>>
      BY EmptySeq, FlattenIs
    <3>3. AddsUp(acc[0]) = <<>>
      BY <3>1, <3>2, EmptySeq, ConcatEmptySeq DEF AddsUp
    <3>4. SubSeq(kept, 1, 0) = <<>>
      BY SubSeqEmpty
    <3> QED  BY <3>3, <3>4
  <2>2. ASSUME NEW n \in Nat, n \in T PROVE n + 1 \in T
    <3> SUFFICES ASSUME n + 1 \in 0..N PROVE AddsUp(acc[n + 1]) = SubSeq(kept, 1, n + 1)
      OBVIOUS
    <3>1. n \in 0..N /\ n + 1 \in 1..N /\ n + 1 # 0 /\ (n + 1) - 1 = n
      BY <1>2
    <3>2. acc[n + 1] = PlaceSample(acc[n], kept[n + 1], b)
      BY <1>3, <3>1
    <3>3. acc[n] \in Filling(P, b) /\ kept[n + 1] \in P /\ FitsRow(kept[n + 1], b)
      BY <1>1, <1>2, <3>1
    <3>4. AddsUp(acc[n + 1]) = Append(AddsUp(acc[n]), kept[n + 1])
      BY <3>2, <3>3, PlaceSampleFills
    <3>5. AddsUp(acc[n]) = SubSeq(kept, 1, n)
      BY <2>2, <3>1
    <3>6. SubSeq(kept, 1, n) \in Seq(P)
      <4>1. \A i \in 1..n : kept[i] \in P
        BY <1>2, <3>1
      <4> QED  BY <4>1, SubSeqProperties
    <3>7. SubSeq(kept, 1, n + 1) = SubSeq(kept, 1, (n + 1) - 1) \o <<kept[n + 1]>>
      <4>1. 1 \in 1..Len(kept) /\ n + 1 \in 1..Len(kept)
        BY <1>2, <3>1 DEF N
      <4> QED  BY <4>1, SubSeqRecursiveSecond
    <3>8. Append(SubSeq(kept, 1, n), kept[n + 1]) = SubSeq(kept, 1, n) \o <<kept[n + 1]>>
      BY <3>3, <3>6, AppendIsConcat
    <3> QED  BY <3>1, <3>4, <3>5, <3>7, <3>8
  <2> HIDE DEF T
  <2>3. Nat \subseteq T
    BY <2>1, <2>2, NatInductionSet
  <2>4. \A n \in 0..N : n \in Nat
    BY <1>2
  <2> QED  BY <2>3, <2>4 DEF T
<1>5. N \in 0..N
  BY <1>2
<1>6. AddsUp(acc[N]) = kept
  BY <1>4, <1>5, SubSeqFull DEF N
<1> DEFINE last == acc[N]
           rows == AssignToRows(kept, b)
<1>7. /\ last.rows \in Seq(Seq(P)) /\ last.row \in Seq(P)
      /\ \A i \in 1..Len(last.rows) : RowFits(last.rows[i], b)
      /\ last.len = RowLength(last.row, b) /\ last.len <= b.seqLen
  BY <1>1, <1>5 DEF Filling
<1>8. rows = IF last.row # <<>> THEN Append(last.rows, last.row) ELSE last.rows
  BY <1>1
<1> HIDE DEF last, rows, P
<1>9. CASE last.row = <<>>
  <2>1. FlattenSeq(last.rows) \in Seq(P)
    BY <1>7, FlattenPlaces
  <2>2. FlattenSeq(rows) = kept
    BY <1>6, <1>8, <1>9, <2>1, ConcatEmptySeq DEF AddsUp, last
  <2> QED  BY <1>7, <1>8, <1>9, <2>2 DEF rows, P
<1>10. CASE last.row # <<>>
  <2>1. rows = Append(last.rows, last.row)
    BY <1>8, <1>10
  <2>2. /\ rows \in Seq(Seq(P))
        /\ Len(rows) = Len(last.rows) + 1 /\ Len(last.rows) \in Nat
        /\ \A i \in 1..Len(last.rows) : rows[i] = last.rows[i]
        /\ rows[Len(last.rows) + 1] = last.row
    BY <1>7, <2>1, AppendProperties, LenProperties
  <2>3. FlattenSeq(rows) = FlattenSeq(last.rows) \o last.row
    BY <1>7, <2>1, FlattenAppend
  <2>4. RowFits(last.row, b)
    BY <1>7, <1>10 DEF RowFits
  <2>5. \A i \in 1..Len(rows) : RowFits(rows[i], b)
    <3> SUFFICES ASSUME NEW i \in 1..Len(rows) PROVE RowFits(rows[i], b)
      OBVIOUS
    <3>1. i \in 1..Len(last.rows) \/ i = Len(last.rows) + 1
      BY <2>2
    <3> QED  BY <1>7, <2>2, <2>4, <3>1
  <2>6. FlattenSeq(rows) = kept
    BY <1>6, <2>3 DEF AddsUp, last
  <2> QED  BY <2>2, <2>5, <2>6 DEF rows, P
<1> QED  BY <1>9, <1>10

-----------------------------------------------------------------------------
(***************************************************************************)
(* The rows dealt to microbatches and ranks.                               *)
(***************************************************************************)
\* A larger multiple is larger by d at least.
LEMMA MultipleGrows ==
    ASSUME NEW d \in Nat, NEW x \in Int, NEW y \in Int, x < y
    PROVE  d * x + d <= d * y
<1>1. d * y = d * x + d + d * (y - x - 1)
  OBVIOUS
<1>2. d * (y - x - 1) >= 0
  OBVIOUS
<1>3. d * x \in Int /\ d * y \in Int /\ d * (y - x - 1) \in Int
  OBVIOUS
<1> QED  BY <1>1, <1>2, <1>3

\* Pairs numbered row by row.
LEMMA PairNumber ==
    ASSUME NEW m \in Nat, NEW d \in Nat \ {0}, NEW x \in 0..(m - 1), NEW y \in 0..(d - 1)
    PROVE  x * d + y \in 0..(m * d - 1) /\ x * d + y \in Nat
<1>1. d * x + d <= d * m
  BY MultipleGrows
<1>2. d * x = x * d /\ d * m = m * d /\ x * d \in Nat /\ m * d \in Nat
  OBVIOUS
<1> DEFINE v == x * d
           w == m * d
<1>3. v + d <= w /\ v \in Nat /\ w \in Nat
  BY <1>1, <1>2
<1> HIDE DEF v, w
<1>4. v + y \in 0..(w - 1) /\ v + y \in Nat
  BY <1>3
<1> QED  BY <1>4 DEF v, w

\* No two pairs have one number.
LEMMA PairNumberOnce ==
    ASSUME NEW d \in Nat \ {0}, NEW x \in Nat, NEW u \in Nat, NEW y \in 0..(d - 1), NEW v \in 0..(d - 1),
           x * d + y = u * d + v
    PROVE  x = u /\ y = v
<1> DEFINE e == x * d
           f == u * d
<1>1. e \in Nat /\ f \in Nat /\ d * x = e /\ d * u = f
  OBVIOUS
<1>2. x < u => e + d <= f
  BY <1>1, MultipleGrows
<1>3. u < x => f + d <= e
  BY <1>1, MultipleGrows
<1>4. e + y = f + v
  OBVIOUS
<1> HIDE DEF e, f
<1>5. ~(x < u) /\ ~(u < x)
  BY <1>1, <1>2, <1>3, <1>4
<1>6. x = u
  BY <1>5
<1>7. y = v
  BY <1>1, <1>4, <1>6 DEF e, f
<1> QED  BY <1>6, <1>7

\* z is the number of one of the pairs of m by d.
PairNumbered(z, m, d) == \E x \in 0..(m - 1) : \E y \in 0..(d - 1) : z = x * d + y

\* Every number is that of a pair.
LEMMA PairNumberAll ==
    ASSUME NEW m \in Nat, NEW d \in Nat \ {0}, NEW z \in 0..(m * d - 1)
    PROVE  PairNumbered(z, m, d)
<1> USE DEF PairNumbered
<1> DEFINE q == z \div d
           y == z % d
<1>1. z \in Nat /\ m * d \in Nat /\ z < m * d
  OBVIOUS
<1>2. q \in Nat /\ y \in 0..(d - 1)
  BY <1>1
<1>3. z = d * q + y
  BY <1>1
<1> HIDE DEF q, y
<1>4. d * q = q * d /\ d * m = m * d /\ q * d \in Nat
  BY <1>2
<1>5. ~(m <= q)
  <2>1. m < q => d * m + d <= d * q
    BY <1>2, MultipleGrows
  <2>2. m = q => d * m = d * q
    OBVIOUS
  <2> DEFINE v == d * q
             w == d * m
  <2>3. v \in Nat /\ w \in Nat /\ z = v + y /\ z < w /\ (m < q => w + d <= v) /\ (m = q => w = v)
    BY <1>1, <1>3, <1>4, <2>1, <2>2
  <2> HIDE DEF v, w
  <2> QED  BY <1>2, <2>3
<1>6. q \in 0..(m - 1)
  BY <1>2, <1>5
<1> QED  BY <1>2, <1>3, <1>4, <1>6

\* Where a row of the grid comes from: spot numbers the places of the grid, and
\* the places past the last row are padded.
GridOf(grid, M, b, rows, count, spot) ==
    /\ DOMAIN grid = (0..(M - 1)) \X (0..(b.ranks - 1)) /\ M \in Nat \ {0}
    /\ \A mb \in DOMAIN grid : \A k \in 1..b.rows :
          /\ spot[mb][k] \in Nat \ {0}
          /\ spot[mb][k] <= count => grid[mb][k] = rows[spot[mb][k]]
          /\ spot[mb][k] > count => grid[mb][k] = PackRow(<<>>, b)
    /\ \A mb, other \in DOMAIN grid : \A k, l \in 1..b.rows :
          spot[mb][k] = spot[other][l] => mb = other /\ k = l
    /\ \A i \in 1..count : \E mb \in DOMAIN grid : \E k \in 1..b.rows : spot[mb][k] = i
    /\ \A mb \in DOMAIN grid : spot[mb][1] <= M * b.ranks

\* Every row has exactly one spot in the grid; the other spots are padding rows.
LEMMA GridIs ==
    ASSUME NEW Y, NEW rows \in Seq(Y), NEW b, b.rows \in Nat \ {0}, b.ranks \in Nat \ {0}
    PROVE  \E M, spot : GridOf(MicrobatchGrid(rows, b), M, b, rows, Len(rows), spot)
<1> DEFINE r == b.rows
           d == b.ranks
           count == Len(rows)
           each == r * d
           needed == (count + each - 1) \div each
           M == IF needed = 0 THEN 1 ELSE needed
           stride == M * d
           size == M * each
           pads == [k \in 1..(size - count) |-> PackRow(<<>>, b)]
           full == rows \o pads
           grid == MicrobatchGrid(rows, b)
           spot == [mb \in (0..(M - 1)) \X (0..(d - 1)) |->
                      [k \in 1..r |-> (mb[1] * d + mb[2]) + (k - 1) * stride + 1]]
<1>1. count \in Nat /\ r \in Nat \ {0} /\ d \in Nat \ {0}
  BY LenProperties
<1>2. grid = [mb \in (0..(M - 1)) \X (0..(d - 1)) |->
                [k \in 1..r |-> full[(mb[1] * d + mb[2]) + (k - 1) * stride + 1]]]
  BY DEF MicrobatchGrid
<1> HIDE DEF grid, count, r, d
<1>3. each \in Nat \ {0}
  BY <1>1
<1> HIDE DEF each
<1>4. needed \in Nat /\ needed * each >= count /\ needed * each \in Nat
  <2>1. RoundUp(count, each) = needed * each
    BY DEF RoundUp
  <2>2. RoundUp(count, each) \in Nat /\ RoundUp(count, each) >= count
    BY <1>1, <1>3, RoundUpBound
  <2>3. count + each - 1 \in Nat
    BY <1>1, <1>3
  <2>4. needed \in Nat
    BY <1>3, <2>3
  <2> HIDE DEF needed
  <2> QED  BY <2>1, <2>2, <2>4
<1>5. M \in Nat \ {0} /\ size \in Nat /\ count <= size
  <2>1. CASE needed = 0
    <3>1. count = 0 /\ M = 1 /\ size = each
      <4> HIDE DEF needed
      <4> QED  BY <1>1, <1>3, <1>4, <2>1
    <3> HIDE DEF M, size
    <3> QED  BY <1>3, <3>1
  <2>2. CASE needed # 0
    <3>1. M = needed /\ size = needed * each
      BY <2>2
    <3> HIDE DEF M, size, needed
    <3> QED  BY <1>4, <2>2, <3>1
  <2> QED  BY <2>1, <2>2
<1> HIDE DEF M
<1>6. stride \in Nat \ {0} /\ size = r * stride
  BY <1>1, <1>5 DEF each
<1> HIDE DEF size, stride
<1>7. /\ \A i \in 1..size : i <= count => full[i] = rows[i]
      /\ \A i \in 1..size : i > count => full[i] = PackRow(<<>>, b)
  <2> DEFINE Z == Y \cup {PackRow(<<>>, b)}
             n == size - count
  <2>1. n \in Nat
    BY <1>1, <1>5
  <2>2. rows \in Seq(Z) /\ Len(rows) = count
    BY SeqMonotonic DEF count
  <2>3. pads \in [1..n -> Z] /\ \A k \in 1..n : pads[k] = PackRow(<<>>, b)
    OBVIOUS
  <2> HIDE DEF n, Z, pads
  <2>4. pads \in Seq(Z) /\ Len(pads) = n
    BY <2>1, <2>3, FunctionIsSeq
  <2>5. /\ \A k \in 1..Len(rows) : (rows \o pads)[k] = rows[k]
        /\ \A k \in 1..Len(pads) : (rows \o pads)[Len(rows) + k] = pads[k]
    BY <2>2, <2>4, SecondPart
  <2>6. /\ \A k \in 1..count : full[k] = rows[k]
        /\ \A k \in 1..n : full[count + k] = pads[k]
    BY <2>2, <2>4, <2>5, Zenon
  <2> HIDE DEF full
  <2>7. ASSUME NEW i \in 1..size, i <= count PROVE full[i] = rows[i]
    <3>1. i \in 1..count
      BY <2>7
    <3> QED  BY <2>6, <3>1
  <2>8. ASSUME NEW i \in 1..size, i > count PROVE full[i] = PackRow(<<>>, b)
    <3>1. i - count \in 1..n /\ count + (i - count) = i
      BY <1>1, <1>5, <2>8 DEF n
    <3> QED  BY <2>3, <2>6, <3>1
  <2> QED  BY <2>7, <2>8
<1> HIDE DEF full
<1> DEFINE D == (0..(M - 1)) \X (0..(d - 1))
           start(mb) == mb[1] * d + mb[2]
<1>8. /\ \A mb \in D : mb[1] \in 0..(M - 1) /\ mb[2] \in 0..(d - 1) /\ mb = <<mb[1], mb[2]>>
      /\ \A x \in 0..(M - 1) : \A y \in 0..(d - 1) : <<x, y>> \in D /\ <<x, y>>[1] = x /\ <<x, y>>[2] = y
  OBVIOUS
<1>19. DOMAIN grid = D
  BY <1>2
<1>20. \A mb \in D : \A k \in 1..r : grid[mb][k] = full[start(mb) + (k - 1) * stride + 1]
  BY <1>2, Zenon
<1>21. \A mb \in D : \A k \in 1..r : spot[mb][k] = start(mb) + (k - 1) * stride + 1
  BY Zenon
<1>9. /\ DOMAIN grid = D
      /\ \A mb \in D : \A k \in 1..r : grid[mb][k] = full[start(mb) + (k - 1) * stride + 1]
      /\ \A mb \in D : \A k \in 1..r : spot[mb][k] = start(mb) + (k - 1) * stride + 1
  BY <1>19, <1>20, <1>21
<1>10. \A mb \in D : start(mb) \in 0..(stride - 1)
  BY <1>1, <1>5, <1>8, PairNumber DEF stride
<1>11. \A mb, other \in D : start(mb) = start(other) => mb = other
  <2> SUFFICES ASSUME NEW mb \in D, NEW other \in D, start(mb) = start(other) PROVE mb = other
    OBVIOUS
  <2>1. /\ mb[1] \in Nat /\ other[1] \in Nat /\ mb[2] \in 0..(d - 1) /\ other[2] \in 0..(d - 1)
        /\ mb[1] * d + mb[2] = other[1] * d + other[2]
    BY <1>5, <1>8
  <2> DEFINE x == mb[1]
             y == mb[2]
             u == other[1]
             v == other[2]
  <2>2. mb = <<x, y>> /\ other = <<u, v>>
    BY <1>8
  <2>3. x = u /\ y = v
    <3> HIDE DEF x, y, u, v, start, D
    <3>1. x \in Nat /\ u \in Nat /\ y \in 0..(d - 1) /\ v \in 0..(d - 1) /\ x * d + y = u * d + v
      BY <2>1 DEF x, y, u, v
    <3> QED  BY <1>1, <3>1, PairNumberOnce
  <2> QED  BY <2>2, <2>3
<1>12. \A z \in 0..(stride - 1) : \E mb \in D : start(mb) = z
  <2> SUFFICES ASSUME NEW z \in 0..(stride - 1) PROVE \E mb \in D : start(mb) = z
    OBVIOUS
  <2>1. PICK x \in 0..(M - 1) : \E y \in 0..(d - 1) : z = x * d + y
    <3>1. z \in 0..(M * d - 1) /\ M \in Nat
      BY <1>5 DEF stride
    <3>2. d \in Nat \ {0}
      BY <1>1
    <3>3. PairNumbered(z, M, d)
      BY <3>1, <3>2, PairNumberAll
    <3> QED  BY <3>3 DEF PairNumbered
  <2>2. PICK y \in 0..(d - 1) : z = x * d + y
    BY <2>1
  <2>3. <<x, y>> \in D /\ start(<<x, y>>) = z
    BY <1>8, <2>2
  <2> QED  BY <2>3
<1> HIDE DEF D, start, spot
<1>13. \A mb \in D : \A k \in 1..r :
         /\ k - 1 \in 0..(r - 1)
         /\ (k - 1) * stride + start(mb) \in 0..(size - 1)
         /\ (k - 1) * stride \in Nat
         /\ spot[mb][k] = ((k - 1) * stride + start(mb)) + 1
  <2> SUFFICES ASSUME NEW mb \in D, NEW k \in 1..r
               PROVE  /\ k - 1 \in 0..(r - 1)
                      /\ (k - 1) * stride + start(mb) \in 0..(size - 1)
                      /\ (k - 1) * stride \in Nat
                      /\ spot[mb][k] = ((k - 1) * stride + start(mb)) + 1
    OBVIOUS
  <2>1. k - 1 \in 0..(r - 1) /\ start(mb) \in 0..(stride - 1)
    BY <1>1, <1>10
  <2>2. (k - 1) * stride + start(mb) \in 0..(r * stride - 1)
    <3> DEFINE x == k - 1
               y == start(mb)
    <3>1. x \in 0..(r - 1) /\ y \in 0..(stride - 1)
      BY <2>1
    <3> HIDE DEF x, y
    <3>2. x * stride + y \in 0..(r * stride - 1)
      BY <1>1, <1>6, <3>1, PairNumber
    <3> QED  BY <3>2 DEF x, y
  <2>3. (k - 1) * stride \in Nat
    <3> DEFINE x == k - 1
    <3>1. x \in Nat
      BY <1>1
    <3> HIDE DEF x
    <3>2. x * stride \in Nat
      BY <1>6, <3>1
    <3> QED  BY <3>2 DEF x
  <2>4. spot[mb][k] = start(mb) + (k - 1) * stride + 1
    BY <1>9
  <2>5. start(mb) \in Nat
    BY <1>6, <2>1
  <2>6. spot[mb][k] = ((k - 1) * stride + start(mb)) + 1
    <3> DEFINE x == (k - 1) * stride
    <3>1. x \in Nat /\ spot[mb][k] = start(mb) + x + 1
      BY <2>3, <2>4
    <3> HIDE DEF x
    <3>2. spot[mb][k] = (x + start(mb)) + 1
      BY <2>5, <3>1
    <3> QED  BY <3>2 DEF x
  <2> QED  BY <1>6, <2>1, <2>2, <2>3, <2>6
<1>14. ASSUME NEW mb \in D, NEW k \in 1..r
       PROVE  /\ spot[mb][k] \in Nat \ {0}
              /\ spot[mb][k] <= count => grid[mb][k] = rows[spot[mb][k]]
              /\ spot[mb][k] > count => grid[mb][k] = PackRow(<<>>, b)
  <2>1. spot[mb][k] \in 1..size
    <3> DEFINE x == (k - 1) * stride + start(mb)
    <3>1. x \in 0..(size - 1) /\ spot[mb][k] = x + 1
      BY <1>13
    <3> HIDE DEF x
    <3> QED  BY <1>5, <3>1
  <2>2. grid[mb][k] = full[spot[mb][k]]
    BY <1>9
  <2> QED  BY <1>7, <2>1, <2>2
<1>15. ASSUME NEW mb \in D, NEW other \in D, NEW k \in 1..r, NEW l \in 1..r,
              spot[mb][k] = spot[other][l]
       PROVE  mb = other /\ k = l
  <2> DEFINE x == k - 1
             y == start(mb)
             u == l - 1
             v == start(other)
  <2>1. x \in Nat /\ u \in Nat /\ y \in 0..(stride - 1) /\ v \in 0..(stride - 1)
    BY <1>1, <1>10
  <2>2. x * stride + y = u * stride + v
    <3>1. x * stride + y \in 0..(size - 1) /\ u * stride + v \in 0..(size - 1)
      BY <1>13
    <3>2. (x * stride + y) + 1 = (u * stride + v) + 1
      BY <1>13, <1>15
    <3> DEFINE e == x * stride + y
               f == u * stride + v
    <3>3. e \in 0..(size - 1) /\ f \in 0..(size - 1) /\ e + 1 = f + 1
      BY <3>1, <3>2
    <3> HIDE DEF e, f
    <3>4. e = f
      BY <1>5, <3>3
    <3> QED  BY <3>4 DEF e, f
  <2>3. x = u /\ y = v
    <3> HIDE DEF x, y, u, v
    <3> QED  BY <1>6, <2>1, <2>2, PairNumberOnce
  <2>4. k = l
    BY <1>1, <2>3
  <2> QED  BY <1>11, <2>3, <2>4
<1>16. ASSUME NEW i \in 1..count PROVE \E mb \in D : \E k \in 1..r : spot[mb][k] = i
  <2>1. i - 1 \in 0..(r * stride - 1)
    BY <1>1, <1>5, <1>6
  <2>2. PICK x \in 0..(r - 1) : \E y \in 0..(stride - 1) : i - 1 = x * stride + y
    <3>1. r \in Nat /\ stride \in Nat \ {0}
      BY <1>1, <1>6
    <3> DEFINE z == i - 1
    <3>2. z \in 0..(r * stride - 1)
      BY <2>1
    <3> HIDE DEF z
    <3>3. PairNumbered(z, r, stride)
      BY <3>1, <3>2, PairNumberAll
    <3> QED  BY <3>3 DEF PairNumbered, z
  <2>3. PICK y \in 0..(stride - 1) : i - 1 = x * stride + y
    BY <2>2
  <2>4. PICK mb \in D : start(mb) = y
    BY <1>12
  <2>5. x + 1 \in 1..r /\ (x + 1) - 1 = x
    BY <1>1
  <2>6. spot[mb][x + 1] = (x * stride + y) + 1
    BY <1>13, <2>4, <2>5
  <2>7. spot[mb][x + 1] = i
    BY <1>1, <2>3, <2>6
  <2> QED  BY <2>5, <2>7
<1>17. ASSUME NEW mb \in D PROVE spot[mb][1] <= M * d
  <2>1. 1 \in 1..r /\ (1 - 1) * stride = 0
    BY <1>1, <1>6
  <2>2. spot[mb][1] = (0 + start(mb)) + 1
    BY <1>13, <2>1
  <2>3. spot[mb][1] <= stride
    BY <1>6, <1>10, <2>2
  <2> QED  BY <2>3 DEF stride
<1>18. GridOf(grid, M, b, rows, count, spot)
  BY <1>5, <1>9, <1>14, <1>15, <1>16, <1>17 DEF GridOf, r, d, D
<1> QED  BY <1>18 DEF grid, count

-----------------------------------------------------------------------------
(***************************************************************************)
(* The packed rows and the batch.                                          *)
(***************************************************************************)

\* A Batcher's configuration.
Batching(b) ==
    /\ b.seqLen \in Nat \ {0} /\ b.rows \in Nat \ {0}
    /\ b.ranks \in Nat \ {0} /\ b.multiple \in Nat \ {0}

\* Rows that train what the samples train, each thing in one cell, and none in vain.
RowsTrain(Y, rows, kept, n) ==
    /\ rows \in Seq(Seq(Y)) /\ \A i \in 1..Len(rows) : Len(rows[i]) = n
    /\ \A i \in 1..Len(rows) : \A c \in 1..n : rows[i][c].trained = TRUE =>
          \E j \in 1..Len(kept) : \E k \in 1..Len(kept[j]) :
             kept[j][k].trained = TRUE /\ Seen(rows[i], c) = Shown(kept[j], k)
    /\ \A j \in 1..Len(kept) : \A k \in 1..Len(kept[j]) : kept[j][k].trained = TRUE =>
          \E i \in 1..Len(rows) : \E c \in 1..n :
             rows[i][c].trained = TRUE /\ Seen(rows[i], c) = Shown(kept[j], k)
    /\ \A i, h \in 1..Len(rows) : \A c, d \in 1..n :
          /\ rows[i][c].trained = TRUE /\ rows[h][d].trained = TRUE
          /\ rows[i][c].label = rows[h][d].label
          => i = h /\ c = d
    /\ \A i \in 1..Len(rows) : \E c \in 1..n : rows[i][c].trained = TRUE

\* What a cell is seen with names the label.
LEMMA SeenLabel ==
    \A cells, c : Seen(cells, c).token = cells[c].label
BY DEF Seen

\* What a place of a sample shows names its token.
LEMMA ShownToken ==
    \A s, k : Shown(s, k).token = s[k].token
BY DEF Shown

\* A row of the batch has seqLen cells and trains what its samples train.
LEMMA RowOfGroup ==
    ASSUME NEW X, Marked(X), NEW b, Batching(b), NEW row \in Seq(Packable(X)), RowLength(row, b) <= b.seqLen,
           \A j \in 1..Len(row) : Whole(row[j])
    PROVE  /\ PackRow(row, b) \in Seq(RowCells(X)) /\ Len(PackRow(row, b)) = b.seqLen
           /\ RowTrains(row, PackRow(row, b), b.seqLen)
<1>1. b.multiple \in Nat \ {0} /\ b.seqLen \in Nat
  BY DEF Batching
<1>2. PICK place : PackedAs(RowCells(X), row, PackRow(row, b), b.seqLen, place)
  BY <1>1, RowIsPacked
<1>3. RowTrains(row, PackRow(row, b), b.seqLen)
  BY <1>2, RowIsTrained
<1> QED  BY <1>2, <1>3 DEF PackedAs

\* A row of padding trains nothing.
LEMMA PaddingRow ==
    ASSUME NEW b, Batching(b)
    PROVE  \A c \in 1..b.seqLen : PackRow(<<>>, b)[c].trained = FALSE
<1> DEFINE none == <<>>
           X == {}
           n == b.seqLen
<1>1. none \in Seq(Packable(X)) /\ Len(none) = 0 /\ RowLength(none, b) = 0
  BY EmptySeq, NoRowLength
<1>2. Marked(X) /\ b.multiple \in Nat \ {0} /\ n \in Nat
  BY DEF Marked, Batching
<1> HIDE DEF none, X
<1>3. RowLength(none, b) <= b.seqLen /\ b.seqLen \in Nat
  BY <1>1, <1>2
<1>4. PICK place : PackedAs(RowCells(X), none, PackRow(none, b), b.seqLen, place)
  BY <1>1, <1>2, <1>3, RowIsPacked
<1>5. \A c \in 1..b.seqLen : PackRow(none, b)[c].trained = FALSE
  <2> DEFINE packed == PackRow(none, b)
  <2> HIDE DEF packed, n
  <2>1. \A c \in 1..b.seqLen : packed[c].trained = TRUE =>
           \E j \in 1..Len(none) : \E k \in 1..(Len(none[j]) - 1) : c = place[j] + k
    BY <1>4 DEF PackedAs, packed
  <2>2. \A j : j \notin 1..Len(none)
    BY <1>1
  <2>3. \A c \in 1..b.seqLen : packed[c].trained # TRUE
    BY <2>1, <2>2
  <2>4. packed \in Seq(RowCells(X)) /\ Len(packed) = b.seqLen
    BY <1>4 DEF PackedAs, packed
  <2>5. \A c \in 1..b.seqLen : packed[c] \in RowCells(X)
    BY <2>4, ElementOfSeq
  <2>6. \A c \in 1..b.seqLen : packed[c].trained \in BOOLEAN
    BY <2>5 DEF RowCells
  <2> QED  BY <2>3, <2>6 DEF packed
<1> QED  BY <1>5 DEF none

\* The packed rows train every cell of the kept samples, each in one place.
LEMMA PackedRowsAre ==
    ASSUME NEW X, Marked(X), NEW b, Batching(b),
           NEW kept \in Seq(Packable(X)), \A k \in 1..Len(kept) : FitsRow(kept[k], b),
           \A k \in 1..Len(kept) : Whole(kept[k]), Once(kept)
    PROVE  RowsTrain(RowCells(X), PackedRows(kept, b), kept, b.seqLen)
<1> DEFINE assigned == AssignToRows(kept, b)
           rows == PackedRows(kept, b)
           R == Len(assigned)
           n == b.seqLen
           P == Packable(X)
           Y == RowCells(X)
<1>1. b.multiple \in Nat \ {0} /\ b.seqLen \in Nat
  BY DEF Batching
<1>2. /\ assigned \in Seq(Seq(P)) /\ FlattenSeq(assigned) = kept
      /\ \A i \in 1..R : RowFits(assigned[i], b)
  BY <1>1, RowsAre
<1>3. PICK start : Joined(assigned, kept, start)
  <2> HIDE DEF P, assigned
  <2> QED  BY <1>2, FlattenPlaces
<1>4. R \in Nat /\ DOMAIN assigned = 1..R
  BY <1>2, LenProperties
<1>5. rows = [i \in 1..R |-> PackRow(assigned[i], b)]
  BY <1>4 DEF PackedRows
<1> HIDE DEF assigned, rows, R
<1>6. /\ \A i \in 1..R : \A j \in 1..Len(assigned[i]) :
            start[i] + j \in 1..Len(kept) /\ kept[start[i] + j] = assigned[i][j]
      /\ \A q \in 1..Len(kept) : \E i \in 1..R : \E j \in 1..Len(assigned[i]) : q = start[i] + j
      /\ \A i, h \in 1..R : \A j \in 1..Len(assigned[i]), l \in 1..Len(assigned[h]) :
            start[i] + j = start[h] + l => i = h /\ j = l
  BY <1>3 DEF Joined, R
<1>7. \A i \in 1..R : assigned[i] \in Seq(P) /\ Len(assigned[i]) \in Nat \ {0}
  <2> SUFFICES ASSUME NEW i \in 1..R PROVE assigned[i] \in Seq(P) /\ Len(assigned[i]) \in Nat \ {0}
    OBVIOUS
  <2>1. assigned[i] \in Seq(P)
    BY <1>2, ElementOfSeq DEF R
  <2>2. assigned[i] # <<>>
    BY <1>2 DEF RowFits
  <2> QED  BY <2>1, <2>2, EmptySeq
<1>8. \A i \in 1..R : \A j \in 1..Len(assigned[i]) : Whole(assigned[i][j])
  BY <1>6
<1>9. \A i \in 1..R : /\ PackRow(assigned[i], b) \in Seq(Y) /\ Len(PackRow(assigned[i], b)) = n
                      /\ RowTrains(assigned[i], PackRow(assigned[i], b), n)
  <2> SUFFICES ASSUME NEW i \in 1..R
               PROVE  /\ PackRow(assigned[i], b) \in Seq(Y) /\ Len(PackRow(assigned[i], b)) = n
                      /\ RowTrains(assigned[i], PackRow(assigned[i], b), n)
    OBVIOUS
  <2>1. assigned[i] \in Seq(Packable(X)) /\ RowLength(assigned[i], b) <= b.seqLen
    BY <1>2, <1>7 DEF RowFits
  <2>2. \A j \in 1..Len(assigned[i]) : Whole(assigned[i][j])
    BY <1>8
  <2> QED  BY <2>1, <2>2, RowOfGroup
<1> HIDE DEF P, Y, n
<1>10. rows \in Seq(Seq(Y)) /\ Len(rows) = R /\ \A i \in 1..R : rows[i] = PackRow(assigned[i], b)
  <2>1. rows \in [1..R -> Seq(Y)] /\ \A i \in 1..R : rows[i] = PackRow(assigned[i], b)
    BY <1>5, <1>9
  <2> QED  BY <1>4, <2>1, FunctionIsSeq
<1>11. \A i \in 1..R : Len(rows[i]) = n /\ RowTrains(assigned[i], rows[i], n)
  BY <1>9, <1>10
<1>12. \A i \in 1..R : Once(assigned[i])
  <2> SUFFICES ASSUME NEW i \in 1..R PROVE Once(assigned[i])
    OBVIOUS
  <2> DEFINE row == assigned[i]
  <2>2. \A j, l \in 1..Len(row) : \A k \in 1..Len(row[j]), m \in 1..Len(row[l]) :
           row[j][k].trained = TRUE /\ row[l][m].trained = TRUE /\ row[j][k].token = row[l][m].token
             => j = l /\ k = m
    <3> TAKE j, l \in 1..Len(row)
    <3> TAKE k \in 1..Len(row[j]), m \in 1..Len(row[l])
    <3> HAVE row[j][k].trained = TRUE /\ row[l][m].trained = TRUE /\ row[j][k].token = row[l][m].token
    <3> DEFINE p == start[i] + j
               q == start[i] + l
    <3>1. /\ p \in 1..Len(kept) /\ kept[p] = assigned[i][j]
          /\ q \in 1..Len(kept) /\ kept[q] = assigned[i][l]
      BY <1>6
    <3>2. p = q /\ k = m
      <4> HIDE DEF p, q
      <4>1. /\ p \in 1..Len(kept) /\ q \in 1..Len(kept)
            /\ k \in 1..Len(kept[p]) /\ m \in 1..Len(kept[q])
            /\ kept[p][k].trained = TRUE /\ kept[q][m].trained = TRUE /\ kept[p][k].token = kept[q][m].token
        BY <3>1
      <4> QED  BY <4>1, OnceAt
    <3> QED  BY <1>6, <3>2
  <2> HIDE DEF row
  <2>3. Once(row)
    BY <2>2, Zenon DEF Once
  <2> QED  BY <2>3 DEF row
<1>13. ASSUME NEW i \in 1..R, NEW c \in 1..n, rows[i][c].trained = TRUE
       PROVE  \E j \in 1..Len(assigned[i]) : \E k \in 1..Len(assigned[i][j]) :
                 assigned[i][j][k].trained = TRUE /\ Seen(rows[i], c) = Shown(assigned[i][j], k)
  <2>1. RowTrains(assigned[i], rows[i], n)
    BY <1>11
  <2> QED  BY <1>13, <2>1 DEF RowTrains
<1>14. ASSUME NEW i \in 1..R, NEW c \in 1..n, rows[i][c].trained = TRUE
       PROVE  \E j \in 1..Len(kept) : \E k \in 1..Len(kept[j]) :
                 kept[j][k].trained = TRUE /\ Seen(rows[i], c) = Shown(kept[j], k)
  <2>1. PICK j \in 1..Len(assigned[i]) : \E k \in 1..Len(assigned[i][j]) :
                 assigned[i][j][k].trained = TRUE /\ Seen(rows[i], c) = Shown(assigned[i][j], k)
    BY <1>13, <1>14
  <2>2. start[i] + j \in 1..Len(kept) /\ kept[start[i] + j] = assigned[i][j]
    BY <1>6
  <2> QED  BY <2>1, <2>2
<1>15. ASSUME NEW q \in 1..Len(kept), NEW k \in 1..Len(kept[q]), kept[q][k].trained = TRUE
       PROVE  \E i \in 1..R : \E c \in 1..n :
                 rows[i][c].trained = TRUE /\ Seen(rows[i], c) = Shown(kept[q], k)
  <2>1. PICK i \in 1..R : \E j \in 1..Len(assigned[i]) : q = start[i] + j
    BY <1>6
  <2>2. PICK j \in 1..Len(assigned[i]) : q = start[i] + j
    BY <2>1
  <2>3. kept[q] = assigned[i][j]
    BY <1>6, <2>2
  <2>4. RowTrains(assigned[i], rows[i], n)
    BY <1>11
  <2>5. \E c \in 1..n : rows[i][c].trained = TRUE /\ Seen(rows[i], c) = Shown(assigned[i][j], k)
    BY <1>15, <2>3, <2>4 DEF RowTrains
  <2> QED  BY <2>3, <2>5
<1>16. ASSUME NEW i \in 1..R, NEW h \in 1..R, NEW c \in 1..n, NEW d \in 1..n,
              rows[i][c].trained = TRUE, rows[h][d].trained = TRUE, rows[i][c].label = rows[h][d].label
       PROVE  i = h /\ c = d
  <2>1. PICK j \in 1..Len(assigned[i]) : \E k \in 1..Len(assigned[i][j]) :
                 assigned[i][j][k].trained = TRUE /\ Seen(rows[i], c) = Shown(assigned[i][j], k)
    BY <1>13, <1>16
  <2>2. PICK k \in 1..Len(assigned[i][j]) :
                 assigned[i][j][k].trained = TRUE /\ Seen(rows[i], c) = Shown(assigned[i][j], k)
    BY <2>1
  <2>3. PICK l \in 1..Len(assigned[h]) : \E m \in 1..Len(assigned[h][l]) :
                 assigned[h][l][m].trained = TRUE /\ Seen(rows[h], d) = Shown(assigned[h][l], m)
    BY <1>13, <1>16
  <2>4. PICK m \in 1..Len(assigned[h][l]) :
                 assigned[h][l][m].trained = TRUE /\ Seen(rows[h], d) = Shown(assigned[h][l], m)
    BY <2>3
  <2>5. assigned[i][j][k].token = assigned[h][l][m].token
    <3>1. /\ Seen(rows[i], c).token = rows[i][c].label
          /\ Seen(rows[h], d).token = rows[h][d].label
      BY SeenLabel
    <3>2. /\ Shown(assigned[i][j], k).token = assigned[i][j][k].token
          /\ Shown(assigned[h][l], m).token = assigned[h][l][m].token
      BY ShownToken
    <3>3. Seen(rows[i], c) = Shown(assigned[i][j], k) /\ Seen(rows[h], d) = Shown(assigned[h][l], m)
      BY <2>2, <2>4
    <3> QED  BY <1>16, <3>1, <3>2, <3>3, Zenon
  <2> DEFINE p == start[i] + j
             q == start[h] + l
  <2>6. /\ p \in 1..Len(kept) /\ kept[p] = assigned[i][j]
        /\ q \in 1..Len(kept) /\ kept[q] = assigned[h][l]
    BY <1>6
  <2>7. p = q
    <3> HIDE DEF p, q
    <3>1. /\ p \in 1..Len(kept) /\ q \in 1..Len(kept)
          /\ k \in 1..Len(kept[p]) /\ m \in 1..Len(kept[q])
          /\ kept[p][k].trained = TRUE /\ kept[q][m].trained = TRUE /\ kept[p][k].token = kept[q][m].token
      BY <2>2, <2>4, <2>5, <2>6
    <3>2. p = q /\ k = m
      BY <3>1, OnceAt
    <3> QED  BY <3>2
  <2>8. i = h
    BY <1>6, <2>7
  <2>9. c = d
    <3>1. RowTrains(assigned[i], rows[i], n) /\ Once(assigned[i])
      BY <1>11, <1>12
    <3> QED  BY <1>16, <2>8, <3>1 DEF RowTrains
  <2> QED  BY <2>8, <2>9
<1>17. ASSUME NEW i \in 1..R PROVE \E c \in 1..n : rows[i][c].trained = TRUE
  <2>1. 1 \in 1..Len(assigned[i])
    BY <1>7
  <2>2. Whole(assigned[i][1])
    BY <1>8, <2>1
  <2>3. PICK k \in 1..Len(assigned[i][1]) : assigned[i][1][k].trained = TRUE
    BY <2>2 DEF Whole
  <2>4. RowTrains(assigned[i], rows[i], n)
    BY <1>11
  <2> QED  BY <2>1, <2>3, <2>4 DEF RowTrains
<1>18. RowsTrain(Y, rows, kept, n)
  <2>1. Len(rows) = R
    BY <1>10
  <2>2. rows \in Seq(Seq(Y)) /\ \A i \in 1..R : Len(rows[i]) = n
    BY <1>10, <1>11
  <2>3. \A i \in 1..R : \A c \in 1..n : rows[i][c].trained = TRUE =>
          \E j \in 1..Len(kept) : \E k \in 1..Len(kept[j]) :
             kept[j][k].trained = TRUE /\ Seen(rows[i], c) = Shown(kept[j], k)
    BY <1>14
  <2>4. \A j \in 1..Len(kept) : \A k \in 1..Len(kept[j]) : kept[j][k].trained = TRUE =>
          \E i \in 1..R : \E c \in 1..n :
             rows[i][c].trained = TRUE /\ Seen(rows[i], c) = Shown(kept[j], k)
    BY <1>15
  <2>5. \A i, h \in 1..R : \A c, d \in 1..n :
          /\ rows[i][c].trained = TRUE /\ rows[h][d].trained = TRUE
          /\ rows[i][c].label = rows[h][d].label
          => i = h /\ c = d
    <3> TAKE i, h \in 1..R
    <3> TAKE c, d \in 1..n
    <3> HAVE /\ rows[i][c].trained = TRUE /\ rows[h][d].trained = TRUE
             /\ rows[i][c].label = rows[h][d].label
    <3> QED  BY <1>16
  <2>6. \A i \in 1..R : \E c \in 1..n : rows[i][c].trained = TRUE
    BY <1>17
  <2> QED  BY <2>1, <2>2, <2>3, <2>4, <2>5, <2>6, Zenon DEF RowsTrain
<1> QED  BY <1>18 DEF Y, rows, n

\* The trained cells of rows, and of a batch.
RowPlaces(rows, b) ==
    {p \in (DOMAIN rows) \X (1..b.seqLen) : rows[p[1]][p[2]].trained}
BatchPlaces(grid, b) ==
    {p \in (DOMAIN grid) \X (1..b.rows) \X (1..b.seqLen) : grid[p[1]][p[2]][p[3]].trained}

\* The rows are numbered from 1 and each of their cells is trained or not.
LEMMA RowMarks ==
    ASSUME NEW X, NEW rows, NEW kept, NEW n, RowsTrain(RowCells(X), rows, kept, n)
    PROVE  /\ Len(rows) \in Nat /\ DOMAIN rows = 1..Len(rows)
           /\ \A i \in 1..Len(rows) : \A c \in 1..n : rows[i][c].trained \in BOOLEAN
<1>1. rows \in Seq(Seq(RowCells(X))) /\ \A i \in 1..Len(rows) : Len(rows[i]) = n
  BY DEF RowsTrain
<1>2. ASSUME NEW i \in 1..Len(rows), NEW c \in 1..n PROVE rows[i][c].trained \in BOOLEAN
  <2> DEFINE Y == RowCells(X)
  <2> HIDE DEF Y
  <2>1. rows[i] \in Seq(Y) /\ Len(rows[i]) = n
    BY <1>1, ElementOfSeq DEF Y
  <2>2. rows[i][c] \in Y
    BY <2>1, ElementOfSeq
  <2> QED  BY <2>2 DEF Y, RowCells
<1> QED  BY <1>1, <1>2, LenProperties

\* A trained cell of the batch lies in a row that is not padding.
PlaceOf(grid, b, mb, k, c) == mb \in DOMAIN grid /\ k \in 1..b.rows /\ c \in 1..b.seqLen
FromRow(grid, rows, i, mb, k, c) ==
    /\ grid[mb][k][c].trained \in BOOLEAN
    /\ grid[mb][k][c].trained = TRUE => i \in 1..Len(rows) /\ grid[mb][k] = rows[i]

\* What stands at a place of the batch stands there in the row dealt to it.
LEMMA PlaceOfBatch ==
    ASSUME NEW X, NEW b, Batching(b), NEW rows, NEW kept, RowsTrain(RowCells(X), rows, kept, b.seqLen),
           NEW grid, NEW M, NEW spot, GridOf(grid, M, b, rows, Len(rows), spot)
    PROVE  \A mb, k, c : PlaceOf(grid, b, mb, k, c) => FromRow(grid, rows, spot[mb][k], mb, k, c)
<1> SUFFICES ASSUME NEW mb \in DOMAIN grid, NEW k \in 1..b.rows, NEW c \in 1..b.seqLen
             PROVE  FromRow(grid, rows, spot[mb][k], mb, k, c)
  BY DEF PlaceOf
<1> DEFINE i == spot[mb][k]
<1>1. /\ i \in Nat \ {0}
      /\ i <= Len(rows) => grid[mb][k] = rows[i]
      /\ i > Len(rows) => grid[mb][k] = PackRow(<<>>, b)
  BY DEF GridOf
<1> HIDE DEF i
<1>2. /\ Len(rows) \in Nat
      /\ \A j \in 1..Len(rows) : \A d \in 1..b.seqLen : rows[j][d].trained \in BOOLEAN
  BY RowMarks
<1>3. CASE i <= Len(rows)
  <2>1. i \in 1..Len(rows) /\ grid[mb][k] = rows[i]
    BY <1>1, <1>2, <1>3
  <2> QED  BY <1>2, <2>1 DEF i, FromRow
<1>4. CASE ~(i <= Len(rows))
  <2>1. grid[mb][k] = PackRow(<<>>, b)
    BY <1>1, <1>2, <1>4
  <2>2. grid[mb][k][c].trained = FALSE
    BY <2>1, PaddingRow
  <2> QED  BY <2>2 DEF FromRow
<1> QED  BY <1>3, <1>4

\* The trained places of the batch are those of the rows, where they were dealt.
LEMMA BatchPlacesAre ==
    ASSUME NEW X, NEW b, Batching(b), NEW rows, NEW kept, RowsTrain(RowCells(X), rows, kept, b.seqLen),
           NEW grid, NEW M, NEW spot, GridOf(grid, M, b, rows, Len(rows), spot),
           NEW p
    PROVE  p \in BatchPlaces(grid, b) <=>
             /\ p \in (DOMAIN grid) \X (1..b.rows) \X (1..b.seqLen)
             /\ spot[p[1]][p[2]] \in 1..Len(rows) /\ grid[p[1]][p[2]] = rows[spot[p[1]][p[2]]]
             /\ rows[spot[p[1]][p[2]]][p[3]].trained = TRUE
<1>1. p \in BatchPlaces(grid, b) <=>
        p \in (DOMAIN grid) \X (1..b.rows) \X (1..b.seqLen) /\ grid[p[1]][p[2]][p[3]].trained
  BY DEF BatchPlaces
<1>2. CASE p \in (DOMAIN grid) \X (1..b.rows) \X (1..b.seqLen)
  <2>1. p[1] \in DOMAIN grid /\ p[2] \in 1..b.rows /\ p[3] \in 1..b.seqLen
    BY <1>2
  <2>2. /\ grid[p[1]][p[2]][p[3]].trained \in BOOLEAN
        /\ grid[p[1]][p[2]][p[3]].trained = TRUE =>
              /\ spot[p[1]][p[2]] \in 1..Len(rows)
              /\ grid[p[1]][p[2]] = rows[spot[p[1]][p[2]]]
    <3> DEFINE mb == p[1]
               k == p[2]
               c == p[3]
    <3>1. PlaceOf(grid, b, mb, k, c)
      BY <2>1 DEF PlaceOf
    <3> HIDE DEF mb, k, c
    <3>2. FromRow(grid, rows, spot[mb][k], mb, k, c)
      BY <3>1, PlaceOfBatch
    <3> QED  BY <3>2 DEF mb, k, c, FromRow
  <2>3. CASE grid[p[1]][p[2]][p[3]].trained = TRUE
    <3> DEFINE i == spot[p[1]][p[2]]
               g == grid[p[1]][p[2]]
               c == p[3]
    <3>1. p \in BatchPlaces(grid, b)
      BY <1>1, <1>2, <2>3
    <3>2. g[c].trained = TRUE /\ i \in 1..Len(rows) /\ g = rows[i]
      BY <2>2, <2>3
    <3> HIDE DEF i, g, c
    <3>3. rows[i][c].trained = TRUE
      BY <3>2
    <3> QED  BY <1>2, <3>1, <3>2, <3>3 DEF i, g, c
  <2>4. CASE grid[p[1]][p[2]][p[3]].trained = FALSE
    <3> DEFINE i == spot[p[1]][p[2]]
               g == grid[p[1]][p[2]]
               c == p[3]
    <3>1. p \notin BatchPlaces(grid, b)
      BY <1>1, <2>4
    <3>2. g[c].trained = FALSE
      BY <2>4
    <3> HIDE DEF i, g, c
    <3>3. g = rows[i] => rows[i][c].trained # TRUE
      BY <3>2
    <3> QED  BY <3>1, <3>3 DEF i, g, c
  <2> QED  BY <2>2, <2>3, <2>4
<1>3. CASE p \notin (DOMAIN grid) \X (1..b.rows) \X (1..b.seqLen)
  BY <1>1, <1>3
<1> QED  BY <1>2, <1>3

\* The trained places of the rows.
LEMMA RowPlacesAre ==
    ASSUME NEW X, NEW b, NEW rows, NEW kept, RowsTrain(RowCells(X), rows, kept, b.seqLen), NEW p
    PROVE  p \in RowPlaces(rows, b) <=>
             /\ p \in (1..Len(rows)) \X (1..b.seqLen) /\ rows[p[1]][p[2]].trained = TRUE
<1>1. /\ DOMAIN rows = 1..Len(rows)
      /\ \A i \in 1..Len(rows) : \A c \in 1..b.seqLen : rows[i][c].trained \in BOOLEAN
  BY RowMarks
<1>2. p \in RowPlaces(rows, b) <=>
         p \in (1..Len(rows)) \X (1..b.seqLen) /\ rows[p[1]][p[2]].trained
  BY <1>1 DEF RowPlaces
<1>3. p \in (1..Len(rows)) \X (1..b.seqLen) => rows[p[1]][p[2]].trained \in BOOLEAN
  BY <1>1
<1> QED  BY <1>2, <1>3

\* The cells trained in the batch are those trained in the rows.
LEMMA ValidTokensCount ==
    ASSUME NEW X, NEW b, Batching(b), NEW rows, NEW kept, RowsTrain(RowCells(X), rows, kept, b.seqLen),
           NEW grid, NEW M, NEW spot, GridOf(grid, M, b, rows, Len(rows), spot)
    PROVE  /\ IsFiniteSet(BatchPlaces(grid, b))
           /\ ValidTokens(rows, b) = Cardinality(BatchPlaces(grid, b))
<1> DEFINE A == BatchPlaces(grid, b)
           B == RowPlaces(rows, b)
           f == [p \in A |-> <<spot[p[1]][p[2]], p[3]>>]
<1>1. \A p : p \in A <=>
             /\ p \in (DOMAIN grid) \X (1..b.rows) \X (1..b.seqLen)
             /\ spot[p[1]][p[2]] \in 1..Len(rows) /\ grid[p[1]][p[2]] = rows[spot[p[1]][p[2]]]
             /\ rows[spot[p[1]][p[2]]][p[3]].trained = TRUE
  BY BatchPlacesAre
<1>2. \A p : p \in B <=>
             /\ p \in (1..Len(rows)) \X (1..b.seqLen) /\ rows[p[1]][p[2]].trained = TRUE
  BY RowPlacesAre
<1>3. ValidTokens(rows, b) = Cardinality(B)
  BY DEF ValidTokens, RowPlaces
<1> HIDE DEF A, B
<1>4. /\ \A mb, other \in DOMAIN grid : \A k, l \in 1..b.rows :
            spot[mb][k] = spot[other][l] => mb = other /\ k = l
      /\ \A i \in 1..Len(rows) : \E mb \in DOMAIN grid : \E k \in 1..b.rows : spot[mb][k] = i
      /\ \A mb \in DOMAIN grid : \A k \in 1..b.rows :
            spot[mb][k] <= Len(rows) => grid[mb][k] = rows[spot[mb][k]]
  BY DEF GridOf
<1>5. \A p \in A : /\ p[1] \in DOMAIN grid /\ p[2] \in 1..b.rows /\ p[3] \in 1..b.seqLen
                   /\ p = <<p[1], p[2], p[3]>>
  BY <1>1
<1>6. f \in [A -> B]
  <2> SUFFICES ASSUME NEW p \in A PROVE <<spot[p[1]][p[2]], p[3]>> \in B
    OBVIOUS
  <2> DEFINE i == spot[p[1]][p[2]]
             c == p[3]
  <2>1. i \in 1..Len(rows) /\ c \in 1..b.seqLen /\ rows[i][c].trained = TRUE
    BY <1>1, <1>5
  <2> HIDE DEF i, c
  <2>2. <<i, c>> \in (1..Len(rows)) \X (1..b.seqLen) /\ <<i, c>>[1] = i /\ <<i, c>>[2] = c
    BY <2>1
  <2>3. <<i, c>> \in B
    BY <1>2, <2>1, <2>2
  <2> QED  BY <2>3 DEF i, c
<1>7. \A p, q \in A : f[p] = f[q] => p = q
  <2> SUFFICES ASSUME NEW p \in A, NEW q \in A, f[p] = f[q] PROVE p = q
    OBVIOUS
  <2>1. spot[p[1]][p[2]] = spot[q[1]][q[2]] /\ p[3] = q[3]
    <3>1. <<spot[p[1]][p[2]], p[3]>> = <<spot[q[1]][q[2]], q[3]>>
      OBVIOUS
    <3> QED  BY <3>1
  <2>2. /\ p[1] \in DOMAIN grid /\ q[1] \in DOMAIN grid /\ p[2] \in 1..b.rows /\ q[2] \in 1..b.rows
        /\ p = <<p[1], p[2], p[3]>> /\ q = <<q[1], q[2], q[3]>>
    BY <1>5
  <2>3. p[1] = q[1] /\ p[2] = q[2]
    BY <1>4, <2>1, <2>2
  <2> QED  BY <2>1, <2>2, <2>3
<1>8. \A w \in B : \E p \in A : f[p] = w
  <2> SUFFICES ASSUME NEW w \in B PROVE \E p \in A : f[p] = w
    OBVIOUS
  <2>1. /\ w[1] \in 1..Len(rows) /\ w[2] \in 1..b.seqLen /\ rows[w[1]][w[2]].trained = TRUE
        /\ w = <<w[1], w[2]>>
    BY <1>2
  <2>2. PICK mb \in DOMAIN grid : \E k \in 1..b.rows : spot[mb][k] = w[1]
    BY <1>4, <2>1
  <2>3. PICK k \in 1..b.rows : spot[mb][k] = w[1]
    BY <2>2
  <2> DEFINE p == <<mb, k, w[2]>>
  <2>4. p[1] = mb /\ p[2] = k /\ p[3] = w[2] /\ p \in (DOMAIN grid) \X (1..b.rows) \X (1..b.seqLen)
    BY <2>1
  <2>5. grid[mb][k] = rows[w[1]]
    <3>1. Len(rows) \in Nat
      BY RowMarks
    <3>2. w[1] <= Len(rows)
      BY <2>1, <3>1
    <3> QED  BY <1>4, <2>3, <3>2
  <2> HIDE DEF p
  <2>6. p \in A
    BY <1>1, <2>1, <2>3, <2>4, <2>5
  <2>7. f[p] = w
    BY <2>1, <2>3, <2>4, <2>6
  <2> QED  BY <2>6, <2>7
<1> HIDE DEF f
<1>9. f \in Bijection(A, B)
  BY <1>6, <1>7, <1>8 DEF Bijection, Injection, Surjection, IsInjective
<1>10. IsFiniteSet(B)
  <2>1. Len(rows) \in Nat /\ b.seqLen \in Nat
    BY RowMarks DEF Batching
  <2> DEFINE R == Len(rows)
             n == b.seqLen
  <2>2. R \in Int /\ n \in Int /\ 1 \in Int
    BY <2>1
  <2> HIDE DEF R, n
  <2>3. IsFiniteSet(1..R) /\ IsFiniteSet(1..n)
    BY <2>2, FS_Interval
  <2>4. IsFiniteSet((1..R) \X (1..n))
    BY <2>3, FS_Product
  <2>5. B \in SUBSET ((1..R) \X (1..n))
    BY <1>2 DEF R, n
  <2> QED  BY <2>4, <2>5, FS_Subset
<1>11. IsFiniteSet(A) /\ Cardinality(B) = Cardinality(A)
  <2> DEFINE g == Inverse(f, A, B)
  <2>1. f \in Injection(A, B) /\ f \in Surjection(A, B)
    BY <1>9 DEF Bijection
  <2>2. /\ IsFiniteSet(A) /\ (Cardinality(A) = Cardinality(B) <=> f \in Surjection(A, B))
    BY <1>10, <2>1, FS_Injection
  <2> QED  BY <2>1, <2>2
<1> QED  BY <1>3, <1>11 DEF A

\* What the cells of a batch train is what is said.
TrainsAs(grid, b, kept, said) ==
    LET places == BatchPlaces(grid, b)
        seen   == {Seen(grid[p[1]][p[2]], p[3]) : p \in places}
    IN  /\ seen \subseteq said
        /\ All(kept, said) => seen = said
        /\ Cardinality(seen) = Cardinality(places)

\* The cells of the batch train what the samples say, each thing in one cell.
LEMMA BatchTrains ==
    ASSUME NEW X, NEW b, Batching(b), NEW rows, NEW kept, RowsTrain(RowCells(X), rows, kept, b.seqLen),
           NEW grid, NEW M, NEW spot, GridOf(grid, M, b, rows, Len(rows), spot),
           NEW said, Sound(kept, said)
    PROVE  TrainsAs(grid, b, kept, said)
<1> DEFINE A == BatchPlaces(grid, b)
           f == [p \in A |-> Seen(grid[p[1]][p[2]], p[3])]
           seen == {Seen(grid[p[1]][p[2]], p[3]) : p \in A}
           n == b.seqLen
<1>1. \A p : p \in A <=>
             /\ p \in (DOMAIN grid) \X (1..b.rows) \X (1..n)
             /\ spot[p[1]][p[2]] \in 1..Len(rows) /\ grid[p[1]][p[2]] = rows[spot[p[1]][p[2]]]
             /\ rows[spot[p[1]][p[2]]][p[3]].trained = TRUE
  BY BatchPlacesAre
<1>2. IsFiniteSet(A)
  BY ValidTokensCount
<1> HIDE DEF A, n
<1>3. \A p \in A : /\ p[1] \in DOMAIN grid /\ p[2] \in 1..b.rows /\ p[3] \in 1..n
                   /\ p = <<p[1], p[2], p[3]>>
  BY <1>1
<1>4. /\ \A mb, other \in DOMAIN grid : \A k, l \in 1..b.rows :
            spot[mb][k] = spot[other][l] => mb = other /\ k = l
      /\ \A i \in 1..Len(rows) : \E mb \in DOMAIN grid : \E k \in 1..b.rows : spot[mb][k] = i
      /\ \A mb \in DOMAIN grid : \A k \in 1..b.rows :
            spot[mb][k] <= Len(rows) => grid[mb][k] = rows[spot[mb][k]]
  BY DEF GridOf
<1>5. /\ \A i \in 1..Len(rows) : \A c \in 1..n : rows[i][c].trained = TRUE =>
            \E j \in 1..Len(kept) : \E k \in 1..Len(kept[j]) :
               kept[j][k].trained = TRUE /\ Seen(rows[i], c) = Shown(kept[j], k)
      /\ \A j \in 1..Len(kept) : \A k \in 1..Len(kept[j]) : kept[j][k].trained = TRUE =>
            \E i \in 1..Len(rows) : \E c \in 1..n :
               rows[i][c].trained = TRUE /\ Seen(rows[i], c) = Shown(kept[j], k)
      /\ \A i, h \in 1..Len(rows) : \A c, d \in 1..n :
            /\ rows[i][c].trained = TRUE /\ rows[h][d].trained = TRUE
            /\ rows[i][c].label = rows[h][d].label
            => i = h /\ c = d
  BY Zenon DEF RowsTrain, n
<1>6. ASSUME NEW p \in A PROVE f[p] \in said
  <2> DEFINE i == spot[p[1]][p[2]]
             c == p[3]
  <2>1. i \in 1..Len(rows) /\ c \in 1..n /\ rows[i][c].trained = TRUE /\ grid[p[1]][p[2]] = rows[i]
    BY <1>1, <1>3
  <2>2. f[p] = Seen(rows[i], c)
    BY <2>1
  <2> HIDE DEF i, c, f
  <2>3. PICK j \in 1..Len(kept) : \E k \in 1..Len(kept[j]) :
               kept[j][k].trained = TRUE /\ Seen(rows[i], c) = Shown(kept[j], k)
    BY <1>5, <2>1
  <2>4. PICK k \in 1..Len(kept[j]) : kept[j][k].trained = TRUE /\ Seen(rows[i], c) = Shown(kept[j], k)
    BY <2>3
  <2>5. Shown(kept[j], k) \in said
    BY <2>4 DEF Sound, Only
  <2> QED  BY <2>2, <2>4, <2>5
<1>7. ASSUME All(kept, said), NEW w \in said PROVE \E p \in A : f[p] = w
  <2>1. PICK j \in 1..Len(kept) : \E k \in 1..Len(kept[j]) :
               kept[j][k].trained = TRUE /\ Shown(kept[j], k) = w
    BY <1>7 DEF All
  <2>2. PICK k \in 1..Len(kept[j]) : kept[j][k].trained = TRUE /\ Shown(kept[j], k) = w
    BY <2>1
  <2>3. PICK i \in 1..Len(rows) : \E c \in 1..n : rows[i][c].trained = TRUE /\ Seen(rows[i], c) = w
    BY <1>5, <2>2
  <2>4. PICK c \in 1..n : rows[i][c].trained = TRUE /\ Seen(rows[i], c) = w
    BY <2>3
  <2>5. PICK mb \in DOMAIN grid : \E l \in 1..b.rows : spot[mb][l] = i
    BY <1>4
  <2>6. PICK l \in 1..b.rows : spot[mb][l] = i
    BY <2>5
  <2> DEFINE p == <<mb, l, c>>
  <2>7. p[1] = mb /\ p[2] = l /\ p[3] = c /\ p \in (DOMAIN grid) \X (1..b.rows) \X (1..n)
    OBVIOUS
  <2>8. grid[mb][l] = rows[i]
    <3>1. Len(rows) \in Nat
      BY RowMarks
    <3>2. i <= Len(rows)
      BY <3>1
    <3> QED  BY <1>4, <2>6, <3>2
  <2> HIDE DEF p
  <2>9. p \in A
    BY <1>1, <2>4, <2>6, <2>7, <2>8
  <2>10. f[p] = w
    BY <2>4, <2>7, <2>8, <2>9
  <2> QED  BY <2>9, <2>10
<1>8. ASSUME NEW p \in A, NEW q \in A, f[p] = f[q] PROVE p = q
  <2> DEFINE i == spot[p[1]][p[2]]
             c == p[3]
             h == spot[q[1]][q[2]]
             d == q[3]
  <2>1. /\ i \in 1..Len(rows) /\ c \in 1..n /\ rows[i][c].trained = TRUE /\ grid[p[1]][p[2]] = rows[i]
        /\ h \in 1..Len(rows) /\ d \in 1..n /\ rows[h][d].trained = TRUE /\ grid[q[1]][q[2]] = rows[h]
    BY <1>1, <1>3
  <2>2. Seen(rows[i], c) = Seen(rows[h], d)
    BY <1>8, <2>1
  <2> HIDE DEF i, c, h, d, f
  <2>3. Seen(rows[i], c).token = rows[i][c].label /\ Seen(rows[h], d).token = rows[h][d].label
    BY SeenLabel
  <2>4. rows[i][c].label = rows[h][d].label
    BY <2>2, <2>3
  <2>5. i = h /\ c = d
    BY <1>5, <2>1, <2>4
  <2>6. p[1] = q[1] /\ p[2] = q[2]
    BY <1>3, <1>4, <2>5 DEF i, h
  <2> QED  BY <1>3, <2>5, <2>6 DEF c, d
<1>9. seen = {f[p] : p \in A}
  OBVIOUS
<1> HIDE DEF f, seen
<1>10. seen \subseteq said
  BY <1>6, <1>9
<1>11. All(kept, said) => said \subseteq seen
  BY <1>7, <1>9
<1>12. Cardinality(seen) = Cardinality(A)
  <2>1. f \in [A -> seen]
    BY <1>9 DEF f
  <2>2. f \in Injection(A, seen) /\ f \in Surjection(A, seen)
    BY <1>8, <1>9, <2>1 DEF Injection, Surjection, IsInjective
  <2> QED  BY <1>2, <2>2, FS_Surjection
<1> QED  BY <1>10, <1>11, <1>12 DEF A, seen, TrainsAs

\* The rows of a batch that are not padding.
RealRows(grid, b) ==
    {p \in (DOMAIN grid) \X (1..b.rows) : grid[p[1]][p[2]] # PackRow(<<>>, b)}
Busy(grid, b) ==
    Cardinality(RealRows(grid, b)) >= Cardinality(DOMAIN grid) =>
        \A mb \in DOMAIN grid : \E p \in RealRows(grid, b) : p[1] = mb

\* The numbers below n are n.
LEMMA UpToFinite ==
    ASSUME NEW n \in Nat \ {0}
    PROVE  IsFiniteSet(0..(n - 1)) /\ Cardinality(0..(n - 1)) = n
<1>1. 0 \in Int /\ n - 1 \in Int /\ ~(0 > n - 1) /\ (n - 1) - 0 + 1 = n
  OBVIOUS
<1> QED  BY <1>1, FS_Interval

\* As many rows as microbatches of ranks reach every one: the first of each come first.
LEMMA RanksAreBusy ==
    ASSUME NEW X, NEW b, Batching(b), NEW rows, NEW kept, RowsTrain(RowCells(X), rows, kept, b.seqLen),
           NEW grid, NEW M, NEW spot, GridOf(grid, M, b, rows, Len(rows), spot)
    PROVE  Busy(grid, b)
<1> DEFINE real == RealRows(grid, b)
           R == Len(rows)
           d == b.ranks
           none == PackRow(<<>>, b)
<1>1. /\ DOMAIN grid = (0..(M - 1)) \X (0..(d - 1)) /\ M \in Nat \ {0}
      /\ \A mb \in DOMAIN grid : \A k \in 1..b.rows :
            /\ spot[mb][k] \in Nat \ {0}
            /\ spot[mb][k] <= R => grid[mb][k] = rows[spot[mb][k]]
            /\ spot[mb][k] > R => grid[mb][k] = none
      /\ \A mb, other \in DOMAIN grid : \A k, l \in 1..b.rows :
            spot[mb][k] = spot[other][l] => mb = other /\ k = l
      /\ \A mb \in DOMAIN grid : spot[mb][1] <= M * d
  BY Zenon DEF GridOf
<1>2. R \in Nat /\ b.rows \in Nat \ {0} /\ d \in Nat \ {0}
  BY RowMarks DEF Batching
<1>3. \A p : p \in real <=> p \in (DOMAIN grid) \X (1..b.rows) /\ grid[p[1]][p[2]] # none
  BY DEF RealRows
<1>4. \A c \in 1..b.seqLen : none[c].trained = FALSE
  BY PaddingRow
<1>5. \A i \in 1..R : rows[i] # none
  <2>1. \A i \in 1..R : \E c \in 1..b.seqLen : rows[i][c].trained = TRUE
    BY DEF RowsTrain
  <2> HIDE DEF none
  <2> QED  BY <1>4, <2>1
<1> HIDE DEF real, R, d, none
<1>6. Cardinality(real) <= R
  <2> DEFINE g == [p \in real |-> spot[p[1]][p[2]]]
  <2>1. \A p \in real : p[1] \in DOMAIN grid /\ p[2] \in 1..b.rows /\ p = <<p[1], p[2]>>
    BY <1>3
  <2>2. \A p \in real : spot[p[1]][p[2]] \in 1..R
    <3> SUFFICES ASSUME NEW p \in real PROVE spot[p[1]][p[2]] \in 1..R
      OBVIOUS
    <3> DEFINE i == spot[p[1]][p[2]]
    <3>1. i \in Nat \ {0} /\ (i > R => grid[p[1]][p[2]] = none)
      BY <1>1, <2>1
    <3>2. grid[p[1]][p[2]] # none
      BY <1>3
    <3> HIDE DEF i
    <3>3. i \in 1..R
      BY <1>2, <3>1, <3>2
    <3> QED  BY <3>3 DEF i
  <2>3. \A p, q \in real : spot[p[1]][p[2]] = spot[q[1]][q[2]] => p = q
    <3> SUFFICES ASSUME NEW p \in real, NEW q \in real, spot[p[1]][p[2]] = spot[q[1]][q[2]] PROVE p = q
      OBVIOUS
    <3>1. p[1] = q[1] /\ p[2] = q[2]
      BY <1>1, <2>1
    <3> QED  BY <2>1, <3>1
  <2>4. g \in Injection(real, 1..R)
    BY <2>2, <2>3 DEF Injection, IsInjective
  <2>5. IsFiniteSet(1..R) /\ Cardinality(1..R) = R
    <3>1. 1 \in Int /\ R \in Int /\ (IF 1 > R THEN 0 ELSE R - 1 + 1) = R
      BY <1>2
    <3> QED  BY <3>1, FS_Interval
  <2> HIDE DEF g
  <2> QED  BY <2>4, <2>5, FS_Injection
<1>7. Cardinality(DOMAIN grid) = M * d
  <2>1. /\ IsFiniteSet(0..(M - 1)) /\ Cardinality(0..(M - 1)) = M
        /\ IsFiniteSet(0..(d - 1)) /\ Cardinality(0..(d - 1)) = d
    <3>1. M \in Nat \ {0} /\ d \in Nat \ {0}
      BY <1>1, <1>2
    <3> QED  BY <3>1, UpToFinite
  <2> DEFINE S == 0..(M - 1)
             T == 0..(d - 1)
  <2> HIDE DEF S, T
  <2>2. Cardinality(S \X T) = Cardinality(S) * Cardinality(T)
    BY <2>1, FS_Product DEF S, T
  <2> QED  BY <1>1, <2>1, <2>2 DEF S, T
<1>8. IsFiniteSet(real) /\ Cardinality(real) \in Nat
  <2>1. IsFiniteSet(0..(M - 1)) /\ IsFiniteSet(0..(d - 1)) /\ IsFiniteSet(1..b.rows)
    <3>1. M \in Nat \ {0} /\ d \in Nat \ {0} /\ 1 \in Int /\ b.rows \in Int
      BY <1>1, <1>2
    <3> QED  BY <3>1, UpToFinite, FS_Interval
  <2>2. IsFiniteSet((0..(M - 1)) \X (0..(d - 1)))
    BY <2>1, FS_Product
  <2>3. IsFiniteSet((DOMAIN grid) \X (1..b.rows))
    <3> DEFINE S == DOMAIN grid
               T == 1..b.rows
    <3>1. IsFiniteSet(S) /\ IsFiniteSet(T)
      BY <1>1, <2>1, <2>2
    <3> HIDE DEF S, T
    <3>2. IsFiniteSet(S \X T)
      BY <3>1, FS_Product
    <3> QED  BY <3>2 DEF S, T
  <2>4. real \in SUBSET ((DOMAIN grid) \X (1..b.rows))
    BY <1>3
  <2> QED  BY <2>3, <2>4, FS_Subset, FS_CardinalityType
<1>9. ASSUME Cardinality(real) >= Cardinality(DOMAIN grid), NEW mb \in DOMAIN grid
      PROVE  \E p \in real : p[1] = mb
  <2> DEFINE i == spot[mb][1]
             w == M * d
  <2>1. 1 \in 1..b.rows
    BY <1>2
  <2>2. i \in Nat \ {0} /\ (i <= R => grid[mb][1] = rows[i]) /\ i <= w /\ w \in Nat
    BY <1>1, <1>2, <2>1
  <2>3. R >= w
    BY <1>6, <1>7, <1>8, <1>9, <1>2, <2>2
  <2> HIDE DEF i, w
  <2>4. i \in 1..R
    BY <1>2, <2>2, <2>3
  <2>5. grid[mb][1] # none
    BY <1>2, <1>5, <2>2, <2>4
  <2>6. <<mb, 1>> \in (DOMAIN grid) \X (1..b.rows) /\ <<mb, 1>>[1] = mb /\ <<mb, 1>>[2] = 1
    BY <2>1
  <2>7. <<mb, 1>> \in real
    BY <1>3, <2>5, <2>6
  <2> QED  BY <2>6, <2>7
<1> QED  BY <1>9 DEF Busy, real

\* What a batch makes of what was said.
Delivered(grid, valid, said, b) ==
    LET places == BatchPlaces(grid, b)
        seen == {Seen(grid[p[1]][p[2]], p[3]) : p \in places}
    IN  /\ seen \subseteq said
        /\ Cardinality(seen) = Cardinality(places)
        /\ valid = Cardinality(places)
        /\ Busy(grid, b)
AllDelivered(grid, said, b) ==
    {Seen(grid[p[1]][p[2]], p[3]) : p \in BatchPlaces(grid, b)} = said

\* A batch packed from sound samples delivers them, and all of them if they fit.
LEMMA PackedSound ==
    ASSUME NEW X, Marked(X), NEW b, Batching(b), NEW made \in Seq(Seq(X)), NEW said, Sound(made, said)
    PROVE  LET rows == PackedRows(KeptSamples(made, b), b)
               grid == MicrobatchGrid(rows, b)
           IN  /\ Delivered(grid, ValidTokens(rows, b), said, b)
               /\ All(made, said) /\ (\A j \in 1..Len(made) : FitsRow(made[j], b)) =>
                     AllDelivered(grid, said, b)
<1> DEFINE kept == KeptSamples(made, b)
           rows == PackedRows(kept, b)
           grid == MicrobatchGrid(rows, b)
           fit == \A j \in 1..Len(made) : FitsRow(made[j], b)
<1>1. /\ kept \in Seq(Seq(X)) /\ Sound(kept, said)
      /\ \A p \in 1..Len(kept) : FitsRow(kept[p], b)
      /\ fit /\ All(made, said) => All(kept, said)
  <2> DEFINE S == Seq(X)
  <2>1. made \in Seq(S)
    OBVIOUS
  <2> HIDE DEF S
  <2>2. /\ kept \in Seq(S) /\ Sound(kept, said)
        /\ \A p \in 1..Len(kept) : FitsRow(kept[p], b)
        /\ fit /\ All(made, said) => All(kept, said)
    BY <2>1, KeptSound
  <2> QED  BY <2>2 DEF S
<1> HIDE DEF kept, fit
<1>2. (\A k \in 1..Len(kept) : Whole(kept[k])) /\ Once(kept)
  BY <1>1 DEF Sound
<1>3. kept \in Seq(Packable(X))
  <2>1. \A k \in 1..Len(kept) : kept[k] \in Packable(X)
    <3> SUFFICES ASSUME NEW k \in 1..Len(kept) PROVE kept[k] \in Packable(X)
      OBVIOUS
    <3>1. kept[k] \in Seq(X)
      BY <1>1, ElementOfSeq
    <3>2. Len(kept[k]) \in Nat \ {0}
      BY <1>2 DEF Whole
    <3> QED  BY <3>1, <3>2 DEF Packable
  <2>2. Len(kept) \in Nat /\ kept = [k \in 1..Len(kept) |-> kept[k]]
    BY <1>1, LenProperties
  <2>3. kept \in [1..Len(kept) -> Packable(X)]
    BY <2>1, <2>2
  <2> QED  BY <2>2, <2>3, FunctionIsSeq
<1>4. RowsTrain(RowCells(X), rows, kept, b.seqLen)
  BY <1>1, <1>2, <1>3, PackedRowsAre
<1> HIDE DEF rows
<1>5. rows \in Seq(Seq(RowCells(X))) /\ b.rows \in Nat \ {0} /\ b.ranks \in Nat \ {0}
  BY <1>4 DEF RowsTrain, Batching
<1>6. \E M, spot : GridOf(grid, M, b, rows, Len(rows), spot)
  <2> DEFINE Y == Seq(RowCells(X))
  <2>1. rows \in Seq(Y)
    BY <1>5
  <2> HIDE DEF Y
  <2> QED  BY <1>5, <2>1, GridIs
<1>7. PICK M, spot : GridOf(grid, M, b, rows, Len(rows), spot)
  BY <1>6
<1> HIDE DEF grid
<1> DEFINE places == BatchPlaces(grid, b)
           seen == {Seen(grid[p[1]][p[2]], p[3]) : p \in places}
<1>8. /\ seen \subseteq said
      /\ All(kept, said) => seen = said
      /\ Cardinality(seen) = Cardinality(places)
  <2>1. Batching(b) /\ Sound(kept, said)
    BY <1>1
  <2>2. TrainsAs(grid, b, kept, said)
    BY <1>4, <1>7, <2>1, BatchTrains
  <2> QED  BY <2>2 DEF TrainsAs
<1>9. ValidTokens(rows, b) = Cardinality(places)
  BY <1>4, <1>7, ValidTokensCount
<1>10. Busy(grid, b)
  BY <1>4, <1>7, RanksAreBusy
<1>11. Delivered(grid, ValidTokens(rows, b), said, b)
  BY <1>8, <1>9, <1>10 DEF Delivered
<1>12. fit /\ All(made, said) => AllDelivered(grid, said, b)
  BY <1>1, <1>8 DEF AllDelivered
<1> QED  BY <1>11, <1>12 DEF grid, rows, kept, fit

-----------------------------------------------------------------------------
(***************************************************************************)
(* The samples of a group.                                                 *)
(***************************************************************************)

\* Rollouts that can be scored together: no two sample the same token.
Rolled(K, rolls, n) ==
    /\ n \in Nat /\ DOMAIN rolls = 1..n
    /\ \A i \in 1..n : Handed(K, rolls[i].turns)
    /\ \A i, j \in 1..n :
          \A v \in SaidBy(rolls[i].turns, Len(rolls[i].turns), rolls[i].advantage),
             w \in SaidBy(rolls[j].turns, Len(rolls[j].turns), rolls[j].advantage) :
             v.token = w.token => i = j

MadeFrom(roll) == RolloutToTrainingSamples(roll.turns, roll.advantage)
MadeOf(rolls) == FlattenSeq([i \in DOMAIN rolls |-> MadeFrom(rolls[i])])
SaidIn(roll) == SaidBy(roll.turns, Len(roll.turns), roll.advantage)
SaidByAll(rolls, n) == UNION {SaidIn(rolls[i]) : i \in 1..n}
GroupCells(K, rolls, n) == UNION {Cells(K, rolls[i].advantage) : i \in 1..n}

\* A sequence of samples over some cells is one over more cells.
LEMMA SeqOfMore ==
    ASSUME NEW S, NEW T, S \subseteq T, NEW seqs \in Seq(Seq(S))
    PROVE  seqs \in Seq(Seq(T))
<1>1. Seq(S) \subseteq Seq(T)
  BY SeqMonotonic
<1> DEFINE A == Seq(S)
           B == Seq(T)
<1>2. A \subseteq B /\ seqs \in Seq(A)
  BY <1>1
<1> HIDE DEF A, B
<1>3. seqs \in Seq(B)
  BY <1>2, SeqMonotonic
<1> QED  BY <1>3 DEF B

\* What is known of the samples of a group.
WellMade(K, rolls, n) ==
    LET X == GroupCells(K, rolls, n)
    IN  /\ MadeOf(rolls) \in Seq(Seq(X)) /\ Marked(X)
        /\ Sound(MadeOf(rolls), SaidByAll(rolls, n)) /\ All(MadeOf(rolls), SaidByAll(rolls, n))
        /\ \A j \in 1..Len(MadeOf(rolls)) : \E i \in 1..n : \E k \in DOMAIN MadeFrom(rolls[i]) :
              MadeOf(rolls)[j] = MadeFrom(rolls[i])[k]

\* The samples of a rolled group are sound and train all its siblings said.
LEMMA GroupSamples ==
    ASSUME NEW K, NEW rolls, NEW n, Rolled(K, rolls, n)
    PROVE  WellMade(K, rolls, n)
<1> DEFINE X == GroupCells(K, rolls, n)
           parts == [i \in 1..n |-> MadeFrom(rolls[i])]
           said == [i \in 1..n |-> SaidIn(rolls[i])]
           made == MadeOf(rolls)
<1>1. /\ n \in Nat /\ DOMAIN rolls = 1..n
      /\ \A i \in 1..n : Handed(K, rolls[i].turns)
      /\ \A i, j \in 1..n : \A v \in said[i], w \in said[j] : v.token = w.token => i = j
  BY DEF Rolled, SaidIn
<1>2. made = FlattenSeq(parts)
  BY <1>1 DEF MadeOf
<1>3. ASSUME NEW i \in 1..n
      PROVE  /\ MadeFrom(rolls[i]) \in Seq(Seq(X))
             /\ Sound(MadeFrom(rolls[i]), SaidIn(rolls[i])) /\ All(MadeFrom(rolls[i]), SaidIn(rolls[i]))
  <2> DEFINE ts == rolls[i].turns
             a == rolls[i].advantage
             Z == Cells(K, a)
  <2>1. Handed(K, ts) /\ Z \subseteq X
    BY <1>1 DEF GroupCells
  <2> HIDE DEF ts, X
  <2>2. /\ RolloutToTrainingSamples(ts, a) \in Seq(Seq(Z))
        /\ Sound(RolloutToTrainingSamples(ts, a), SaidBy(ts, Len(ts), a))
        /\ All(RolloutToTrainingSamples(ts, a), SaidBy(ts, Len(ts), a))
    BY <2>1, RolloutSamples
  <2>3. RolloutToTrainingSamples(ts, a) \in Seq(Seq(X))
    BY <2>1, <2>2, SeqOfMore
  <2> QED  BY <2>2, <2>3 DEF MadeFrom, SaidIn, ts
<1>4. Marked(X)
  BY DEF Marked, GroupCells, Cells
<1>5. SaidByAll(rolls, n) = UNION {said[i] : i \in 1..n}
  BY DEF SaidByAll
<1>6. /\ parts \in [1..n -> Seq(Seq(X))]
      /\ \A i \in 1..n : parts[i] = MadeFrom(rolls[i]) /\ said[i] = SaidIn(rolls[i])
  BY <1>3
<1> HIDE DEF X, parts, said, made
<1>7. parts \in Seq(Seq(Seq(X))) /\ Len(parts) = n
  BY <1>1, <1>6, FunctionIsSeq
<1>8. \A i \in 1..n : parts[i] \in Seq(Seq(X)) /\ Sound(parts[i], said[i]) /\ All(parts[i], said[i])
  BY <1>3, <1>6
<1>9. made \in Seq(Seq(X)) /\ \E start : Joined(parts, made, start)
  <2> DEFINE S == Seq(X)
  <2>1. parts \in Seq(Seq(S))
    BY <1>7
  <2> HIDE DEF S
  <2>2. FlattenSeq(parts) \in Seq(S) /\ \E start : Joined(parts, FlattenSeq(parts), start)
    BY <2>1, FlattenPlaces
  <2> QED  BY <1>2, <2>2 DEF S
<1>10. Sound(made, SaidByAll(rolls, n)) /\ All(made, SaidByAll(rolls, n))
  <2> DEFINE S == Seq(X)
             whole == UNION {said[i] : i \in 1..Len(parts)}
  <2>1. parts \in Seq(Seq(S))
    BY <1>7
  <2>2. \A i \in 1..Len(parts) : Sound(parts[i], said[i])
    BY <1>7, <1>8
  <2>3. \A i, j \in 1..Len(parts) : \A v \in said[i], w \in said[j] : v.token = w.token => i = j
    BY <1>1, <1>7
  <2>4. \A i \in 1..Len(parts) : All(parts[i], said[i])
    BY <1>7, <1>8
  <2>5. whole = SaidByAll(rolls, n)
    BY <1>5, <1>7
  <2> HIDE DEF S
  <2>6. /\ Sound(FlattenSeq(parts), whole)
        /\ (\A i \in 1..Len(parts) : All(parts[i], said[i])) => All(FlattenSeq(parts), whole)
    BY <2>1, <2>2, <2>3, FlattenSound
  <2> HIDE DEF whole
  <2> QED  BY <1>2, <2>4, <2>5, <2>6
<1>11. ASSUME NEW j \in 1..Len(made)
       PROVE  \E i \in 1..n : \E k \in DOMAIN MadeFrom(rolls[i]) : made[j] = MadeFrom(rolls[i])[k]
  <2>1. PICK start : Joined(parts, made, start)
    BY <1>9
  <2>2. PICK i \in 1..n : \E k \in 1..Len(parts[i]) : j = start[i] + k
    BY <1>7, <2>1 DEF Joined
  <2>3. PICK k \in 1..Len(parts[i]) : j = start[i] + k
    BY <2>2
  <2>4. made[j] = parts[i][k]
    BY <1>7, <2>1, <2>3 DEF Joined
  <2>5. k \in DOMAIN parts[i]
    BY <1>8, LenProperties
  <2> QED  BY <1>6, <2>4, <2>5
<1> QED  BY <1>4, <1>9, <1>10, <1>11 DEF WellMade, X, made

-----------------------------------------------------------------------------
(***************************************************************************)
(* The invariant.                                                          *)
(***************************************************************************)
Token == {"prompt", "completion", "reply", "edited"} \X Nat \X Nat \X Nat
TurnSet == [prompt : Seq(Token), completion : Seq(Token), logprobs : Seq(Token)]

\* What the generator answers turn t of sibling i with.
Completes(c, i, t) == \E n \in Nat : c = [k \in 1..n |-> CompletionToken(i, t, k)]

Recorded(turn, i, t) ==
    /\ turn.prompt \in Seq(Token) /\ turn.prompt # <<>>
    /\ Completes(turn.completion, i, t)
    /\ turn.logprobs = turn.completion

Opened == opening \in Seq(Token) /\ opening # <<>>
Prompted ==
    /\ prompt \in [Siblings -> Seq(Token)]
    /\ \A i \in Siblings : at[i] \in {"generate", "step"} => prompt[i] # <<>>
Answered ==
    /\ DOMAIN answer = Siblings /\ answer = [i \in Siblings |-> answer[i]]
    /\ \A i \in Siblings : at[i] = "step" => Completes(answer[i].tokens, i, Len(turns[i]) + 1)
Turned ==
    /\ turns \in [Siblings -> Seq(TurnSet)]
    /\ \A i \in Siblings : \A t \in 1..Len(turns[i]) : Recorded(turns[i][t], i, t)
SiblingInv == GroupTypeOK /\ Opened /\ Prompted /\ Answered /\ Turned

\* Every recorded turn said something.
Spoke(ts) == \A t \in 1..Len(ts) : ts[t].completion # <<>>
AllSpoke(rolls) == \A i \in DOMAIN rolls : Spoke(rolls[i].turns)

\* Once the group is scored no rollout changes, and what comes after is
\* computed from the rollouts.
Scored ==
    rollouts # <<>> =>
        /\ group # "rolling" /\ DOMAIN rollouts = Siblings
        /\ \A i \in Siblings : rollouts[i].turns = turns[i]
Built == group = "built" => rollouts # <<>> /\ AllSpoke(rollouts) /\ samples = MadeOf(rollouts)
Packed ==
    group = "packed" =>
        LET rows == PackedRows(KeptSamples(MadeOf(rollouts), batchConfig), batchConfig)
        IN  /\ rollouts # <<>> /\ AllSpoke(rollouts)
            /\ batch = MicrobatchGrid(rows, batchConfig)
            /\ validTokens = ValidTokens(rows, batchConfig)
GroupInv == (group # "rolling" => AllEnded) /\ Scored /\ Built /\ Packed

RolloutInv == SiblingInv /\ GroupInv

\* The tokens of the model.
LEMMA TokensAre ==
    /\ \A k \in Nat : PromptToken(k) \in Token
    /\ \A i \in Siblings : \A t, k \in Nat : CompletionToken(i, t, k) \in Token
    /\ \A i \in Siblings : \A t \in Nat : EnvToken(i, t) \in Token
    /\ \A x \in Token : Edited(x) \in Token
<1>1. Siblings \subseteq Nat /\ 0 \in Nat /\ 1 \in Nat
  BY DEF Siblings
<1>2. ASSUME NEW x \in Token PROVE Edited(x) \in Token
  <2>1. PICK s \in {"prompt", "completion", "reply", "edited"}, u \in Nat, v \in Nat, w \in Nat :
           x = <<s, u, v, w>>
    BY DEF Token
  <2>2. Edited(x) = <<"edited", u, v, w>>
    BY <2>1 DEF Edited
  <2> QED  BY <2>2 DEF Token
<1> QED  BY <1>1, <1>2 DEF Token, PromptToken, CompletionToken, EnvToken

\* A completion is a sequence of the tokens of its turn.
LEMMA CompletionIs ==
    ASSUME NEW c, NEW i \in Siblings, NEW t \in Nat, Completes(c, i, t)
    PROVE  /\ c \in Seq(Token)
           /\ DOMAIN c \subseteq Nat /\ \A k \in DOMAIN c : c[k] = CompletionToken(i, t, k)
<1>1. PICK n \in Nat : c = [k \in 1..n |-> CompletionToken(i, t, k)]
  BY DEF Completes
<1>2. \A k \in 1..n : CompletionToken(i, t, k) \in Token
  BY TokensAre
<1>3. c \in [1..n -> Token] /\ DOMAIN c = 1..n /\ \A k \in 1..n : c[k] = CompletionToken(i, t, k)
  BY <1>1, <1>2
<1>4. c \in Seq(Token) /\ Len(c) = n
  BY <1>3, FunctionIsSeq
<1> QED  BY <1>3, <1>4

\* A completion token names its sibling, its turn and its place.
LEMMA CompletionOnce ==
    ASSUME NEW i, NEW j, NEW t, NEW u, NEW k, NEW l, CompletionToken(i, t, k) = CompletionToken(j, u, l)
    PROVE  i = j /\ t = u /\ k = l
BY DEF CompletionToken

\* The turns of a rollout are turns its samples can be made of.
LEMMA TurnsAreHanded ==
    ASSUME Turned, NEW i \in Siblings, Spoke(turns[i])
    PROVE  /\ Handed(Token, turns[i])
           /\ \A a : \A v \in SaidBy(turns[i], Len(turns[i]), a) :
                 \E t, k \in Nat : v.token = CompletionToken(i, t, k)
<1> DEFINE ts == turns[i]
<1>1. ts \in Seq(TurnSet) /\ \A t \in 1..Len(ts) : Recorded(ts[t], i, t)
  BY DEF Turned
<1> HIDE DEF ts
<1>2. Len(ts) \in Nat /\ \A t \in 1..Len(ts) : t \in Nat
  BY <1>1, LenProperties
<1>3. ASSUME NEW t \in 1..Len(ts)
      PROVE  /\ Spoken(Token, ts[t]) /\ DOMAIN ts[t].completion \subseteq Nat
             /\ \A k \in DOMAIN ts[t].completion : ts[t].completion[k] = CompletionToken(i, t, k)
  <2> DEFINE c == ts[t].completion
  <2>1. Recorded(ts[t], i, t) /\ t \in Nat
    BY <1>1, <1>2
  <2>2. Completes(c, i, t)
    BY <2>1 DEF Recorded
  <2> HIDE DEF c
  <2>3. /\ c \in Seq(Token)
        /\ DOMAIN c \subseteq Nat /\ \A k \in DOMAIN c : c[k] = CompletionToken(i, t, k)
    BY <2>1, <2>2, CompletionIs
  <2>4. c # <<>>
    BY DEF Spoke, ts, c
  <2> QED  BY <2>1, <2>3, <2>4 DEF Spoken, Recorded, c
<1>4. ASSUME NEW t \in 1..Len(ts), NEW u \in 1..Len(ts),
             NEW l \in DOMAIN ts[t].completion, NEW k \in DOMAIN ts[u].completion,
             ts[t].completion[l] = ts[u].completion[k]
      PROVE  t = u /\ l = k
  <2>1. CompletionToken(i, t, l) = CompletionToken(i, u, k)
    BY <1>3, <1>4
  <2> QED  BY <2>1, CompletionOnce
<1>5. Handed(Token, ts)
  BY <1>2, <1>3, <1>4 DEF Handed
<1>6. ASSUME NEW a, NEW v \in SaidBy(ts, Len(ts), a)
      PROVE  \E t, k \in Nat : v.token = CompletionToken(i, t, k)
  <2>1. PICK t \in 1..Len(ts) : v \in Says(ts[t], a)
    BY <1>6 DEF SaidBy
  <2>2. PICK k \in DOMAIN ts[t].completion : v = SampledAt(ts[t], k, a)
    BY <2>1 DEF Says
  <2>3. v.token = ts[t].completion[k]
    BY <2>2 DEF SampledAt
  <2> QED  BY <1>2, <1>3, <2>3
<1> QED  BY <1>5, <1>6 DEF ts

\* The rollouts of a scored group can be made into samples together.
LEMMA GroupIsRolled ==
    ASSUME Turned, Scored, rollouts # <<>>, AllSpoke(rollouts)
    PROVE  Rolled(Token, rollouts, GroupSize)
<1>1. GroupSize \in Nat /\ DOMAIN rollouts = 1..GroupSize
  BY RolloutAssumption DEF Scored, Siblings
<1>2. \A i \in 1..GroupSize :
         i \in Siblings /\ rollouts[i].turns = turns[i] /\ Spoke(turns[i])
  BY DEF Scored, Siblings, AllSpoke
<1>3. \A i \in 1..GroupSize : Handed(Token, rollouts[i].turns)
  BY <1>2, TurnsAreHanded
<1>4. ASSUME NEW i \in 1..GroupSize, NEW j \in 1..GroupSize, NEW v \in SaidIn(rollouts[i]),
             NEW w \in SaidIn(rollouts[j]), v.token = w.token
      PROVE  i = j
  <2>1. /\ v \in SaidBy(turns[i], Len(turns[i]), rollouts[i].advantage)
        /\ w \in SaidBy(turns[j], Len(turns[j]), rollouts[j].advantage)
    BY <1>2, <1>4 DEF SaidIn
  <2>2. PICK t, k \in Nat : v.token = CompletionToken(i, t, k)
    BY <1>2, <2>1, TurnsAreHanded
  <2>3. PICK u, l \in Nat : w.token = CompletionToken(j, u, l)
    BY <1>2, <2>1, TurnsAreHanded
  <2>4. CompletionToken(i, t, k) = CompletionToken(j, u, l)
    BY <1>4, <2>2, <2>3
  <2> QED  BY <2>4, CompletionOnce
<1> QED  BY <1>1, <1>3, <1>4 DEF Rolled, SaidIn

\* The batcher's configuration is one.
LEMMA ConfigIs ==
    ASSUME batchConfig \in BatchConfigs
    PROVE  Batching(batchConfig)
<1>1. batchConfig \in [seqLen : Nat \ {0}, rows : Nat \ {0}, ranks : Nat \ {0}, multiple : Nat \ {0}]
  BY RolloutAssumption
<1> QED  BY <1>1 DEF Batching

\* What the invariant says of a packed batch.
LEMMA BatchOfGroup ==
    ASSUME RolloutInv, group = "packed"
    PROVE  /\ Delivered(batch, validTokens, SaidByAll(rollouts, GroupSize), batchConfig)
           /\ AllFit => AllDelivered(batch, SaidByAll(rollouts, GroupSize), batchConfig)
           /\ \A i \in Siblings : Sampled(i) = SaidIn(rollouts[i])
<1> DEFINE made == MadeOf(rollouts)
           b == batchConfig
           said == SaidByAll(rollouts, GroupSize)
           X == GroupCells(Token, rollouts, GroupSize)
           rows == PackedRows(KeptSamples(made, b), b)
<1>1. /\ rollouts # <<>> /\ AllSpoke(rollouts)
      /\ batch = MicrobatchGrid(rows, b) /\ validTokens = ValidTokens(rows, b)
  BY DEF RolloutInv, GroupInv, Packed
<1>2. Turned /\ Scored /\ Batching(b)
  BY ConfigIs DEF RolloutInv, SiblingInv, GroupInv, GroupTypeOK
<1>3. Rolled(Token, rollouts, GroupSize)
  BY <1>1, <1>2, GroupIsRolled
<1>4. /\ made \in Seq(Seq(X)) /\ Marked(X) /\ Sound(made, said) /\ All(made, said)
      /\ \A j \in 1..Len(made) : \E i \in 1..GroupSize : \E k \in DOMAIN MadeFrom(rollouts[i]) :
            made[j] = MadeFrom(rollouts[i])[k]
  <2>1. WellMade(Token, rollouts, GroupSize)
    BY <1>3, GroupSamples
  <2> QED  BY <2>1 DEF WellMade
<1>5. AllFit => \A j \in 1..Len(made) : FitsRow(made[j], b)
  <2> SUFFICES ASSUME AllFit, NEW j \in 1..Len(made) PROVE FitsRow(made[j], b)
    OBVIOUS
  <2> HIDE DEF made
  <2>1. PICK i \in 1..GroupSize : \E k \in DOMAIN MadeFrom(rollouts[i]) :
            made[j] = MadeFrom(rollouts[i])[k]
    BY <1>4
  <2>2. PICK k \in DOMAIN MadeFrom(rollouts[i]) : made[j] = MadeFrom(rollouts[i])[k]
    BY <2>1
  <2>3. i \in DOMAIN rollouts
    BY <1>1, <1>2 DEF Scored, Siblings
  <2>4. FitsRow(MadeFrom(rollouts[i])[k], b)
    BY <2>2, <2>3 DEF AllFit, MadeFrom
  <2> QED  BY <2>2, <2>4
<1>6. \A i \in Siblings : Sampled(i) = SaidIn(rollouts[i])
  <2> SUFFICES ASSUME NEW i \in Siblings PROVE Sampled(i) = SaidIn(rollouts[i])
    OBVIOUS
  <2>1. rollouts[i].turns = turns[i]
    BY <1>1, <1>2 DEF Scored
  <2>2. turns[i] \in Seq(TurnSet)
    BY <1>2 DEF Turned
  <2>3. DOMAIN turns[i] = 1..Len(turns[i])
    BY <2>2, LenProperties
  <2> QED  BY <2>1, <2>3 DEF Sampled, SaidIn, SaidBy, Says
<1> HIDE DEF made, b, said, X
<1>7. /\ Delivered(MicrobatchGrid(rows, b), ValidTokens(rows, b), said, b)
      /\ All(made, said) /\ (\A j \in 1..Len(made) : FitsRow(made[j], b)) =>
            AllDelivered(MicrobatchGrid(rows, b), said, b)
  BY <1>2, <1>4, PackedSound
<1> QED  BY <1>1, <1>4, <1>5, <1>6, <1>7 DEF b, said

\* The invariant gives TrainedInContext.
LEMMA InvTrained ==
    RolloutInv => TrainedInContext
<1> SUFFICES ASSUME RolloutInv, group = "packed"
             PROVE  /\ TrainedCells \subseteq UNION {Sampled(i) : i \in Siblings}
                    /\ AllFit => TrainedCells = UNION {Sampled(i) : i \in Siblings}
                    /\ Cardinality(TrainedCells) = Cardinality(Places)
                    /\ validTokens = Cardinality(Places)
  BY DEF TrainedInContext
<1> DEFINE said == SaidByAll(rollouts, GroupSize)
<1>1. /\ Delivered(batch, validTokens, said, batchConfig)
      /\ AllFit => AllDelivered(batch, said, batchConfig)
      /\ \A i \in Siblings : Sampled(i) = SaidIn(rollouts[i])
  BY BatchOfGroup
<1>2. said = UNION {Sampled(i) : i \in Siblings}
  BY <1>1 DEF SaidByAll, Siblings
<1>3. Places = BatchPlaces(batch, batchConfig)
  BY DEF Places, BatchPlaces
<1>4. TrainedCells = {Seen(batch[p[1]][p[2]], p[3]) : p \in BatchPlaces(batch, batchConfig)}
  BY <1>3 DEF TrainedCells
<1> HIDE DEF said
<1>5. /\ TrainedCells \subseteq said /\ Cardinality(TrainedCells) = Cardinality(Places)
      /\ validTokens = Cardinality(Places)
  BY <1>1, <1>3, <1>4 DEF Delivered
<1>6. AllFit => TrainedCells = said
  BY <1>1, <1>4 DEF AllDelivered
<1> QED  BY <1>2, <1>5, <1>6

\* The invariant gives NoRankIdles.
LEMMA InvBusy ==
    RolloutInv => NoRankIdles
<1> SUFFICES ASSUME RolloutInv, group = "packed" PROVE NoRankIdles
  BY DEF NoRankIdles
<1>1. Busy(batch, batchConfig)
  BY BatchOfGroup DEF Delivered
<1> QED  BY <1>1 DEF Busy, RealRows, NoRankIdles

-----------------------------------------------------------------------------
(***************************************************************************)
(* The steps.                                                              *)
(***************************************************************************)
\* The opening prompt is a prompt.
LEMMA OpeningIs ==
    GroupInit => Opened
<1> SUFFICES ASSUME GroupInit PROVE Opened
  OBVIOUS
<1>1. PICK n \in FirstPrompts : opening = [k \in 1..n |-> PromptToken(k)]
  BY DEF GroupInit
<1>2. n \in Nat /\ n # 0
  BY RolloutAssumption
<1>3. \A k \in 1..n : PromptToken(k) \in Token
  BY TokensAre
<1>4. opening \in [1..n -> Token]
  BY <1>1, <1>3
<1>5. opening \in Seq(Token) /\ Len(opening) = n
  BY <1>2, <1>4, FunctionIsSeq
<1> QED  BY <1>2, <1>5, EmptySeq DEF Opened

\* The invariant holds at the start.
LEMMA StartsRight ==
    GroupInit => RolloutInv
<1> SUFFICES ASSUME GroupInit PROVE RolloutInv
  OBVIOUS
<1>1. GroupTypeOK
  BY DEF GroupInit, GroupTypeOK
<1>2. Opened
  BY OpeningIs
<1>3. Prompted
  <2>1. <<>> \in Seq(Token)
    BY EmptySeq
  <2> QED  BY <2>1 DEF GroupInit, Prompted
<1>4. Answered
  BY DEF GroupInit, Answered
<1>5. Turned
  <2>1. <<>> \in Seq(TurnSet) /\ Len(<<>>) = 0
    BY EmptySeq
  <2>2. turns \in [Siblings -> Seq(TurnSet)]
    BY <2>1 DEF GroupInit
  <2>3. \A i \in Siblings : 1..Len(turns[i]) = {}
    BY <2>1 DEF GroupInit
  <2> QED  BY <2>2, <2>3 DEF Turned
<1>6. GroupInv
  BY DEF GroupInit, GroupInv, Scored, Built, Packed
<1> QED  BY <1>1, <1>2, <1>3, <1>4, <1>5, <1>6 DEF RolloutInv, SiblingInv

\* While a coroutine runs, the group is rolling and nothing is scored.
LEMMA StillRolling ==
    ASSUME RolloutInv, NEW i \in Siblings, at[i] # "ended", UNCHANGED Later
    PROVE  GroupInv' /\ group = "rolling" /\ rollouts = <<>>
<1>1. group = "rolling"
  BY DEF RolloutInv, GroupInv, AllEnded
<1>2. rollouts = <<>>
  BY <1>1 DEF RolloutInv, GroupInv, Scored
<1>3. group' = "rolling" /\ rollouts' = <<>>
  BY <1>1, <1>2 DEF Later
<1> QED  BY <1>1, <1>2, <1>3 DEF GroupInv, Scored, Built, Packed

\* However the next prompt is rendered, it is a prompt.
LEMMA NextPromptsAre ==
    ASSUME RolloutInv, NEW i \in Siblings, at[i] = "step", NEW p \in NextPrompts(i)
    PROVE  p \in Seq(Token) /\ p # <<>>
<1> DEFINE old == prompt[i]
           said == answer[i].tokens
           t == Len(turns[i]) + 1
           reply == << EnvToken(i, t) >>
           changed == [k \in DOMAIN said |-> Edited(said[k])]
<1>1. turns[i] \in Seq(TurnSet) /\ old \in Seq(Token) /\ opening \in Seq(Token) /\ Completes(said, i, t)
  BY DEF RolloutInv, SiblingInv, Turned, Prompted, Opened, Answered
<1>2. t \in Nat
  BY <1>1, LenProperties
<1>3. p \in {(old \o said) \o reply, old \o changed \o reply, opening \o reply}
  BY DEF NextPrompts
<1> HIDE DEF t, said, old
<1>4. said \in Seq(Token)
  BY <1>1, <1>2, CompletionIs
<1>5. reply \in Seq(Token) /\ Len(reply) = 1
  BY <1>2, TokensAre
<1>6. changed \in Seq(Token)
  <2>1. Len(said) \in Nat /\ DOMAIN said = 1..Len(said) /\ \A k \in 1..Len(said) : said[k] \in Token
    BY <1>4, LenProperties, ElementOfSeq
  <2>2. changed \in [1..Len(said) -> Token]
    BY <2>1, TokensAre
  <2> HIDE DEF changed
  <2> QED  BY <2>1, <2>2, FunctionIsSeq
<1> HIDE DEF reply, changed
<1>7. \A u \in Seq(Token) : u \o reply \in Seq(Token) /\ u \o reply # <<>>
  <2> SUFFICES ASSUME NEW u \in Seq(Token)
               PROVE  u \o reply \in Seq(Token) /\ u \o reply # <<>>
    OBVIOUS
  <2>1. u \o reply \in Seq(Token) /\ Len(u \o reply) = Len(u) + Len(reply)
    BY <1>5, ConcatProperties
  <2>2. Len(u) \in Nat
    BY LenProperties
  <2>3. Len(u \o reply) # 0
    BY <1>5, <2>1, <2>2
  <2> QED  BY <2>1, <2>3, EmptySeq
<1>8. old \o said \in Seq(Token) /\ old \o changed \in Seq(Token)
  BY <1>1, <1>4, <1>6, ConcatProperties
<1> QED  BY <1>1, <1>3, <1>7, <1>8

\* The turn a step records.
LEMMA TurnRecorded ==
    ASSUME RolloutInv, NEW i \in Siblings, at[i] = "step", RecordTurn(i), at'[i] \in {"ended", "generate"},
           \A j \in Siblings \ {i} : at'[j] = at[j]
    PROVE  Turned' /\ Answered'
<1> DEFINE turn == [prompt |-> prompt[i], completion |-> answer[i].tokens, logprobs |-> answer[i].tokens]
           n == Len(turns[i])
           old == turns[i]
<1>1. /\ turns \in [Siblings -> Seq(TurnSet)] /\ old \in Seq(TurnSet)
      /\ \A j \in Siblings : \A t \in 1..Len(turns[j]) : Recorded(turns[j][t], j, t)
  BY DEF RolloutInv, SiblingInv, Turned
<1>2. n \in Nat
  BY <1>1, LenProperties
<1>3. prompt[i] \in Seq(Token) /\ prompt[i] # <<>> /\ Completes(answer[i].tokens, i, n + 1)
  BY DEF RolloutInv, SiblingInv, Prompted, Answered
<1>4. answer[i].tokens \in Seq(Token)
  <2>1. n + 1 \in Nat
    BY <1>2
  <2> HIDE DEF n
  <2> QED  BY <1>3, <2>1, CompletionIs
<1>5. turn \in TurnSet
  BY <1>3, <1>4 DEF TurnSet
<1>6. Recorded(turn, i, n + 1)
  BY <1>3 DEF Recorded
<1>7. turns' = [turns EXCEPT ![i] = Append(old, turn)]
  BY DEF RecordTurn
<1>8. answer' = [answer EXCEPT ![i] = NoAnswer]
  BY DEF RecordTurn
<1> HIDE DEF turn, n
<1>9. /\ Append(old, turn) \in Seq(TurnSet) /\ Len(Append(old, turn)) = n + 1
      /\ \A t \in 1..n : Append(old, turn)[t] = old[t]
      /\ Append(old, turn)[n + 1] = turn
  BY <1>1, <1>5, AppendProperties DEF n
<1>10. turns' \in [Siblings -> Seq(TurnSet)] /\ turns'[i] = Append(old, turn)
       /\ \A j \in Siblings \ {i} : turns'[j] = turns[j]
  BY <1>1, <1>7, <1>9
<1>11. ASSUME NEW j \in Siblings, NEW t \in 1..Len(turns'[j])
       PROVE  Recorded(turns'[j][t], j, t)
  <2>1. CASE j # i
    BY <1>1, <1>10, <2>1
  <2>2. CASE j = i /\ t = n + 1
    BY <1>6, <1>9, <1>10, <2>2
  <2>3. CASE j = i /\ t # n + 1
    <3>1. t \in 1..n
      BY <1>2, <1>9, <1>10, <2>3
    <3>2. turns'[j][t] = turns[j][t] /\ t \in 1..Len(turns[j])
      BY <1>9, <1>10, <2>3, <3>1 DEF n
    <3> QED  BY <1>1, <3>2
  <2> QED  BY <2>1, <2>2, <2>3
<1>12. Turned'
  <2>1. \A j \in Siblings : \A t \in 1..Len(turns'[j]) : Recorded(turns'[j][t], j, t)
    BY <1>11
  <2> QED  BY <1>10, <2>1 DEF Turned
<1>13. Answered'
  <2>1. DOMAIN answer = Siblings
        /\ \A j \in Siblings : at[j] = "step" => Completes(answer[j].tokens, j, Len(turns[j]) + 1)
    BY DEF RolloutInv, SiblingInv, Answered
  <2>2. DOMAIN answer' = Siblings /\ answer' = [j \in Siblings |-> answer'[j]]
        /\ \A j \in Siblings \ {i} : answer'[j] = answer[j]
    BY <1>8, <2>1 DEF RolloutInv, SiblingInv, Answered
  <2>3. ASSUME NEW j \in Siblings, at'[j] = "step"
        PROVE  Completes(answer'[j].tokens, j, Len(turns'[j]) + 1)
    <3>1. j # i
      BY <2>3
    <3> QED  BY <1>10, <2>1, <2>2, <2>3, <3>1
  <2> QED  BY <2>2, <2>3 DEF Answered
<1> QED  BY <1>12, <1>13

-----------------------------------------------------------------------------
\* The opening prompt keeps the invariant.
LEMMA EnvInitKeeps ==
    ASSUME RolloutInv, NEW i \in Siblings, EnvInit(i)
    PROVE  RolloutInv'
<1>1. GroupInv'
  BY StillRolling DEF EnvInit
<1>2. /\ GroupTypeOK /\ Opened /\ Prompted /\ Answered /\ Turned
  BY DEF RolloutInv, SiblingInv
<1>3. /\ at[i] = "init" /\ at' \in [Siblings -> {"init", "generate", "step", "ended"}]
      /\ at'[i] \in {"ended", "generate"} /\ \A j \in Siblings \ {i} : at'[j] = at[j]
  BY <1>2 DEF EnvInit, Terminate, GroupTypeOK
<1>4. GroupTypeOK'
  BY <1>2, <1>3 DEF GroupTypeOK, EnvInit, Later
<1>5. Opened'
  BY <1>2 DEF Opened, EnvInit, Later
<1>6. Prompted'
  BY <1>2, <1>3 DEF Prompted, EnvInit, Opened
<1>7. Answered'
  BY <1>2, <1>3 DEF Answered, EnvInit
<1>8. Turned'
  BY <1>2 DEF Turned, EnvInit
<1> QED  BY <1>1, <1>4, <1>5, <1>6, <1>7, <1>8 DEF RolloutInv, SiblingInv

\* A raising environment or generator keeps the invariant.
LEMMA RaisesKeeps ==
    ASSUME RolloutInv, NEW i \in Siblings, RolloutRaises(i)
    PROVE  RolloutInv'
<1>1. GroupInv'
  BY StillRolling DEF RolloutRaises
<1>2. /\ GroupTypeOK /\ Opened /\ Prompted /\ Answered /\ Turned
  BY DEF RolloutInv, SiblingInv
<1>3. /\ at' \in [Siblings -> {"init", "generate", "step", "ended"}]
      /\ at'[i] = "ended" /\ \A j \in Siblings \ {i} : at'[j] = at[j]
  BY <1>2 DEF RolloutRaises, Terminate, GroupTypeOK
<1>4. GroupTypeOK'
  BY <1>2, <1>3 DEF GroupTypeOK, RolloutRaises, Later
<1>5. Opened'
  BY <1>2 DEF Opened, RolloutRaises, Later
<1>6. Prompted'
  BY <1>2, <1>3 DEF Prompted, RolloutRaises
<1>7. Answered'
  <2>1. DOMAIN answer' = Siblings /\ answer' = [j \in Siblings |-> answer'[j]]
        /\ \A j \in Siblings \ {i} : answer'[j] = answer[j]
    BY <1>2 DEF RolloutRaises, Answered
  <2>2. turns' = turns
    BY DEF RolloutRaises
  <2>3. \A j \in Siblings : at'[j] = "step" => j # i /\ at[j] = "step"
    BY <1>3
  <2> QED  BY <1>2, <2>1, <2>2, <2>3 DEF Answered
<1>8. Turned'
  BY <1>2 DEF Turned, RolloutRaises
<1> QED  BY <1>1, <1>4, <1>5, <1>6, <1>7, <1>8 DEF RolloutInv, SiblingInv

\* A completion keeps the invariant.
LEMMA GenerateKeeps ==
    ASSUME RolloutInv, NEW i \in Siblings, Generate(i)
    PROVE  RolloutInv'
<1>1. GroupInv'
  BY StillRolling DEF Generate
<1>2. /\ GroupTypeOK /\ Opened /\ Prompted /\ Answered /\ Turned
  BY DEF RolloutInv, SiblingInv
<1>3. /\ at' \in [Siblings -> {"init", "generate", "step", "ended"}]
      /\ at[i] = "generate" /\ at'[i] = "step" /\ \A j \in Siblings \ {i} : at'[j] = at[j]
  BY <1>2 DEF Generate, GroupTypeOK
<1>4. GroupTypeOK'
  BY <1>2, <1>3 DEF GroupTypeOK, Generate, Later
<1>5. Opened'
  BY <1>2 DEF Opened, Generate, Later
<1>6. Prompted'
  BY <1>2, <1>3 DEF Prompted, Generate
<1>7. Answered'
  <2>1. PICK n \in CompletionLens[i], finish \in {"stop", "cut"} :
          answer' = [answer EXCEPT ![i] =
              [tokens |-> [k \in 1..n |-> CompletionToken(i, Len(turns[i]) + 1, k)],
               finish |-> finish]]
    BY DEF Generate
  <2>2. n \in Nat
    BY RolloutAssumption DEF Siblings
  <2> DEFINE t == Len(turns[i]) + 1
             said == [k \in 1..n |-> CompletionToken(i, t, k)]
             given == [tokens |-> said, finish |-> finish]
  <2>3. answer' = [answer EXCEPT ![i] = given]
    BY <2>1
  <2> HIDE DEF t
  <2>4. Completes(given.tokens, i, t)
    BY <2>2 DEF Completes
  <2> HIDE DEF given
  <2>5. DOMAIN answer = Siblings /\ answer = [j \in Siblings |-> answer[j]]
    BY <1>2 DEF Answered
  <2>6. DOMAIN answer' = Siblings /\ answer' = [j \in Siblings |-> answer'[j]]
        /\ (\A j \in Siblings \ {i} : answer'[j] = answer[j]) /\ answer'[i] = given
    BY <2>3, <2>5
  <2>7. turns' = turns
    BY DEF Generate
  <2>8. ASSUME NEW j \in Siblings, at'[j] = "step"
        PROVE  Completes(answer'[j].tokens, j, Len(turns'[j]) + 1)
    <3>1. CASE j = i
      BY <2>4, <2>7, <2>6, <3>1 DEF t
    <3>2. CASE j # i
      BY <1>2, <1>3, <2>7, <2>8, <2>6, <3>2 DEF Answered
    <3> QED  BY <3>1, <3>2
  <2> QED  BY <2>8, <2>6 DEF Answered
<1>8. Turned'
  BY <1>2 DEF Turned, Generate
<1> QED  BY <1>1, <1>4, <1>5, <1>6, <1>7, <1>8 DEF RolloutInv, SiblingInv

\* A step that ends the rollout keeps the invariant.
LEMMA EndsKeeps ==
    ASSUME RolloutInv, NEW i \in Siblings, StepEnds(i)
    PROVE  RolloutInv'
<1>1. GroupInv'
  BY StillRolling DEF StepEnds
<1>2. /\ GroupTypeOK /\ Opened /\ Prompted
  BY DEF RolloutInv, SiblingInv
<1>3. /\ at' \in [Siblings -> {"init", "generate", "step", "ended"}]
      /\ at[i] = "step" /\ at'[i] = "ended" /\ \A j \in Siblings \ {i} : at'[j] = at[j]
  BY <1>2 DEF StepEnds, Terminate, GroupTypeOK
<1>4. GroupTypeOK'
  BY <1>2, <1>3 DEF GroupTypeOK, StepEnds, Later
<1>5. Opened'
  BY <1>2 DEF Opened, StepEnds, Later
<1>6. Prompted'
  BY <1>2, <1>3 DEF Prompted, StepEnds
<1>7. Turned' /\ Answered'
  BY <1>3, TurnRecorded DEF StepEnds
<1> QED  BY <1>1, <1>4, <1>5, <1>6, <1>7 DEF RolloutInv, SiblingInv

\* A step after which the rollout may go on keeps the invariant.
LEMMA ContinuesKeeps ==
    ASSUME RolloutInv, NEW i \in Siblings, StepContinues(i)
    PROVE  RolloutInv'
<1>1. GroupInv'
  BY StillRolling DEF StepContinues
<1>2. /\ GroupTypeOK /\ Opened /\ Prompted
  BY DEF RolloutInv, SiblingInv
<1>3. at[i] = "step" /\ RecordTurn(i) /\ UNCHANGED Later
  BY DEF StepContinues
<1>4. \/ Terminate(i) /\ prompt' = prompt
      \/ \E p \in NextPrompts(i) :
            prompt' = [prompt EXCEPT ![i] = p] /\ at' = [at EXCEPT ![i] = "generate"]
  BY DEF StepContinues
<1>5. /\ at' \in [Siblings -> {"init", "generate", "step", "ended"}]
      /\ at'[i] \in {"ended", "generate"} /\ \A j \in Siblings \ {i} : at'[j] = at[j]
  BY <1>2, <1>4 DEF Terminate, GroupTypeOK
<1>6. GroupTypeOK'
  BY <1>2, <1>3, <1>5 DEF GroupTypeOK, Later
<1>7. Opened'
  BY <1>2, <1>3 DEF Opened, Later
<1>8. Prompted'
  <2>1. CASE Terminate(i) /\ prompt' = prompt
    <3>1. at'[i] = "ended"
      BY <1>2, <2>1 DEF Terminate, GroupTypeOK
    <3> QED  BY <1>2, <1>5, <2>1, <3>1 DEF Prompted
  <2>2. CASE \E p \in NextPrompts(i) :
            prompt' = [prompt EXCEPT ![i] = p] /\ at' = [at EXCEPT ![i] = "generate"]
    <3>1. PICK p \in NextPrompts(i) : prompt' = [prompt EXCEPT ![i] = p]
      BY <2>2
    <3>2. p \in Seq(Token) /\ p # <<>>
      BY <1>3, NextPromptsAre
    <3> QED  BY <1>2, <1>5, <3>1, <3>2 DEF Prompted
  <2> QED  BY <1>4, <2>1, <2>2
<1>9. Turned' /\ Answered'
  BY <1>3, <1>5, TurnRecorded
<1> QED  BY <1>1, <1>6, <1>7, <1>8, <1>9 DEF RolloutInv, SiblingInv

\* The steps of the group leave the coroutines alone.
LEMMA CoroutinesKept ==
    ASSUME RolloutInv, UNCHANGED Coroutines,
           group' \in {"rolling", "scored", "raised", "untrainable", "built", "oversized", "packed"}
    PROVE  SiblingInv' /\ AllEnded' = AllEnded
<1>1. /\ batchConfig' = batchConfig /\ opening' = opening /\ at' = at /\ prompt' = prompt
      /\ answer' = answer /\ turns' = turns
  BY DEF Coroutines
<1>2. GroupTypeOK'
  BY <1>1 DEF RolloutInv, SiblingInv, GroupTypeOK
<1>3. Opened' /\ Prompted' /\ Answered' /\ Turned'
  BY <1>1 DEF RolloutInv, SiblingInv, Opened, Prompted, Answered, Turned
<1>4. AllEnded' = AllEnded
  BY <1>1 DEF AllEnded
<1> QED  BY <1>2, <1>3, <1>4 DEF SiblingInv

\* Scoring the group keeps the invariant.
LEMMA ScoreKeeps ==
    ASSUME RolloutInv, ScoreGroup
    PROVE  RolloutInv'
<1>1. SiblingInv' /\ AllEnded'
  BY CoroutinesKept DEF ScoreGroup
<1>2. turns' = turns /\ group' = "scored"
  BY DEF ScoreGroup, Coroutines
<1>3. PICK reward \in Rewards :
          rollouts' = [i \in Siblings |-> [turns |-> turns[i], reward |-> reward[i],
                                           advantage |-> Advantage(reward, i)]]
  BY DEF ScoreGroup
<1>4. DOMAIN rollouts' = Siblings /\ \A i \in Siblings : rollouts'[i].turns = turns'[i]
  BY <1>2, <1>3
<1> QED  BY <1>1, <1>2, <1>4 DEF RolloutInv, GroupInv, Scored, Built, Packed

\* A raising rubric keeps the invariant.
LEMMA ScoreRaisesKeeps ==
    ASSUME RolloutInv, ScoreRaises
    PROVE  RolloutInv'
<1>1. SiblingInv' /\ AllEnded'
  BY CoroutinesKept DEF ScoreRaises
<1>2. group = "rolling" /\ group' = "scored" /\ rollouts' = rollouts
  BY DEF ScoreRaises
<1>3. rollouts' = <<>>
  BY <1>2 DEF RolloutInv, GroupInv, Scored
<1> QED  BY <1>1, <1>2, <1>3 DEF RolloutInv, GroupInv, Scored, Built, Packed

\* In a group that passes the filters and does not raise every turn said something.
LEMMA BuiltSpoke ==
    ASSUME Turned, Scored, rollouts # <<>>, ~Untrainable(rollouts),
           \A i \in DOMAIN rollouts : ~EmptyTurn(rollouts[i].turns)
    PROVE  AllSpoke(rollouts)
<1> SUFFICES ASSUME NEW i \in DOMAIN rollouts PROVE Spoke(rollouts[i].turns)
  BY DEF AllSpoke
<1> DEFINE ts == rollouts[i].turns
           n == Len(ts)
<1>1. ts \in Seq(TurnSet)
  <2>1. i \in Siblings /\ ts = turns[i]
    BY DEF Scored
  <2> QED  BY <2>1 DEF Turned
<1>2. /\ \E k \in DOMAIN ts : ts[k].completion # <<>>
      /\ n > 1 => \A k \in DOMAIN ts : ts[k].completion # <<>>
  BY DEF Untrainable, EmptyTurn
<1> HIDE DEF ts
<1>3. n \in Nat /\ DOMAIN ts = 1..n
  BY <1>1, LenProperties
<1>4. ASSUME NEW t \in 1..n PROVE ts[t].completion # <<>>
  <2>1. CASE n > 1
    BY <1>2, <1>3, <2>1
  <2>2. CASE ~(n > 1)
    <3> HIDE DEF n
    <3>1. \A k \in 1..n : k = t
      BY <1>3, <2>2
    <3> QED  BY <1>2, <1>3, <3>1
  <2> QED  BY <2>1, <2>2
<1> QED  BY <1>4 DEF Spoke, ts

\* Building the samples keeps the invariant.
LEMMA BuildKeeps ==
    ASSUME RolloutInv, Build
    PROVE  RolloutInv'
<1>1. /\ group = "scored" /\ group' \in {"raised", "untrainable", "built"}
      /\ rollouts' = rollouts /\ turns' = turns
  BY DEF Build, Coroutines
<1>2. SiblingInv' /\ AllEnded'
  BY <1>1, CoroutinesKept DEF Build, RolloutInv, GroupInv
<1>3. Scored'
  BY <1>1 DEF RolloutInv, GroupInv, Scored
<1>4. Built'
  <2> SUFFICES ASSUME group' = "built"
               PROVE  rollouts # <<>> /\ AllSpoke(rollouts) /\ samples' = MadeOf(rollouts)
    BY <1>1 DEF Built
  <2>1. /\ ~BuildRaises(rollouts, TRUE)
        /\ samples' = BuildFromGroup(rollouts, TRUE) /\ samples' # <<>>
    BY DEF Build
  <2>2. ~Filtered(rollouts, TRUE) /\ BuildFromGroup(rollouts, TRUE) = MadeOf(rollouts)
    BY <2>1 DEF BuildFromGroup, MadeOf, MadeFrom
  <2>3. /\ ~Untrainable(rollouts) /\ rollouts # <<>>
        /\ \A i \in DOMAIN rollouts : ~EmptyTurn(rollouts[i].turns)
    BY <2>1, <2>2 DEF Filtered, BuildRaises, Untrainable
  <2>4. AllSpoke(rollouts)
    BY <2>3, BuiltSpoke DEF RolloutInv, SiblingInv, GroupInv
  <2> QED  BY <2>1, <2>2, <2>3, <2>4
<1>5. Packed'
  BY <1>1 DEF Packed
<1> QED  BY <1>2, <1>3, <1>4, <1>5 DEF RolloutInv, GroupInv

\* Packing the batch keeps the invariant.
LEMMA PackKeeps ==
    ASSUME RolloutInv, Pack
    PROVE  RolloutInv'
<1> DEFINE kept == KeptSamples(samples, batchConfig)
<1>1. /\ group = "built" /\ group' \in {"oversized", "packed"}
      /\ rollouts' = rollouts /\ turns' = turns /\ batchConfig' = batchConfig
  BY DEF Pack, Coroutines
<1>2. SiblingInv' /\ AllEnded'
  BY <1>1, CoroutinesKept DEF Pack, RolloutInv, GroupInv
<1>3. Scored' /\ Built'
  BY <1>1 DEF RolloutInv, GroupInv, Scored, Built
<1>4. Packed'
  <2> SUFFICES ASSUME group' = "packed"
               PROVE  LET rows == PackedRows(KeptSamples(MadeOf(rollouts), batchConfig), batchConfig)
                      IN  /\ rollouts # <<>> /\ AllSpoke(rollouts)
                          /\ batch' = MicrobatchGrid(rows, batchConfig)
                          /\ validTokens' = ValidTokens(rows, batchConfig)
    BY <1>1 DEF Packed
  <2>1. rollouts # <<>> /\ AllSpoke(rollouts) /\ samples = MadeOf(rollouts)
    BY <1>1 DEF RolloutInv, GroupInv, Built
  <2>2. PICK rows \in {PackedRows(kept, batchConfig)} :
            batch' \in {MicrobatchGrid(rows, batchConfig)} /\ validTokens' = ValidTokens(rows, batchConfig)
    BY DEF Pack
  <2> QED  BY <2>1, <2>2
<1> QED  BY <1>2, <1>3, <1>4 DEF RolloutInv, GroupInv

\* Every step keeps the invariant.
LEMMA StepKeeps ==
    RolloutInv /\ [GroupNext]_groupVars => RolloutInv'
<1> SUFFICES ASSUME RolloutInv, [GroupNext]_groupVars PROVE RolloutInv'
  OBVIOUS
<1>1. ASSUME NEW i \in Siblings, EnvInit(i) \/ RolloutRaises(i) \/ RolloutSteps(i)
      PROVE  RolloutInv'
  BY <1>1, EnvInitKeeps, RaisesKeeps, GenerateKeeps, EndsKeeps, ContinuesKeeps DEF RolloutSteps
<1>2. CASE ScoreGroup \/ ScoreRaises \/ Build \/ Pack
  BY <1>2, ScoreKeeps, ScoreRaisesKeeps, BuildKeeps, PackKeeps
<1>3. CASE UNCHANGED groupVars
  <2>1. UNCHANGED Coroutines /\ group' = group /\ rollouts' = rollouts /\ samples' = samples
        /\ batch' = batch /\ validTokens' = validTokens /\ turns' = turns /\ batchConfig' = batchConfig
    BY <1>3 DEF groupVars, batchVars, Coroutines
  <2>2. group' \in {"rolling", "scored", "raised", "untrainable", "built", "oversized", "packed"}
    BY <2>1 DEF RolloutInv, SiblingInv, GroupTypeOK
  <2>3. SiblingInv' /\ AllEnded' = AllEnded
    BY <2>1, <2>2, CoroutinesKept
  <2>4. GroupInv'
    BY <2>1, <2>3 DEF RolloutInv, GroupInv, Scored, Built, Packed
  <2> QED  BY <2>3, <2>4 DEF RolloutInv
<1> QED  BY <1>1, <1>2, <1>3 DEF GroupNext

\* The invariant is one.
LEMMA InvHolds ==
    GroupSpec => []RolloutInv
<1> QED  BY StartsRight, StepKeeps, PTL DEF GroupSpec

\* The group and its coroutines are always in a state the code knows: no step
\* leaves the configuration, the places a coroutine can wait at, or what
\* can become of a group (rollouter.py, controller.py).
THEOREM GroupTyping == GroupSpec => []GroupTypeOK
<1>1. RolloutInv => GroupTypeOK
  BY DEF RolloutInv, SiblingInv
<1> QED  BY <1>1, InvHolds, PTL

\* However the turns of a rollout branch, however the prompt is rendered again, and
\* however the samples are packed, for every group size, completion, batch shape
\* and reward: a sampled token is trained in exactly one cell, under the context
\* it was sampled from, with its logprob and the advantage of its rollout; nothing
\* else is trained; only a sample too long for a row is missing; and the
\* normaliser of the loss counts these cells (training_sample_builder.py, batcher.py).
THEOREM TrainedOnceInContext == GroupSpec => []TrainedInContext
<1> QED  BY InvHolds, InvTrained, PTL

\* Dealt round-robin, the rows reach every microbatch of every data-parallel
\* rank before any gets a second: as long as there are rows for all, no rank
\* computes on padding alone, for every batch shape (_build_microbatch_grid).
THEOREM RanksAllBusy == GroupSpec => []NoRankIdles
<1> QED  BY InvHolds, InvBusy, PTL
=============================================================================
