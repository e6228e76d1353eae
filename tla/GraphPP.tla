------------------------------ MODULE GraphPP -------------------------------
(***************************************************************************)
(* The GraphPP runtime (experiments/graph_trainer/graph_pp/runner.py): the *)
(* handlers that run the actions of an upstream pipeline schedule with the *)
(* graphs of a stage.                                                      *)
(*                                                                         *)
(* The schedule is upstream's: here it may issue its actions in any order  *)
(* that respects the data flow, with the microbatches of a stage in turn.  *)
(* It also sends: what a stage makes for a stage of another rank is in the *)
(* buffer of a receive operation at once, since the handler that reads it  *)
(* waits for that operation.  Where upstream holds a stage to be is Home.  *)
(*                                                                         *)
(* An activation is the modules a microbatch went through, each with the   *)
(* version of its parameters.  A gradient is the microbatch whose forward  *)
(* and the one whose output gradient made it.                              *)
(***************************************************************************)
EXTENDS StageSplit, FiniteSets, Bags

CONSTANTS Layouts,     \* layouts tried, with microbatches, split, overlap, scaleGrads
          Passes,      \* the sequences of "train", "eval" and "opt" tried
          MaxReshards  \* RESHARD actions of a pass

ASSUME GraphPPAssumption ==
    /\ MaxReshards \in Nat
    /\ \A p \in Passes : p \in Seq({"train", "eval", "opt"})
    /\ Layouts \subseteq
         [style : {"loop", "v"}, ranks : Nat \ {0}, layers : Nat \ {0},
          layersPerStage : Nat, inWeight : Int, outWeight : Int,
          microbatches : Nat \ {0}, split : BOOLEAN, overlap : BOOLEAN, scaleGrads : BOOLEAN]
    /\ \A c \in Layouts : Accepted(c)

VARIABLES
    layout,      \* the layout of this run
    plan,        \* the passes of this run
    at,          \* the pass under way
    done,        \* actions the schedule has issued in this pass
    reshards,    \* RESHARD actions of this pass
    version,     \* optimizer steps taken
    inputs,      \* input buffers of stages: activations and output gradients
    recvOps,     \* fwd_recv_ops and bwd_recv_ops not waited for
    fwdCache,    \* stage.fwd_cache
    weightCache, \* stage.saved_values_for_backward_weight_cache
    losses,      \* schedule._internal_losses
    state,       \* GraphPPStageRuntimeState of each stage
    counted,     \* schedule.backward_counter
    paramGrad,   \* param.grad of a stage's parameters
    error        \* a handler raised

passVars == <<done, reshards, inputs, recvOps, fwdCache, weightCache, losses, state, counted, error>>
vars == <<layout, plan, at, version, paramGrad, passVars>>

None == [is |-> "none"]
More == at <= Len(plan)
Pass == plan[at]
Running == More /\ Pass # "opt" /\ ~error
S == Stages(layout)
Microbatches == 1..layout.microbatches

\* Where the upstream schedule and its transport hold a stage to be.
Home(s) ==
    IF layout.style = "v" /\ s >= layout.ranks THEN NumStages(layout) - 1 - s ELSE s % layout.ranks

\* is_next_stage_on_this_rank and is_prev_stage_on_this_rank.
SameRank(s, t) == \E r \in 0..(layout.ranks - 1) : {s, t} \subseteq RankStages(layout, r)

\* The input of a stage's forward ("F") or backward ("B") of a microbatch.
Slot(d, s, m) == <<d, s, m>>
Slots(c) == {"F", "B"} \X Stages(c) \X (1..c.microbatches)

ClearedState == [unsharded |-> None, unshardedGrads |-> EmptyBag, shardedGrads |-> None,
                 scaled |-> FALSE]

-----------------------------------------------------------------------------
(***************************************************************************)
(* What the schedule may issue.                                            *)
(***************************************************************************)
Issued(kind, s, m) == <<kind, s, m>> \in done
InTurn(kind, s, m) == ~Issued(kind, s, m) /\ (m > 1 => Issued(kind, s, m - 1))
BackwardIssued(s, m) == Issued("backward", s, m) \/ Issued("backward_input", s, m)

MayForward(s, m) ==
    /\ InTurn("forward", s, m)
    /\ ~IsFirst(s) => Issued("forward", s - 1, m)

MayBackward(s, m) ==
    /\ Pass = "train" /\ Issued("forward", s, m)
    /\ ~BackwardIssued(s, m) /\ (m > 1 => BackwardIssued(s, m - 1))
    /\ ~IsLast(layout, s) => BackwardIssued(s + 1, m)

MayBackwardWeight(s, m) ==
    /\ Issued("backward_input", s, m) /\ ~Issued("backward_weight", s, m)
    /\ \A n \in 1..(m - 1) : Issued("backward_input", s, n) => Issued("backward_weight", s, n)

WeightsDone(s) ==
    \A m \in Microbatches : Issued("backward", s, m) \/ Issued("backward_weight", s, m)

-----------------------------------------------------------------------------
(***************************************************************************)
(* The parts of the handlers.                                              *)
(***************************************************************************)
\* The wait for the peer's send, or the same rank's cache, then the read.
Arrived(d, s, peer, m) ==
    /\ SameRank(peer, s) \/ Slot(d, s, m) \in recvOps
    /\ inputs[Slot(d, s, m)] # None

\* _stage_map_and_stage_from_action, _prepare_fwd_common.
ForwardReady(s, m) ==
    /\ s \in RankStages(layout, Home(s))
    /\ IsFirst(s) \/ Arrived("F", s, s - 1, m)

\* _prepare_backward_common, _prepare_backward_values.
BackwardReady(s, m) ==
    /\ s \in RankStages(layout, Home(s))
    /\ fwdCache[s][m] # None
    /\ IsLast(layout, s) \/ Arrived("B", s, s + 1, m)

\* The receive operations a handler pops.
Waited(d, s, peer, m) == IF SameRank(peer, s) THEN {} ELSE {Slot(d, s, m)}

\* _ensure_unsharded_param_values.
Unsharded(st) == IF st.unsharded = None THEN [st EXCEPT !.unsharded = [of |-> version]] ELSE st

\* _prepare_fwd_user_args, graphs.forward.
ForwardInput(s, m) == IF IsFirst(s) THEN [mb |-> m, path |-> <<>>] ELSE inputs[Slot("F", s, m)]
ForwardOutput(s, m) ==
    LET input == ForwardInput(s, m)
        modules == SplitModule(layout, s)
    IN  [input EXCEPT !.path = @ \o [i \in DOMAIN modules |->
                                       <<modules[i], Unsharded(state[s]).unsharded.of>>]]

\* The gradient of a stage's output; the last stage starts from its loss.
OutputGrad(s, m) == IF IsLast(layout, s) THEN fwdCache[s][m].mb ELSE inputs[Slot("B", s, m)].mb
ParamGrad(savedFwd, grad) == [fwd |-> savedFwd, bwd |-> grad, pass |-> at]

\* _accumulate_stage_unsharded_grads.
Accumulated(st, grad) == [st EXCEPT !.unshardedGrads = @ (+) SetToBag({grad})]

\* graphs.reduce_grads of what is accumulated, and _scale_graph_pp_sharded_grads.
Reduced(st) ==
    [st EXCEPT !.shardedGrads =
         [terms |-> st.unshardedGrads, divided |-> IF layout.scaleGrads /\ ~st.scaled THEN 1 ELSE 0],
               !.scaled = TRUE]

\* _post_fwd_common, _post_backward_common and upstream's send: the buffers
\* and receive operations after stage s hands a value to its neighbour.
HandedTo(d, s, peer, m, value, buffers) ==
    IF peer \in S /\ (SameRank(s, peer) \/ Home(s) # Home(peer))
      THEN [buffers EXCEPT ![Slot(d, peer, m)] = value] ELSE buffers
SentTo(d, s, peer, m) == IF peer \in S /\ Home(s) # Home(peer) THEN {Slot(d, peer, m)} ELSE {}

Fail == error' = TRUE /\ UNCHANGED <<done, reshards, inputs, recvOps, fwdCache, weightCache,
                                     losses, state, counted>>
Issue(actions) == done' = done \cup actions /\ UNCHANGED <<reshards, error>>

-----------------------------------------------------------------------------
Init ==
    /\ layout \in Layouts /\ plan \in Passes /\ at = 1
    /\ version = 0
    /\ done = {} /\ reshards = 0 /\ error = FALSE
    /\ inputs = [x \in Slots(layout) |-> None] /\ recvOps = {}
    /\ fwdCache = [s \in S |-> [m \in Microbatches |-> None]]
    /\ weightCache = fwdCache
    /\ losses = <<>>
    /\ state = [s \in S |-> ClearedState]
    /\ counted = [s \in S |-> 0]
    /\ paramGrad = [s \in S |-> EmptyBag]

\* _handle_forward.
Forward(s, m) ==
    /\ Running /\ MayForward(s, m)
    /\ UNCHANGED <<layout, plan, at, version, paramGrad>>
    /\ IF ~ForwardReady(s, m) THEN Fail
       ELSE \E out \in {ForwardOutput(s, m)} :
            /\ Issue({<<"forward", s, m>>})
            /\ state' = [state EXCEPT ![s] = Unsharded(@)]
            /\ fwdCache' = [fwdCache EXCEPT ![s][m] = out]
            /\ losses' = IF IsLast(layout, s) THEN Append(losses, out) ELSE losses
            /\ inputs' = HandedTo("F", s, s + 1, m, out, inputs)
            /\ recvOps' = (recvOps \ Waited("F", s, s - 1, m)) \cup SentTo("F", s, s + 1, m)
            /\ UNCHANGED <<weightCache, counted>>

\* _handle_full_backward, as the schedule's action of the given kind.
RunFullBackward(kind, s, m) ==
    IF ~BackwardReady(s, m) THEN Fail
    ELSE \E grad \in {OutputGrad(s, m)} :
         /\ Issue({<<kind, s, m>>})
         /\ counted' = [counted EXCEPT ![s] = @ + 1]
         /\ fwdCache' = [fwdCache EXCEPT ![s][m] = None]
         /\ state' = [state EXCEPT ![s] = Accumulated(@, ParamGrad(fwdCache[s][m].mb, grad))]
         /\ inputs' = HandedTo("B", s, s - 1, m, [mb |-> grad], inputs)
         /\ recvOps' = (recvOps \ Waited("B", s, s + 1, m)) \cup SentTo("B", s, s - 1, m)
         /\ UNCHANGED <<weightCache, losses>>

FullBackward(s, m) ==
    /\ Running /\ MayBackward(s, m)
    /\ RunFullBackward("backward", s, m)
    /\ UNCHANGED <<layout, plan, at, version, paramGrad>>

\* supports_backward_input_weight_split: the first stage has no gradient of
\* its input to compute apart.
Splits(s) == ~IsFirst(s)

\* _handle_backward_input.
BackwardInput(s, m) ==
    /\ Running /\ layout.split /\ MayBackward(s, m)
    /\ UNCHANGED <<layout, plan, at, version, paramGrad>>
    /\ IF ~Splits(s)
         THEN Issue({<<"backward_input", s, m>>})
              /\ UNCHANGED <<inputs, recvOps, fwdCache, weightCache, losses, state, counted>>
       ELSE IF ~BackwardReady(s, m) THEN Fail
       ELSE \E grad \in {OutputGrad(s, m)} :
            /\ Issue({<<"backward_input", s, m>>})
            /\ counted' = [counted EXCEPT ![s] = @ + 1]
            /\ fwdCache' = [fwdCache EXCEPT ![s][m] = None]
            /\ weightCache' = [weightCache EXCEPT ![s][m] = ParamGrad(fwdCache[s][m].mb, grad)]
            /\ inputs' = HandedTo("B", s, s - 1, m, [mb |-> grad], inputs)
            /\ recvOps' = (recvOps \ Waited("B", s, s + 1, m)) \cup SentTo("B", s, s - 1, m)
            /\ UNCHANGED <<losses, state>>

\* _handle_backward_weight.
BackwardWeight(s, m) ==
    /\ Running /\ layout.split /\ MayBackwardWeight(s, m)
    /\ UNCHANGED <<layout, plan, at, version, paramGrad>>
    /\ IF ~Splits(s) THEN RunFullBackward("backward_weight", s, m)
       ELSE IF weightCache[s][m] = None THEN Fail
       ELSE /\ Issue({<<"backward_weight", s, m>>})
            /\ state' = [state EXCEPT ![s] = Accumulated(@, weightCache[s][m])]
            /\ weightCache' = [weightCache EXCEPT ![s][m] = None]
            /\ UNCHANGED <<inputs, recvOps, fwdCache, losses, counted>>

\* _handle_overlap_fw_bw: the forward of one stage and the full backward of
\* another of the rank as one graph, both read before either is stored.
OverlapFwBw(s, m, t, n) ==
    /\ Running /\ layout.overlap /\ s # t /\ SameRank(s, t)
    /\ MayForward(s, m) /\ MayBackward(t, n)
    /\ UNCHANGED <<layout, plan, at, version, paramGrad>>
    /\ IF ~(ForwardReady(s, m) /\ BackwardReady(t, n)) THEN Fail
       ELSE \E out \in {ForwardOutput(s, m)}, grad \in {OutputGrad(t, n)} :
            /\ Issue({<<"forward", s, m>>, <<"backward", t, n>>})
            /\ counted' = [counted EXCEPT ![t] = @ + 1]
            /\ state' = [state EXCEPT ![s] = Unsharded(@),
                                      ![t] = Accumulated(@, ParamGrad(fwdCache[t][n].mb, grad))]
            /\ fwdCache' = [fwdCache EXCEPT ![t][n] = None, ![s][m] = out]
            /\ losses' = IF IsLast(layout, s) THEN Append(losses, out) ELSE losses
            /\ inputs' = HandedTo("B", t, t - 1, n, [mb |-> grad],
                                  HandedTo("F", s, s + 1, m, out, inputs))
            /\ recvOps' = (recvOps \ (Waited("F", s, s - 1, m) \cup Waited("B", t, t + 1, n)))
                            \cup SentTo("F", s, s + 1, m) \cup SentTo("B", t, t - 1, n)
            /\ UNCHANGED weightCache

\* _handle_unshard, _handle_reshard, _handle_reduce_grad.
UnshardStage(s) ==
    /\ Running /\ state[s].unsharded = None
    /\ state' = [state EXCEPT ![s] = Unsharded(@)]
    /\ UNCHANGED <<layout, plan, at, version, paramGrad, done, reshards, inputs, recvOps, fwdCache,
                   weightCache, losses, counted, error>>

ReshardStage(s) ==
    /\ Running /\ state[s].unsharded # None /\ reshards < MaxReshards
    /\ state' = [state EXCEPT ![s].unsharded = None]
    /\ reshards' = reshards + 1
    /\ UNCHANGED <<layout, plan, at, version, paramGrad, done, inputs, recvOps, fwdCache, weightCache,
                   losses, counted, error>>

ReduceGrad(s) ==
    /\ Running /\ Pass = "train" /\ WeightsDone(s) /\ ~Issued("reduce", s, 0)
    /\ state' = [state EXCEPT ![s] = Reduced(@)]
    /\ Issue({<<"reduce", s, 0>>})
    /\ UNCHANGED <<layout, plan, at, version, paramGrad, inputs, recvOps, fwdCache, weightCache,
                   losses, counted>>

\* _ensure_reduced_grads.
EnsureReduced(st) ==
    IF st.shardedGrads # None \/ st.unshardedGrads = EmptyBag THEN st ELSE Reduced(st)

\* param_grads_for_accumulation, accumulate_param_grads_.
GradTerms(st) ==
    LET reduced == EnsureReduced(st).shardedGrads
    IN  IF reduced = None THEN EmptyBag
        ELSE LET Term(g) == [grad |-> g, divided |-> reduced.divided]
             IN  [t \in {Term(g) : g \in DOMAIN reduced.terms} |-> reduced.terms[t.grad]]

\* Mutant: a step takes only the gradients a REDUCE_GRAD left.
BugEndOfStep ==
    paramGrad' = [s \in S |-> paramGrad[s] (+)
                    (IF state[s].shardedGrads = None THEN EmptyBag ELSE GradTerms(state[s]))]

\* step: after the schedule, _accumulate_stage_sharded_grads of every stage;
\* eval accumulates nothing.
EndOfStep == paramGrad' = [s \in S |-> paramGrad[s] (+) GradTerms(state[s])]

\* The end of GraphPipelineRuntime.step or eval: state.clear(), then upstream's
\* reset of its own caches when the next begins.
FinishPass ==
    /\ Running
    /\ \A s \in S, m \in Microbatches : Issued("forward", s, m)
    /\ Pass = "train" => \A s \in S : WeightsDone(s)
    /\ IF Pass = "train" THEN EndOfStep ELSE UNCHANGED paramGrad
    /\ at' = at + 1
    /\ state' = [s \in S |-> ClearedState]
    /\ done' = {} /\ reshards' = 0 /\ losses' = <<>> /\ recvOps' = {}
    /\ inputs' = [x \in Slots(layout) |-> None]
    /\ fwdCache' = [s \in S |-> [m \in Microbatches |-> None]]
    /\ counted' = [s \in S |-> 0]
    /\ UNCHANGED <<layout, plan, version, weightCache, error>>

\* The trainer's optimizer step over all model parts, and its zero_grad.
OptimizerStep ==
    /\ More /\ Pass = "opt"
    /\ version' = version + 1
    /\ paramGrad' = [s \in S |-> EmptyBag]
    /\ at' = at + 1
    /\ UNCHANGED <<layout, plan, passVars>>

Next ==
    \/ \E s \in S, m \in Microbatches :
          \/ Forward(s, m) \/ FullBackward(s, m)
          \/ BackwardInput(s, m) \/ BackwardWeight(s, m)
          \/ \E t \in S, n \in Microbatches : OverlapFwBw(s, m, t, n)
    \/ \E s \in S : UnshardStage(s) \/ ReshardStage(s) \/ ReduceGrad(s)
    \/ FinishPass
    \/ OptimizerStep

Spec == Init /\ [][Next]_vars

-----------------------------------------------------------------------------
\* Every loss is that of the whole model, module after module, with the
\* parameters of the last optimizer step, over the microbatches in turn: the
\* split of the layers, the placement of the stages, the hand-over between
\* stages and the unsharded values kept within a pass must all agree.
WholeModelInOrder ==
    \A i \in DOMAIN losses :
        /\ losses[i].mb = i
        /\ losses[i].path = [j \in DOMAIN WholeModel(layout) |-> <<WholeModel(layout)[j], version>>]

\* The training passes since the last optimizer step.
TrainPasses == {i \in 1..(at - 1) : plan[i] = "train" /\ \A j \in i..(at - 1) : plan[j] # "opt"}

\* When the optimizer steps, the gradient of every stage holds every
\* microbatch of every training pass since the last one exactly once, with
\* its own saved forward and its own output gradient, divided once if the
\* schedule scales: whatever the order, the split of the backward, the
\* overlap and whether a REDUCE_GRAD came (step of GraphPipelineRuntime).
GradsExact ==
    More /\ Pass = "opt" =>
        \A s \in S :
            /\ \A t \in DOMAIN paramGrad[s] :
                  /\ t.grad.fwd = t.grad.bwd /\ paramGrad[s][t] = 1
                  /\ t.divided = IF layout.scaleGrads THEN 1 ELSE 0
            /\ {<<t.grad.pass, t.grad.fwd>> : t \in DOMAIN paramGrad[s]} =
                 TrainPasses \X Microbatches

\* A schedule that respects the data flow never makes a handler raise: the
\* receive operation, the local input, the saved forward or the saved values
\* it needs are there (the ValueErrors and KeyErrors of runner.py), and after
\* a training pass the schedule has counted each microbatch's backward once.
HandlersSucceed ==
    /\ ~error
    /\ Running /\ Pass = "train" =>
         \A s \in S : WeightsDone(s) => counted[s] = layout.microbatches
=============================================================================
