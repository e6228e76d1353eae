----------------------------- MODULE StageGraphs -----------------------------
(***************************************************************************)
(* The traced step of a stage from its trace to its execution              *)
(* (_build_stage_graphs, _apply_graph_pp_pre_partition_passes,             *)
(* compile_time_passes and GraphTrainerStageGraphs of graph_builder.py):   *)
(* the passes rewrite the joint graph one after the other, the result is   *)
(* cut into callables, and a schedule runs those on microbatches in any    *)
(* order the pipeline may.  Without a pipeline the joint graph itself runs *)
(* and only the passes matter: with expert parallelism also those that     *)
(* chunk the step, order the chunks, and put numbers for the symbol again. *)
(***************************************************************************)
EXTENDS StageTrace, SelectiveRemat, StagePartition, FsdpSchedule

\* Traces with policy, pp: cut for a pipeline stage, and ep: with the exchanges
\* of experts overlapped (then a trace and a chunking of EpTrace, EpChunk).
CONSTANT Options

Microbatches == {1, 2}

VARIABLES option, phase, graph, stage,
          m,          \* the machine the callables run on
          unsharded,  \* the parameters as forward takes them
          micro,      \* what is kept of each microbatch
          want        \* what the step as traced computes
vars == <<option, phase, graph, stage, m, unsharded, micro, want>>

NumGrads == Len(ParamGrads(option))
InputsOf(trace) == Params(trace) \o Buffers(trace) \o Microbatch(trace) \o BackwardOnly(trace)

\* Parameters and buffers belong to the stage, the other inputs to a microbatch.
Given(trace, names, mb) ==
    [i \in 1..Len(names) |->
       At(IF names[i] \in ToSet(Params(trace) \o Buffers(trace)) THEN "state" ELSE "mb" \o ToString(mb), names[i], 0)]
Loaded(trace) ==
    LET refs == FlattenSeq([mb \in 1..2 |-> Given(trace, InputsOf(trace), mb)])
    IN  Fold(LAMBDA acc, r : Stored(acc, r.loc, Value(r.loc[1] \o "_" \o r.loc[2], 0, <<>>)),
                 [store |-> <<>>, table |-> <<>>, env |-> <<>>], refs)

\* A machine after a callable ran on it, what it returned, what is seen there.
Returning(ran, g) == [m |-> [ran EXCEPT !.env = <<>>], refs |-> Results(ran, g)]
Call(mach, g, args, run) == Returning(Ran(mach, g, args, run), g)
Visible(read, refs) == [m |-> read, contents |-> Contents(read, refs)]
Seen(mach, refs) == Visible(Reading(mach, refs), refs)
SeenAfter(called) == Seen(called.m, called.refs)

\* The step of each microbatch in turn by one joint graph.
JointStep(mach, g, trace, mb) ==
    SeenAfter(Call(mach, g, Given(trace, InputNames(g), mb), "joint" \o ToString(mb)))
RECURSIVE StepsFrom(_, _, _, _)
StepsFrom(seen, g, trace, mb) ==
    IF mb = 2 THEN <<seen>> ELSE <<seen>> \o StepsFrom(JointStep(seen.m, g, trace, mb + 1), g, trace, mb + 1)
Ended(steps, buffers) ==
    [m |-> buffers.m, results |-> [mb \in 1..2 |-> steps[mb].contents], buffers |-> buffers.contents]
Stepped(mach, g, trace) ==
    CHOOSE done \in {Ended(steps, Seen(steps[2].m, Given(trace, Buffers(trace), 0))) :
                       steps \in {StepsFrom(JointStep(mach, g, trace, 1), g, trace, 1)}} : TRUE

\* One step with expert parallelism, half by half.
Unloaded == [store |-> <<>>, table |-> <<>>, env |-> <<>>]
EpStep(mach, g, trace) ==
    CHOOSE done \in {[m |-> ran] @@ EpSeen(ran, g, trace) : ran \in {EpStepped(mach.table, g, trace)}} : TRUE

Meaning(mach, g, trace) == IF trace.ep THEN EpStep(mach, g, trace) ELSE Stepped(mach, g, trace)
JointTrace(trace) == IF trace.ep THEN EpTraced(trace) ELSE Traced(trace)

Fresh == [state |-> "new", out |-> <<>>, saved |-> <<>>, forWeight |-> <<>>, inputGrads |-> <<>>,
          grads |-> <<>>, reduced |-> <<>>]

Init ==
    /\ option \in Options
    /\ phase = "traced"
    /\ graph = JointTrace(option)
    /\ stage = NoGraph
    /\ unsharded = <<>>
    /\ micro = [mb \in Microbatches |-> Fresh]
    /\ \E start \in {IF option.ep THEN Unloaded ELSE Loaded(option)} :
       \E done \in {Meaning(start, JointTrace(option), option)} :
         /\ m = [start EXCEPT !.table = done.m.table]
         /\ want = [results |-> done.results, buffers |-> done.buffers]

(***************************************************************************)
(* The passes, in their order.                                             *)
(***************************************************************************)
Pass(from, to, new) ==
    /\ phase = from /\ phase' = to
    /\ graph' = new
    /\ UNCHANGED <<option, stage, m, unsharded, micro, want>>

EliminateDeadCode == Pass("traced", "live", DeadCodeGone(graph))
Canonicalize == Pass("live", "canonical", Canonicalized(graph))
DeduplicateUnshards == Pass("canonical", "deduplicated", UnshardsDeduplicated(graph))
TagMemoryPolicy ==
    \E tagged \in {PolicyTagged(graph, option.policy, ~option.pp)} :
    \E chosen \in SUBSET (IF option.policy = "sac_and_offload" THEN OffloadCandidates(tagged) ELSE {}) :
       Pass("deduplicated", "tagged", OffloadTagged(tagged, chosen))
ApplyCpuOffload == Pass("tagged", "offloaded", CpuOffloadApplied(graph))
RematSelected == Rematable(graph) /\ Pass("offloaded", "rematerialized", RematApplied(graph))

\* With expert parallelism: a pass that raises leaves no graph.
ChunkRegions ==
    /\ option.ep /\ option.overlap /\ phase = "rematerialized"
    /\ \E D \in {EpChunked(graph, ToSet(EpStatic(option)), option)} :
         Pass("rematerialized", "chunked", IF D.ok THEN D.graph ELSE NoGraph)
EliminateDeadCodeAgain == graph # NoGraph /\ Pass("chunked", "cleaned", DeadCodeGone(graph))
BucketFsdp ==
    /\ option.ep
    /\ Pass(IF option.overlap THEN "cleaned" ELSE "rematerialized", "bucketed", JointBucketed(graph, option.layers, EpModules(option)))
ByExperts == Len(option.pattern) = 3   \* MOE_BLOCK_FQN
ScheduleOverlap == option.overlap /\ Pass("bucketed", "scheduled", EpScheduled(graph, ByExperts))
ConcretizeShapes == graph # NoGraph /\ Pass("scheduled", "concrete", Concretized(graph))
\* On its own, or when only the experts are chunked.
ScheduleDenseRegions ==
    /\ option.ep /\ (option.overlap => ByExperts)
    /\ Pass(IF option.overlap THEN "concrete" ELSE "bucketed", "dense", DenseScheduled(graph, option.layers))

Build ==
    /\ phase = "rematerialized" /\ option.pp
    /\ phase' = "built"
    /\ stage' = StageBuilt(graph, 1, Len(Params(option)), NumGrads, ToSet(BackwardOnly(option)))
    /\ graph' = NoGraph
    /\ UNCHANGED <<option, m, unsharded, micro, want>>

(***************************************************************************)
(* GraphTrainerStageGraphs: how the callables get their arguments.         *)
(***************************************************************************)
Unshard ==
    LET params == Given(option, Params(option), 0)
    IN  /\ phase = "built" /\ Built(stage)
        /\ phase' = "unsharded"
        /\ IF stage.forward.unshard = NoGraph THEN unsharded' = params /\ m' = m
           ELSE \E called \in {Call(m, stage.forward.unshard, Picked(params, stage.forward.paramFlat), "unshard")} :
                  unsharded' = called.refs /\ m' = called.m
        /\ UNCHANGED <<option, graph, stage, micro, want>>

\* _forward_args: the unsharded parameters, then flat inputs by index.
ForwardArgs(mb) ==
    LET flat == unsharded \o Given(option, Buffers(option) \o Microbatch(option), mb)
    IN  SubSeq(unsharded, 1, stage.forward.numUnsharded) \o Picked(flat, stage.forward.fwdFlat)

\* _backward_args: saved values and the next stage's gradients by name.
BackwardArgs(mb) ==
    LET names == InputNames(stage.part.bw)
        received == Picked(Given(option, BackwardOnly(option), mb), stage.part.gradIndices)
        Supplied(x) == IF Contains(stage.part.saved, x) THEN micro[mb].saved[SelectInSeq(stage.part.saved, LAMBDA y : y = x)]
                       ELSE received[SelectInSeq(stage.part.gradNames, LAMBDA y : y = x)]
    IN  [i \in 1..Len(names) |-> Supplied(names[i])]

\* _split_forward_outputs, _split_full_backward_outputs.
AfterForward(kept, seen, refs) ==
    [kept EXCEPT !.state = "forward", !.out = SubSeq(seen, 1, 1),
                 !.saved = SubSeq(refs, 2, 1 + Len(stage.part.saved))]
AfterBackward(kept, seen, refs) ==
    [kept EXCEPT !.state = "backward", !.saved = <<>>, !.grads = SubSeq(refs, 1, NumGrads),
                 !.inputGrads = SubSeq(seen, NumGrads + 1, Len(seen))]

MayForward(mb) == phase = "unsharded" /\ micro[mb].state = "new" /\ \A k \in 1..(mb - 1) : micro[k].state # "new"
Executing(g, args, run) ==
    CHOOSE r \in {[m |-> seen.m, refs |-> called.refs, seen |-> seen.contents] :
                    <<called, seen>> \in {<<c, SeenAfter(c)>> : c \in {Call(m, g, args, run)}}} : TRUE

Forward(mb) ==
    /\ MayForward(mb)
    /\ \E r \in {Executing(stage.forward.fw, ForwardArgs(mb), "F" \o ToString(mb))} :
         m' = r.m /\ micro' = [micro EXCEPT ![mb] = AfterForward(@, r.seen, r.refs)]
    /\ UNCHANGED <<option, phase, graph, stage, unsharded, want>>

FullBackward(mb) ==
    /\ micro[mb].state = "forward"
    /\ \E r \in {Executing(stage.backward.bw, BackwardArgs(mb), "B" \o ToString(mb))} :
         m' = r.m /\ micro' = [micro EXCEPT ![mb] = AfterBackward(@, r.seen, r.refs)]
    /\ UNCHANGED <<option, phase, graph, stage, unsharded, want>>

BackwardInput(mb) ==
    LET numInput == Len(InputGrads(option))
    IN  /\ micro[mb].state = "forward" /\ stage.halves.di # NoGraph
        /\ \E r \in {Executing(stage.halves.di, BackwardArgs(mb), "I" \o ToString(mb))} :
             /\ m' = r.m
             /\ micro' = [micro EXCEPT ![mb].state = "input", ![mb].saved = <<>>,
                             ![mb].inputGrads = SubSeq(r.seen, 1, numInput),
                             ![mb].forWeight = SubSeq(r.refs, numInput + 1, Len(r.refs))]
        /\ UNCHANGED <<option, phase, graph, stage, unsharded, want>>

BackwardWeight(mb) ==
    /\ micro[mb].state = "input"
    /\ \E r \in {Executing(stage.halves.dw, micro[mb].forWeight, "W" \o ToString(mb))} :
         m' = r.m /\ micro' = [micro EXCEPT ![mb].state = "backward", ![mb].forWeight = <<>>, ![mb].grads = r.refs]
    /\ UNCHANGED <<option, phase, graph, stage, unsharded, want>>

\* OVERLAP_F_B: the forward of one microbatch and the backward of another.
Overlap(f, b) ==
    LET bw == stage.backward.bw
        both == Multiplexed(stage.forward.fw, bw)
    IN  /\ MayForward(f) /\ micro[b].state = "forward"
        /\ \E r \in {Executing(both, BackwardArgs(b) \o ForwardArgs(f), "O" \o ToString(f))} :
             /\ m' = r.m
             /\ micro' = [micro EXCEPT
                  ![b] = AfterBackward(@, SubSeq(r.seen, 1, Len(bw.outputs)), SubSeq(r.refs, 1, Len(bw.outputs))),
                  ![f] = AfterForward(@, SubSeq(r.seen, Len(bw.outputs) + 1, Len(r.seen)),
                                         SubSeq(r.refs, Len(bw.outputs) + 1, Len(r.refs)))]
        /\ UNCHANGED <<option, phase, graph, stage, unsharded, want>>

\* reduce_grads, of one microbatch: the reduction is linear, and what is summed
\* before it is GraphPP's.
ReduceGrads(mb) ==
    LET names == SubSeq(stage.backward.bw.outputs, 1, NumGrads)
        args == [i \in 1..Len(stage.backward.reduceNames) |->
                   micro[mb].grads[SelectLastInSeq(names, LAMBDA y : y = stage.backward.reduceNames[i])]]
    IN  /\ micro[mb].state = "backward"
        /\ \E called \in {IF stage.backward.reduce = NoGraph THEN [m |-> m, refs |-> micro[mb].grads]
                          ELSE Call(m, stage.backward.reduce, args, "R" \o ToString(mb))} :
           \E seen \in {Seen(called.m, called.refs)} :
             m' = seen.m /\ micro' = [micro EXCEPT ![mb].state = "reduced", ![mb].grads = <<>>, ![mb].reduced = seen.contents]
        /\ UNCHANGED <<option, phase, graph, stage, unsharded, want>>

Next ==
    \/ EliminateDeadCode \/ Canonicalize \/ DeduplicateUnshards \/ TagMemoryPolicy \/ ApplyCpuOffload \/ RematSelected
    \/ ChunkRegions \/ EliminateDeadCodeAgain \/ BucketFsdp \/ ScheduleOverlap \/ ConcretizeShapes
    \/ ScheduleDenseRegions
    \/ Build \/ Unshard
    \/ \E mb \in Microbatches : \/ Forward(mb) \/ FullBackward(mb) \/ BackwardInput(mb) \/ BackwardWeight(mb)
                                \/ ReduceGrads(mb) \/ \E b \in Microbatches : Overlap(mb, b)
Spec == Init /\ [][Next]_vars

(***************************************************************************)
(* Properties.                                                             *)
(***************************************************************************)

\* However the passes rewrite the step (dead code, normalization, one gather
\* per parameter, policy, offload, recomputation, two chunks in an order of
\* their own, collectives in buckets), it still computes what was traced (loss,
\* gradients, buffers) for one microbatch after the other.  Only the sort after
\* bucketing may put the copy of the counts that blocks before the one that
\* does not: the overlap decides anew which one blocks, without it nothing does.
SortedCopies == option.ep /\ phase \in {"bucketed"} \cup (IF option.overlap THEN {} ELSE {"dense"})
StepUnchanged ==
    graph # NoGraph =>
        /\ Linted(graph)
        /\ \E done \in {Meaning(m, IF SortedCopies THEN CopiesBlocking(graph) ELSE graph, option)} :
           done.results = want.results /\ done.buffers = want.buffers

\* No pass gives up, the stage can be cut, and whatever the order in which a schedule runs the
\* callables, each microbatch gets the output, the gradient for the previous
\* stage and the parameter gradients its traced step computes, and the buffers
\* end as if the microbatches had run in turn.  With experts, each exchange of the
\* chunk that goes first is under way while the other chunk computes towards its
\* own.  Under "full" the backward recomputes exchanges that both chunks of its
\* region read, and the schedule raises rather than order them.  FSDP's launches
\* all end up where the neighboring layer computes attention while they run.
MicroExact(mb) ==
    LET kept == micro[mb]
        traced == want.results[mb]
    IN  /\ kept.state # "new" => kept.out = SubSeq(traced, 1, 1)
        /\ kept.state \in {"input", "backward", "reduced"} => kept.inputGrads = SubSeq(traced, NumGrads + 2, Len(traced))
        /\ kept.state = "reduced" => kept.reduced = SubSeq(traced, 2, NumGrads + 1)
StageGraphsExact ==
    /\ phase = "offloaded" => Rematable(graph)
    /\ option.ep /\ (option.policy = "full" => phase # "scheduled") => graph # NoGraph
    /\ phase = "scheduled" /\ graph # NoGraph => ExchangesOverlap(graph, ByExperts)
    /\ phase = "dense" => FsdpOverlaps(graph, option.layers)
    /\ phase \in {"built", "unsharded"} => Built(stage)
    /\ \A mb \in Microbatches : MicroExact(mb)
    /\ (\A mb \in Microbatches : micro[mb].state = "reduced") =>
          Seen(m, Given(option, Buffers(option), 0)).contents = want.buffers
=============================================================================
