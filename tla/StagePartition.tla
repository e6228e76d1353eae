---------------------------- MODULE StagePartition ----------------------------
(***************************************************************************)
(* The traced step of a pipeline stage cut into the callables a schedule   *)
(* runs (graph_pp/partition.py, split_fsdp_collectives.py, split_di_dw.py, *)
(* graph_multiplex.py): forward, backward, unshard, reduce, the input and  *)
(* the weight half of the backward, and a forward and a backward in one.   *)
(* A callable is a graph; what it takes and returns is matched by position *)
(* or by name with what another one returned.                              *)
(***************************************************************************)
EXTENDS GraphNormalize

NoGraph == [nodes |-> <<>>, outputs |-> <<>>]

(***************************************************************************)
(* partition_joint_graph.                                                  *)
(***************************************************************************)

\* _saved_values_for_backward: computed for the forward, read by a node that
\* only the backward needs.
SavedValues(g, fwdOut, bwdOut, bwdOnly) ==
    LET forward == NodeClosure(g, fwdOut)
        backward == NodeClosure(g, bwdOut)
        readBackward == UNION {Inputs(n) : n \in {m \in ToSet(g.nodes) : m.name \in backward \ forward}}
    IN  SelectSeq(NameSeq(g), LAMBDA x : x \in (forward \ bwdOnly) \cap readBackward)

\* _backward_passthrough_placeholders: the layouts a gradient is wrapped in.
Passthroughs(g, bwdOut, bwdOnly) ==
    UniqueInOrder(SelectSeq(bwdOut, LAMBDA x : x \in ToSet(InputNames(g)) \ bwdOnly))

\* _forward_mutations_to_materialize: the writes up to the last forward output
\* that the backward does not make.
ForwardMutations(g, fwdOut, bwdOut) ==
    LET barrier == {i \in 1..Len(g.nodes) : g.nodes[i].name \in Values(fwdOut)}
        backward == NodeClosure(g, bwdOut)
    IN  SelectSeq(NameSeq(g), LAMBDA x : /\ IsMutation(NodeNamed(g, x))
                                         /\ x \notin backward
                                         /\ \E i \in barrier : Position(g.nodes, x) <= i)
MutationBases(g, mutations, bwdOut) ==
    UniqueInOrder(SelectSeq([i \in 1..Len(mutations) |-> ViewBase(g, NodeNamed(g, mutations[i]).args[1])],
                            LAMBDA x : NodeNamed(g, x).op # "input" /\ x \in NodeClosure(g, bwdOut)))

\* _flatten_saved_values_for_backward: a tuple the backward only takes items of
\* is saved as those items.
TupleLeaves(g, x, bwdOut) ==
    LET users == SelectSeq(g.nodes, LAMBDA n : x \in Inputs(n) /\ n.name \in NodeClosure(g, bwdOut))
    IN  IF IsTuple(NodeNamed(g, x)) /\ users # <<>> /\ \A n \in ToSet(users) : n.target = "getitem"
        THEN [i \in 1..Len(users) |-> users[i].name] ELSE <<x>>
Flattened(g, saved, bwdOut) ==
    UniqueInOrder(FlattenSeq([i \in 1..Len(saved) |-> TupleLeaves(g, saved[i], bwdOut)]))

PositionsIn(seq, S) == SelectSeq([i \in 1..Len(seq) |-> i], LAMBDA i : seq[i] \in S)
Picked(seq, positions) == [i \in 1..Len(positions) |-> seq[positions[i]]]

\* The forward and the backward callable, and their calling convention
\* (GraphMeta).  bwdOnly: the inputs the schedule supplies for the backward.
Callables(g, fwdOut, bwdOut, bwdOnly, mutations, saved) ==
    LET names == InputNames(g)
        gradNames == SelectSeq(names, LAMBDA x : x \in bwdOnly)
        fwOut == fwdOut \o saved \o mutations
        fwIn == SelectSeq(names, LAMBDA x : x \in PlaceholderDependencies(g, fwOut))
        gradIn == PositionsIn(gradNames, PlaceholderDependencies(g, bwdOut))
        bwIn == saved \o Picked(gradNames, gradIn)
        written == {ViewBase(g, NodeNamed(g, x).args[1]) : x \in ToSet(mutations)}
    IN  [ok |-> /\ (Values(fwIn) \cup Values(saved) \cup written) \cap bwdOnly = {}
                /\ Extractable(g, fwIn, fwOut) /\ Extractable(g, bwIn, bwdOut),
         fw |-> Extracted(g, fwIn, fwOut, {}),
         bw |-> Extracted(g, bwIn, bwdOut, {}),
         saved |-> saved,
         gradNames |-> Picked(gradNames, gradIn), gradIndices |-> gradIn,
         fwdFlat |-> PositionsIn(names, ToSet(fwIn))]
Partitioned(g, numFwd, bwdOnly) ==
    LET fwdOut == SubSeq(g.outputs, 1, numFwd)
        bwdOut == SubSeq(g.outputs, numFwd + 1, Len(g.outputs))
        mutations == ForwardMutations(g, fwdOut, bwdOut)
    IN  Callables(g, fwdOut, bwdOut, bwdOnly, mutations,
                  Flattened(g, UniqueInOrder(SavedValues(g, fwdOut, bwdOut, bwdOnly)
                                               \o Passthroughs(g, bwdOut, bwdOnly)
                                               \o MutationBases(g, mutations, bwdOut)), bwdOut))

(***************************************************************************)
(* split_forward_fsdp_collectives: the parameters are gathered once a step *)
(* by a callable of their own.                                             *)
(***************************************************************************)
WithoutUnshard(part) ==
    [ok |-> TRUE, unshard |-> NoGraph, fw |-> part.fw, paramFlat |-> <<>>, fwdFlat |-> part.fwdFlat, numUnsharded |-> 0]
WithUnshard(part, numParams, params, rest, unsharded, unique) ==
    [ok |-> unique /\ Extractable(part.fw, unsharded \o rest, part.fw.outputs),
     unshard |-> Extracted(part.fw, params, unsharded, {"wait"}),
     fw |-> Extracted(part.fw, unsharded \o rest, part.fw.outputs, {"wait"}),
     paramFlat |-> SelectSeq(part.fwdFlat, LAMBDA i : i <= numParams),
     fwdFlat |-> SelectSeq(part.fwdFlat, LAMBDA i : i > numParams),
     numUnsharded |-> Len(unsharded)]
ForwardSplit(part, numParams) ==
    LET names == InputNames(part.fw)
        params == Picked(names, PositionsIn(part.fwdFlat, 1..numParams))
    IN  CHOOSE split \in
          {IF \A i \in 1..Len(params) : outs[i] = <<>> THEN WithoutUnshard(part)
           ELSE WithUnshard(part, numParams, params, SelectSeq(names, LAMBDA x : x \notin ToSet(params)),
                            [i \in 1..Len(params) |-> IF outs[i] = <<>> THEN params[i] ELSE outs[i][1]],
                            \A i \in 1..Len(params) : Len(outs[i]) <= 1)
             : outs \in {[i \in 1..Len(params) |-> UnshardOutputs(part.fw, params[i])]}} : TRUE

(***************************************************************************)
(* split_backward_fsdp_collectives: the gradients are reduced once a step. *)
(***************************************************************************)
WithReduce(g, grads, others, reduceIn, unique) ==
    [ok |-> Extractable(g, InputNames(g), reduceIn \o others) /\ Extractable(g, unique, grads),
     bw |-> Extracted(g, InputNames(g), reduceIn \o others, {"wait"}),
     reduce |-> Extracted(g, unique, grads, {"wait"}),
     reduceNames |-> unique]
BackwardSplit(g, numGrads) ==
    LET grads == SubSeq(g.outputs, 1, numGrads)
    IN  CHOOSE split \in
          {IF \A i \in 1..numGrads : inputs[i] = None
           THEN [ok |-> TRUE, bw |-> g, reduce |-> NoGraph, reduceNames |-> <<>>]
           ELSE LET reduceIn == [i \in 1..numGrads |-> IF inputs[i] = None THEN grads[i] ELSE inputs[i]]
                IN  WithReduce(g, grads, SubSeq(g.outputs, numGrads + 1, Len(g.outputs)), reduceIn,
                               UniqueInOrder(SelectSeq(reduceIn, LAMBDA x : x # None)))
             : inputs \in {[i \in 1..numGrads |-> ReduceGradInput(g, grads[i])]}} : TRUE

(***************************************************************************)
(* split_di_dw_graph: what the previous stage waits for first.             *)
(***************************************************************************)

\* Mutant: a gradient the input half already has is not handed on.
BugLiveIns(g, diNames, dwOut, x) ==
    LET n == NodeNamed(g, x)
        dwUsers == SelectSeq(g.nodes, LAMBDA m : x \in Inputs(m) /\ m.name \notin diNames)
    IN  IF dwUsers = <<>> THEN <<>>
        ELSE IF IsTuple(n) /\ IsCall(n) THEN [i \in 1..Len(dwUsers) |-> dwUsers[i].name]
        ELSE IF ~IsSym(n) /\ x \notin Values(dwOut) /\ \A m \in ToSet(dwUsers) : IsSym(m)
          THEN [i \in 1..Len(dwUsers) |-> dwUsers[i].name]
        ELSE <<x>>

\* _collect_saved_values_for_dw: what the weight half needs of the input half.
\* A tensor whose size is all it needs is passed as that size.
LiveIns(g, diNames, dwOut, x) ==
    LET n == NodeNamed(g, x)
        dwUsers == SelectSeq(g.nodes, LAMBDA m : x \in Inputs(m) /\ m.name \notin diNames)
    IN  IF dwUsers = <<>> /\ x \notin Values(dwOut) THEN <<>>
        ELSE IF IsTuple(n) /\ IsCall(n) THEN [i \in 1..Len(dwUsers) |-> dwUsers[i].name]
        ELSE IF ~IsSym(n) /\ x \notin Values(dwOut) /\ \A m \in ToSet(dwUsers) : IsSym(m)
          THEN [i \in 1..Len(dwUsers) |-> dwUsers[i].name]
        ELSE <<x>>
SavedForWeight(g, diNames, dwOut) ==
    LET all == UniqueInOrder(FlattenSeq([i \in 1..Len(g.nodes) |->
                   IF g.nodes[i].name \in diNames THEN LiveIns(g, diNames, dwOut, g.nodes[i].name) ELSE <<>>]))
    IN  SelectSeq(all, LAMBDA x : ~IsSym(NodeNamed(g, x))) \o SelectSeq(all, LAMBDA x : IsSym(NodeNamed(g, x)))

Halves(g, diOut, dwOut, saved) ==
    [ok |-> Extractable(g, InputNames(g), diOut \o saved) /\ Extractable(g, saved, dwOut),
     di |-> Extracted(g, InputNames(g), diOut \o saved, {}),
     dw |-> Extracted(g, saved, dwOut, {})]
DiDwSplit(g, numGrads) ==
    LET dwOut == SubSeq(g.outputs, 1, numGrads)
        diOut == SubSeq(g.outputs, numGrads + 1, Len(g.outputs))
    IN  IF diOut = <<>> THEN [ok |-> TRUE, di |-> NoGraph, dw |-> NoGraph]
        ELSE Halves(g, diOut, dwOut,
                    SavedForWeight(g, Names(ToSet(Extracted(g, InputNames(g), diOut, {}).nodes)), dwOut))

\* multiplex_fw_bw_graph: the backward's inputs, nodes and outputs before the
\* forward's.
Multiplexed(fw, bw) ==
    LET InBw(x) == IF x = None THEN None ELSE "bw_" \o x
        copied == [i \in 1..Len(bw.nodes) |->
                     [bw.nodes[i] EXCEPT !.name = InBw(@), !.args = [k \in 1..Len(@) |-> InBw(@[k])]]]
        inputs(nodes) == SelectSeq(nodes, LAMBDA n : n.op = "input")
        calls(nodes) == SelectSeq(nodes, LAMBDA n : n.op # "input")
        whole == [nodes |-> inputs(copied) \o inputs(fw.nodes) \o calls(copied) \o calls(fw.nodes),
                  outputs |-> [i \in 1..Len(bw.outputs) |-> InBw(bw.outputs[i])] \o fw.outputs]
    IN  DeadCodeEliminated(whole, ImpureNames(whole))

\* _build_stage_graphs, after the passes.
Stage(part, forward, backward, halves) ==
    [part |-> part, forward |-> forward, backward |-> backward, halves |-> halves]
StageBuilt(g, numFwd, numParams, numGrads, bwdOnly) ==
    CHOOSE stage \in
      {Stage(part, ForwardSplit(part, numParams), backward, DiDwSplit(backward.bw, numGrads)) :
         <<part, backward>> \in {<<p, BackwardSplit(p.bw, numGrads)>> : p \in {Partitioned(g, numFwd, bwdOnly)}}} : TRUE
Built(stage) == stage.part.ok /\ stage.forward.ok /\ stage.backward.ok /\ stage.halves.ok
=============================================================================
