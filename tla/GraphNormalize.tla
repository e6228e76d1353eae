---------------------------- MODULE GraphNormalize ----------------------------
(***************************************************************************)
(* The normalization of a traced step (remove_noop_passes.py and           *)
(* deduplicate_fsdp_unshard_chains_pass), which every later pass assumes,  *)
(* and the patterns FSDP leaves in a trace (fsdp_patterns.py):             *)
(*                                                                         *)
(*   parameter -> cast -> all_gather -> wait -> [split/cat] -> view* -> .. *)
(*   .. -> gradient -> cast -> reduce_scatter -> wait [-> all_reduce ..]   *)
(***************************************************************************)
EXTENDS FxGraph

Single(S) == CHOOSE x \in S : TRUE

\* Each of the nodes replaced by its first argument and erased, in graph order.
Bypassed(g, names) ==
    LET step(acc, n) == IF n.name \in names THEN UsesReplaced(acc, n.name :> NodeNamed(acc, n.name).args[1])
                        ELSE acc
    IN  Erased(Fold(step, g, g.nodes), names)

\* eliminate_dead_code_pass: the runtime asserts count as pure.
ForcePure == {"assert_async"}
DeadCodeGone(g) ==
    DeadCodeEliminated(g, {n.name : n \in {m \in ToSet(g.nodes) : Impure(m) /\ m.target \notin ForcePure}})

DetachesRemoved(g) == Bypassed(g, {n.name : n \in {m \in ToSet(g.nodes) : m.target = "detach"}})

IdentityViewsRemoved(g) ==
    Bypassed(g, {n.name : n \in {m \in ToSet(g.nodes) : m.target \in {"view", "reshape"} /\ m.item = 0}})

\* remove_b2b_transpose_pass: t(t(x)) is x; the inner one goes when nothing
\* else uses it.
ErasedIfUnused(g, x) == IF Users(g, x) = {} THEN Erased(g, {x}) ELSE g
TransposePairCollapsed(g, n, inner) ==
    IF n.target # "t" \/ inner.target # "t" THEN g
    ELSE ErasedIfUnused(Erased(UsesReplaced(g, n.name :> inner.args[1]), {n.name}), inner.name)
TransposeVisited(g, n) == TransposePairCollapsed(g, n, NodeNamed(g, n.args[1]))
TransposePairsRemoved(g) ==
    Fold(LAMBDA acc, n : IF n.target = "t" THEN TransposeVisited(acc, NodeNamed(acc, n.name)) ELSE acc, g, g.nodes)

IdentitySlicesRemoved(g) ==
    Bypassed(g, {n.name : n \in {m \in ToSet(g.nodes) : m.target = "slice" /\ m.item = 0}})

ViewsAsReshape(g) ==
    [g EXCEPT !.nodes = [i \in 1..Len(@) |-> IF @[i].target = "view" THEN [@[i] EXCEPT !.target = "reshape"]
                                             ELSE @[i]]]

\* canonicalize_graph_pass.
Canonicalized(g) ==
    ViewsAsReshape(IdentitySlicesRemoved(TransposePairsRemoved(IdentityViewsRemoved(DetachesRemoved(g)))))

(***************************************************************************)
(* FSDP patterns.                                                          *)
(***************************************************************************)

\* The only user of a value, when it reads nothing else; Output otherwise.
UnaryUser(g, x) ==
    IF Cardinality(Users(g, x)) # 1 \/ Output \in Users(g, x) THEN Output
    ELSE IF Cardinality(Inputs(NodeNamed(g, Single(Users(g, x))))) > 1 THEN Output
    ELSE Single(Users(g, x))

\* _find_last_all_gather_in_chain.
RECURSIVE LastAllGather(_, _, _)
LastAllGather(g, x, last) ==
    CHOOSE found \in {IF y = Output THEN here ELSE LastAllGather(g, y, here) :
                        <<y, here>> \in {<<UnaryUser(g, x), IF NodeNamed(g, x).target = "all_gather" THEN x ELSE last>>}} :
      TRUE

\* The cat that puts the parts of a split back together, if that is all that
\* becomes of them.
OnlyCat(g, ends) ==
    IF Cardinality(ends) = 1 /\ Output \notin ends /\ NodeNamed(g, Single(ends)).target = "cat"
    THEN Single(ends) ELSE Output
CatOfSplit(g, x) ==
    IF /\ NodeNamed(g, x).target = "split"
       /\ \A u \in Users(g, x) : u # Output /\ NodeNamed(g, u).target = "getitem"
    THEN OnlyCat(g, UNION {Users(g, u) : u \in Users(g, x)}) ELSE Output

\* _find_last_user_in_wait_chain.
NextInWaitChain(g, x) == IF Cardinality(Users(g, x)) # 1 THEN CatOfSplit(g, x) ELSE UnaryUser(g, x)
RECURSIVE LastInWaitChain(_, _)
LastInWaitChain(g, x) ==
    CHOOSE last \in {IF y = Output THEN x ELSE LastInWaitChain(g, y) : y \in {NextInWaitChain(g, x)}} : TRUE

\* _unshard_output_from_all_gather: the last node of the chain that is no view.
UnshardOutputOf(g, gather) == ViewBase(g, LastInWaitChain(g, Single(Users(g, gather))))

\* find_fsdp_unshard_outputs, in the order the parameter is read.
GathersFrom(g, names) ==
    SelectSeq([i \in 1..Len(names) |-> LastAllGather(g, names[i], None)], LAMBDA x : x # None)
UnaryReaders(g, x) == SelectSeq(NameSeq(g), LAMBDA y : Inputs(NodeNamed(g, y)) = {x})
UnshardGathers(g, param) ==
    CHOOSE gathers \in {IF own # <<>> THEN own ELSE GathersFrom(g, UnaryReaders(g, param)) :
                          own \in {GathersFrom(g, <<param>>)}} : TRUE
OutputsOf(g, gathers) == UniqueInOrder([i \in 1..Len(gathers) |-> UnshardOutputOf(g, gathers[i])])
UnshardOutputs(g, param) == OutputsOf(g, UnshardGathers(g, param))

\* find_fsdp_reduce_grad_input: the value the first of the collectives that end
\* in this gradient reads, or None.
RECURSIVE ReduceInput(_, _, _)
ReduceInput(g, x, found) ==
    LET inputs == Inputs(NodeNamed(g, x))
    IN  IF Cardinality(inputs) # 1 \/ Cardinality(Users(g, Single(inputs))) > 1 THEN found
        ELSE ReduceInput(g, Single(inputs), IF NodeNamed(g, x).target \in ReduceTargets THEN Single(inputs) ELSE found)
ReduceGradInput(g, x) == IF x = None THEN None ELSE ReduceInput(g, x, None)

\* deduplicate_fsdp_unshard_chains_pass: a parameter that is read twice is
\* gathered once.
DuplicatesReplaced(acc, param, outs) ==
    IF Len(outs) <= 1 THEN acc
    ELSE [graph |-> UsesReplaced(acc.graph, [x \in ToSet(Tail(outs)) |-> outs[1]]),
          removable |-> acc.removable \cup (NodeClosure(acc.graph, Tail(outs)) \ {param})]
WithoutDuplicates(graph, removable) ==
    IF removable = {} THEN graph ELSE DeadCodeEliminated(graph, ImpureNames(graph) \ removable)
UnshardsDeduplicated(g) ==
    CHOOSE clean \in
        {WithoutDuplicates(done.graph, done.removable) : done \in
           {Fold(LAMBDA acc, param : DuplicatesReplaced(acc, param, UnshardOutputs(acc.graph, param)),
                 [graph |-> g, removable |-> {}], InputNames(g))}} : TRUE
=============================================================================
