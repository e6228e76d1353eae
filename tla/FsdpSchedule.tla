---------------------------- MODULE FsdpSchedule ----------------------------
(***************************************************************************)
(* Which of FSDP's collectives go together and when they start             *)
(* (fsdp_passes.py).  First the gathers and the reductions of a plan, the  *)
(* modules of which share a bucket, become one collective per direction,   *)
(* started one bucket ahead (joint_transformer_block_bucketing_reordering_ *)
(* pass).  Then, with the exchanges of experts in place, the launches move *)
(* to where the neighboring layer computes attention                       *)
(* (schedule_fsdp_comms_to_dense_regions_pass, strict).                    *)
(***************************************************************************)
EXTENDS EpOverlap

(***************************************************************************)
(* Buckets.                                                                *)
(***************************************************************************)

\* get_default_transformer_block_buckets: experts are sharded over another mesh
\* than the rest of their layer.
LayerPlans(i) ==
    << [k \in 1..4 |-> In(i, << <<"attention_norm">>, <<"attention">>, <<"ffn_norm">>, <<"moe", "router">> >>[k])],
       << In(i, <<"moe", "experts">>) >> >>
BucketPlans(layers) ==
    << << <<"tok_embeddings">> >> >> \o FlattenSeq([k \in 1..layers |-> LayerPlans(k - 1)]) \o << << <<"norm">>, <<"lm_head">> >> >>
InPlan(n, plan) == \E k \in 1..Len(plan) : Inside(n.fqn, plan[k])

NamesOf(nodes) == [i \in 1..Len(nodes) |-> nodes[i].name]
FsdpWait(g, x) == Single({u \in Users(g, x) \ {Output} : NodeNamed(g, u).target = "wait"})

\* FSDPParamOrderBucketer: in the order the parameters were registered.
InParamOrder(g, names, modules) ==
    FlattenSeq([k \in 1..Len(modules) |-> SelectSeq(names, LAMBDA x : NodeNamed(g, x).fqn = modules[k])])
Collected(g, plan, bwd, target) ==
    NamesOf(SelectSeq(g.nodes, LAMBDA n : n.target = target /\ n.bwd = bwd /\ InPlan(n, plan)))

\* _bucket_group (torch) and _annotate_new_bucket_nodes: launched after the first
\* of them, waited for where the first wait was, taken apart at once.  The casts
\* that only a gather reads become part of packing.
BucketNode(n, plan, x, target, args) == [n EXCEPT !.name = x, !.target = target, !.args = args, !.plan = plan]
Part(x) == "part_" \o x
CastsOf(g, launches) ==
    {x \in UNION {Inputs(NodeNamed(g, y)) : y \in ToSet(launches)} :
        NodeNamed(g, x).target = "cast" /\ Cardinality(Users(g, x)) = 1}
PackNode(g, n, plan, launches) ==
    LET inputs == [k \in 1..Len(launches) |-> NodeNamed(g, launches[k]).args[1]]
    IN  IF n.target = "all_gather" /\ ToSet(inputs) \subseteq CastsOf(g, launches)
        THEN BucketNode(n, plan, "pack_" \o n.name, "pack_cast", [k \in 1..Len(inputs) |-> NodeNamed(g, inputs[k]).args[1]])
        ELSE BucketNode(n, plan, "pack_" \o n.name, "pack", inputs)
Bucketed(g, plan, launches) ==
    LET n == NodeNamed(g, launches[1])
        named(what) == what \o n.name
        waits == [k \in 1..Len(launches) |-> FsdpWait(g, launches[k])]
        pack == PackNode(g, n, plan, launches)
        start == << pack, BucketNode(n, plan, named("bucket_"), n.target, <<pack.name>>) >>
        finish == << BucketNode(n, plan, named("done_"), "wait", <<named("bucket_")>>) >>
                    \o [k \in 1..Len(launches) |->
                          Item(BucketNode(n, plan, Part(launches[k]), "unpack", <<named("done_")>>), k)]
        put == [g EXCEPT !.nodes = PutBefore(PutAfter(@, n.name, start), FirstOf(g, ToSet(waits)), finish)]
        to == [w \in ToSet(waits) |-> Part(launches[SelectInSeq(waits, LAMBDA y : y = w)])]
        merged == IF pack.target = "pack_cast" THEN CastsOf(g, launches) ELSE {}
    IN  Erased(UsesReplaced(put, to), ToSet(launches) \cup ToSet(waits) \cup merged)
BucketedAs(g, plan, bwd, target, modules) ==
    CHOOSE h \in {IF launches = <<>> THEN g ELSE Bucketed(g, plan, launches) :
                    launches \in {InParamOrder(g, Collected(g, plan, bwd, target), modules)}} : TRUE
ModuleBucketed(g, plan, modules) ==
    BucketedAs(BucketedAs(BucketedAs(g, plan, FALSE, "all_gather", modules), plan, TRUE, "all_gather", modules),
               plan, TRUE, "reduce_scatter", modules)
BucketsMade(g, layers, modules) ==
    SortedBy(Fold(LAMBDA acc, plan : ModuleBucketed(acc, plan, modules), g, BucketPlans(layers)), {})

(***************************************************************************)
(* _manual_reorder_graph: dependencies <<before, after>> under which the   *)
(* graph is sorted again.                                                  *)
(***************************************************************************)
IsBucket(n, target) == n.plan # NoPlan /\ n.target = target
IsBucketWait(g, n, target) == n.plan # NoPlan /\ n.target = "wait" /\ NodeNamed(g, n.args[1]).target = target

\* _schedule_rs_prefetch: a reduction is waited for when the next one has started.
RsPrefetch(g) ==
    Fold(LAMBDA acc, n :
           IF IsBucket(n, "reduce_scatter") THEN [acc EXCEPT !.starts = @ \cup {n.name}]
           ELSE IF IsBucketWait(g, n, "reduce_scatter")
             THEN [deps |-> acc.deps \cup {<<s, d>> : s \in acc.starts, d \in acc.delayed}, starts |-> {},
                   delayed |-> (IF acc.starts = {} THEN acc.delayed ELSE {}) \cup {n.name}]
             ELSE acc,
         [deps |-> {}, starts |-> {}, delayed |-> {}], g.nodes).deps

\* _schedule_ag_prefetch: a gather starts before the one in front of it in its
\* direction is waited for.
ComputeTargets == {"linear", "mm", "attn", "attn_back", "grouped_mm", "dw"}
AgPrefetch(g) ==
    FoldBack(LAMBDA n, acc :
           IF IsBucket(n, "all_gather") THEN [acc EXCEPT !.picked[n.bwd] = @ \cup {n.name}]
           ELSE IF IsBucketWait(g, n, "all_gather")
             THEN [acc EXCEPT !.deps = @ \cup {<<s, n.name>> : s \in acc.picked[n.bwd]}, !.picked[n.bwd] = {}]
           ELSE IF n.target \in ComputeTargets THEN [acc EXCEPT !.last[n.bwd] = n.name]
           ELSE acc,
         g.nodes, [deps |-> {}, picked |-> [bwd \in BOOLEAN |-> {}], last |-> [bwd \in BOOLEAN |-> None]])

\* _apply_trailing_block: the gathers no wait was found for.
TrailingBlock(g, picked, last) ==
    IF last = None \/ picked \cap NodeClosure(g, <<last>>) # {} THEN {} ELSE {<<s, last>> : s \in picked}
AgDeps(g, ag) == ag.deps \cup UNION {TrailingBlock(g, ag.picked[bwd], ag.last[bwd]) : bwd \in BOOLEAN}

JointBucketed(g, layers, modules) ==
    CHOOSE h \in {SortedBy(made, RsPrefetch(made) \cup AgDeps(made, AgPrefetch(made))) :
                    made \in {BucketsMade(g, layers, modules)}} : TRUE

(***************************************************************************)
(* Dense regions: of a layer with experts, its attention; above the        *)
(* layers, the norm and the head.                                          *)
(***************************************************************************)
DenseTargets == ComputeTargets \cup {"norm", "norm_back"}
TopModules == { <<"norm">>, <<"lm_head">> }
DenseIn(g, fqns, bwd) ==
    NamesOf(SelectSeq(g.nodes, LAMBDA n : n.fqn \in fqns /\ n.bwd = bwd /\ n.target \in DenseTargets))
DenseRegion(g, i, bwd) == DenseIn(g, {In(i, <<"attention">>), In(i, <<"attention_norm">>)}, bwd)
TopRegion(g) == DenseIn(g, TopModules, TRUE)

\* _collect_bucketed_fsdp_comms: by the plan they are for.  Slot layers is the
\* norm and the head; the embedding has none.
BucketLaunches(g, target, bwd) ==
    NamesOf(SelectSeq(g.nodes, LAMBDA n : IsBucket(n, target) /\ n.bwd = bwd))
OfLayer(plan, i) == \E k \in 1..Len(plan) : Inside(plan[k], In(i, <<>>))
OfTop(plan) == ToSet(plan) \cap TopModules # {}
InSlot(g, launches, i, layers) ==
    SelectSeq(launches, LAMBDA x : IF i < layers THEN OfLayer(NodeNamed(g, x).plan, i) ELSE OfTop(NodeNamed(g, x).plan))
Gathers(g, i, layers, bwd) == InSlot(g, BucketLaunches(g, "all_gather", bwd), i, layers)
Reduces(g, i, layers) == InSlot(g, BucketLaunches(g, "reduce_scatter", TRUE), i, layers)

\* _validate_transformer_block_bucket_counts
BucketsInPlace(g, layers) ==
    \A i \in 0..(layers - 1) : \A launches \in {Gathers(g, i, layers, FALSE), Gathers(g, i, layers, TRUE), Reduces(g, i, layers)} :
        Len(launches) = Len(LayerPlans(i))

(***************************************************************************)
(* Which launch goes before which node.                                    *)
(***************************************************************************)
LaunchChain(g, x) == {x} \cup {y \in Inputs(NodeNamed(g, x)) : NodeNamed(g, y).target \in {"pack", "pack_cast"}}
External(g, chain) == UNION {Inputs(NodeNamed(g, x)) : x \in chain} \ chain

\* _find_dense_target: None if nothing of the region comes after what it needs.
DenseTarget(g, x, region) ==
    LET after == SelectSeq(region, LAMBDA y : \A z \in External(g, LaunchChain(g, x)) :
                                                 Position(g.nodes, z) < Position(g.nodes, y))
    IN  IF after = <<>> THEN None ELSE after[1]
MovesTo(g, launches, region) == [k \in 1..Len(launches) |-> [launch |-> launches[k], target |-> DenseTarget(g, launches[k], region)]]

\* Forward, a gather goes to the layer before; backward, gathers to the layer
\* after and reductions to the layer before.  The bottom edge stays.
LayerMoves(g, i, layers) ==
    LET below == IF i = 0 THEN <<>> ELSE <<i - 1>>
        above == IF i + 1 = layers THEN <<>> ELSE <<i + 1>>
        Moved(launches, at, bwd) ==
            IF at = <<>> \/ DenseRegion(g, at[1], bwd) = <<>> THEN <<>> ELSE MovesTo(g, launches, DenseRegion(g, at[1], bwd))
    IN  Moved(Gathers(g, i, layers, FALSE), below, FALSE) \o Moved(Gathers(g, i, layers, TRUE), above, TRUE)
          \o Moved(Reduces(g, i, layers), below, TRUE)
TopMoves(g, layers) ==
    MovesTo(g, Gathers(g, layers, layers, FALSE), DenseRegion(g, layers - 1, FALSE))
      \o MovesTo(g, Reduces(g, layers, layers), DenseRegion(g, layers - 1, TRUE))
      \o (IF TopRegion(g) = <<>> THEN <<>> ELSE MovesTo(g, Gathers(g, layers - 1, layers, TRUE), TopRegion(g)))
DenseMoves(g, layers) == FlattenSeq([k \in 1..layers |-> LayerMoves(g, k - 1, layers)]) \o TopMoves(g, layers)

(***************************************************************************)
(* Moving.  A graph, or NoSchedule when the strict pass raises.            *)
(***************************************************************************)

\* _sink_output_only_wait_closure: what reads a reduction goes to the tail with
\* it, if that only takes it apart.
TailTargets == {"unpack", "getitem", "cast", "reshape", "clone", "detach", "slice", "view"}
ReadOf(g, x) == Fold(LAMBDA S, n : IF Inputs(n) \cap S # {} THEN S \cup {n.name} ELSE S, {x}, g.nodes)
Sunk(g, w) ==
    LET closure == ReadOf(g, w)
    IN  IF \E x \in closure \ {w} : NodeNamed(g, x).target \notin TailTargets THEN NoSchedule
        ELSE [g EXCEPT !.nodes = SelectSeq(@, LAMBDA n : n.name \notin closure) \o SelectSeq(@, LAMBDA n : n.name \in closure)]
ReductionsSunk(g) ==
    Fold(LAMBDA acc, x : IF acc = NoSchedule THEN acc ELSE Sunk(acc, FsdpWait(acc, x)), g,
         NamesOf(SelectSeq(g.nodes, LAMBDA n : n.target = "reduce_scatter")))

\* _move_chain_before: short of nodes with an input after, or a reader before.
PinnedAt(g, S, x, target) ==
    LET at(y) == Position(g.nodes, y)
    IN  \/ \E y \in Inputs(NodeNamed(g, x)) \ S : at(y) >= at(target)
        \/ at(x) < at(target) /\ \E u \in Users(g, x) \ S : at(u) < at(target)
Movable(g, chain, target) == {x \in chain : \E S \in SUBSET chain : x \in S /\ \A y \in S : ~PinnedAt(g, S, y, target)}
ChainMoved(g, names, target) ==
    IF names = {} THEN NoSchedule
    ELSE [g EXCEPT !.nodes = PutBefore(SelectSeq(@, LAMBDA n : n.name \notin names), target, SelectSeq(@, LAMBDA n : n.name \in names))]
MoveMade(g, move) ==
    IF g = NoSchedule THEN g
    ELSE CHOOSE h \in {ChainMoved(g, names, move.target) :
                          names \in {Movable(g, LaunchChain(g, move.launch), move.target)}} : TRUE
DenseScheduled(g, layers) ==
    CHOOSE h \in {IF ~BucketsInPlace(g, layers) \/ \E k \in 1..Len(moves) : moves[k].target = None THEN NoSchedule
                  ELSE Fold(MoveMade, ReductionsSunk(g), moves) :
                    moves \in {DenseMoves(g, layers)}} : TRUE

\* As if no copy to the CPU were under way when it is read.
CopiesBlocking(g) == [g EXCEPT !.nodes = [i \in 1..Len(@) |-> IF @[i].target = "to_cpu" THEN Item(@[i], 2) ELSE @[i]]]

\* The point of it: while a launch is under way the neighbor computes attention,
\* and forward no exchange of tokens is.  Backward, what is recomputed of the
\* neighbor's attention may stand among its exchanges, and launches go there.
UnderWay(g, x) ==
    {n.name : n \in {m \in ToSet(g.nodes) : /\ IsLaunch(m) /\ Position(g.nodes, m.name) < Position(g.nodes, x)
                                            /\ Position(g.nodes, FsdpWait(g, m.name)) > Position(g.nodes, x)}}
Covered(g, x, region) == Between(g, x, FsdpWait(g, x)) \cap ToSet(region) # {}
AllCovered(g, launches, region) == \A k \in 1..Len(launches) : Covered(g, launches[k], region)
FsdpOverlaps(g, layers) ==
    /\ \A i \in 1..layers :
          /\ AllCovered(g, Gathers(g, i, layers, FALSE), DenseRegion(g, i - 1, FALSE))
          /\ \A x \in ToSet(Gathers(g, i, layers, FALSE)) : UnderWay(g, x) = {}
          /\ AllCovered(g, Reduces(g, i, layers), DenseRegion(g, i - 1, TRUE))
    /\ \A i \in 0..(layers - 2) : AllCovered(g, Gathers(g, i, layers, TRUE), DenseRegion(g, i + 1, TRUE))
=============================================================================
