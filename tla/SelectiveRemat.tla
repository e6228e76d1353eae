---------------------------- MODULE SelectiveRemat ----------------------------
(***************************************************************************)
(* selective_activation_remat_pass: the forward nodes tagged for           *)
(* recomputation that the backward of the layers needs are duplicated into *)
(* it, and the originals that only the backward used are erased.           *)
(***************************************************************************)
EXTENDS CpuOffload

MustRecomputeNode(g, x) == NodeNamed(g, x).tag \in Recomputed

\* _collect_backward_regions: the runs of backward nodes after the last node of
\* the lm_head or the loss.
LayerBackwardStart(g) == SelectLastInSeq(g.nodes, LAMBDA n : n.loss) + 1
BackwardRegions(g) ==
    LET start == LayerBackwardStart(g)
        at == {i \in start..Len(g.nodes) : g.nodes[i].bwd}
        End(s) == CHOOSE e \in at : s <= e /\ e + 1 \notin at /\ s..e \subseteq at
    IN  {<<s, End(s)>> : s \in {i \in at : i - 1 \notin at}}
RematRegions(g) ==
    {r \in BackwardRegions(g) : \E i \in r[1]..r[2] : \E x \in Inputs(g.nodes[i]) : MustRecomputeNode(g, x)}

\* The pass gives up loudly when more than one region needs recomputation, or
\* a random draw would have to be repeated.
Rematable(g) == Cardinality(RematRegions(g)) <= 1

\* What a backward node needs recomputed, through what is recomputed itself.
RematNeeds(g, n) ==
    FoldBack(LAMBDA m, S : IF m.name \in S
                              THEN S \cup {x \in Inputs(m) : MustRecomputeNode(g, x)} ELSE S,
              g.nodes, {x \in Inputs(n) : MustRecomputeNode(g, x)})

\* remat_targets: the first backward node of the region that needs it.
RematTargets(g, region) ==
    Fold(LAMBDA acc, n : acc @@ [x \in RematNeeds(g, n) |-> n.name], <<>>, SubSeq(g.nodes, region[1], region[2]))

Recompute(x) == x \o "_recomputed"

\* ensure_offload_chain_before: the reload a duplicate reads moves in front of
\* it, with what the reload needs, unless it is there already.  order is the
\* graph as the pass found it, moved where the nodes moved since were put.
RECURSIVE ChainBehind(_, _, _, _)
ChainBehind(order, moved, x, target) ==
    LET place == IF x \in DOMAIN moved THEN moved[x] ELSE x
    IN  IF ~NodeNamed(order, x).bwd \/ Position(order.nodes, place) <= Position(order.nodes, target) THEN {}
        ELSE {x} \cup UNION {ChainBehind(order, moved, y, target) : y \in Inputs(NodeNamed(order, x))}

Hoisted(acc, g, wait, target) ==
    LET chain == SelectSeq(NameSeq(g), LAMBDA x : x \in ChainBehind(g, acc.moved, wait, target))
    IN  [graph |-> Fold(LAMBDA h, x : [h EXCEPT !.nodes = MovedBefore(@, x, target)], acc.graph, chain),
         moved |-> [x \in ToSet(chain) |-> target] @@ acc.moved]

\* offloaded_fwd_to_bwd_wait.
IsOffloaded(g, x) == x # None /\ OffloadName(x) \in Names(ToSet(g.nodes))

\* Mutant: the reload a duplicate reads stays where it is.
BugRematerialized(acc, g, x, target) ==
    LET n == NodeNamed(g, x)
        input(y) == IF y \in acc.done THEN Recompute(y) ELSE IF IsOffloaded(g, y) THEN ReloadWait(y) ELSE y
        dup == [n EXCEPT !.name = Recompute(x), !.bwd = TRUE, !.args = [i \in 1..Len(@) |-> input(@[i])]]
    IN  [acc EXCEPT !.graph.nodes = PutBefore(@, target, <<dup>>), !.done = @ \cup {x}]

\* The duplicate of x, put before the first backward node that needs it.
Rematerialized(acc, g, x, target) ==
    LET n == NodeNamed(g, x)
        waits == SelectSeq([i \in 1..Len(n.args) |-> IF IsOffloaded(g, n.args[i]) THEN ReloadWait(n.args[i]) ELSE None],
                           LAMBDA y : y # None)
        hoisted == Fold(LAMBDA h, y : Hoisted(h, g, y, target), acc, waits)
        input(y) == IF y \in acc.done THEN Recompute(y) ELSE IF IsOffloaded(g, y) THEN ReloadWait(y) ELSE y
        dup == [n EXCEPT !.name = Recompute(x), !.bwd = TRUE, !.args = [i \in 1..Len(@) |-> input(@[i])]]
    IN  [graph |-> [hoisted.graph EXCEPT !.nodes = PutBefore(@, target, <<dup>>)],
         moved |-> hoisted.moved, done |-> acc.done \cup {x}]

\* The backward's readers read the duplicates, and what nothing reads is erased,
\* the last first.
DirectReadersRedirected(g, done) ==
    ArgsRenamed(g, UNION {BackwardUsers(g, x) : x \in done}, [x \in done |-> Recompute(x)])
DeadOriginalsErased(g, done) ==
    FoldBack(LAMBDA n, acc : IF n.name \in done /\ Users(acc, n.name) = {} THEN Erased(acc, {n.name}) ELSE acc,
              g.nodes, g)
GetitemsRaised(g) ==
    Fold(LAMBDA acc, n : IF n.target = "getitem" THEN [acc EXCEPT !.nodes = MovedAfter(@, n.name, n.args[1])]
                             ELSE acc, g, g.nodes)

Duplicated(g, targets) ==
    Fold(LAMBDA acc, x : Rematerialized(acc, g, x, targets[x]), [graph |-> g, moved |-> <<>>, done |-> {}],
         SelectSeq(NameSeq(g), LAMBDA x : x \in DOMAIN targets))
OriginalsReplaced(dups) ==
    GetitemsRaised(DeadOriginalsErased(DirectReadersRedirected(dups.graph, dups.done), dups.done))
RematApplied(g) ==
    IF RematRegions(g) = {} THEN g
    ELSE OriginalsReplaced(Duplicated(g, RematTargets(g, Single(RematRegions(g)))))
=============================================================================
