------------------------------ MODULE CpuOffload ------------------------------
(***************************************************************************)
(* apply_cpu_offload_pass (cpu_offload.py).  An activation tagged for it   *)
(* is copied to the host, its device storage released once its last        *)
(* forward reader ran, and it is read back before the backward needs it:   *)
(*                                                                         *)
(*   x -> offload -> wait(keepalive x, last use)                           *)
(*        .. backward .. reload -> wait -> the backward's readers          *)
(***************************************************************************)
EXTENDS MemoryPolicy

CONSTANTS DeferLayers,        \* defer_n_layers
          PrefetchLookahead   \* prefetch_lookahead

OffloadName(x) == x \o "_offload"
OffloadWait(x) == x \o "_offload_wait"
ReloadName(x) == x \o "_reload"
ReloadWait(x) == x \o "_reload_wait"
Replay(x) == x \o "_replayed"
IsCopyOp(n) == n.target \in Copies \cup {"ao_wait"}   \* _AO_OPS

BackwardUsers(g, x) == {u.name : u \in {n \in ToSet(g.nodes) : n.bwd /\ x \in Inputs(n)}}

\* _collect_view_replay_info: the forward views of x, through views.
RECURSIVE ReplayViews(_, _)
ReplayViews(g, x) ==
    LET views == {u.name : u \in {v \in ForwardUsers(g, x) : IsView(v)}}
    IN  views \cup UNION {ReplayViews(g, v) : v \in views}

BackwardReaders(g, x) == UNION {BackwardUsers(g, y) : y \in {x} \cup ReplayViews(g, x)}
First(g, names) == CHOOSE x \in names : \A y \in names : Position(g.nodes, x) <= Position(g.nodes, y)
Latest(g, names) == CHOOSE x \in names : \A y \in names : Position(g.nodes, y) <= Position(g.nodes, x)

\* The offloads to make, as the graph was before the first of them.
Offloadable(g) == {n.name : n \in {m \in ToSet(g.nodes) : m.tag = Offload /\ BackwardReaders(g, m.name) # {}}}

\* _find_last_tensor_consumer.
LastUse(g, x) ==
    LET last == Latest(g, {x} \cup {y \in StorageChain(g, x) : ~IsCopyOp(NodeNamed(g, y))})
        tensors == {u.name : u \in {n \in ToSet(g.nodes) : last \in Inputs(n) /\ IsTensor(n)}}
    IN  IF IsTensor(NodeNamed(g, last)) THEN last ELSE IF tensors = {} THEN None ELSE First(g, tensors)

\* One offload; g0 is the graph before any.
Offloaded(g, g0, x) ==
    LET n == [NodeNamed(g0, x) EXCEPT !.tag = Untagged, !.item = 0]
        first == First(g0, BackwardReaders(g0, x))
        views == SelectSeq(g0.nodes, LAMBDA v : v.name \in ReplayViews(g0, x))
        to == (x :> ReloadWait(x)) @@ [v \in ReplayViews(g0, x) |-> Replay(v)]
        out == << [n EXCEPT !.name = OffloadName(x), !.target = "offload", !.args = <<x>>],
                  [n EXCEPT !.name = OffloadWait(x), !.target = "ao_wait",
                            !.args = <<OffloadName(x), x, LastUse(g0, x)>>] >>
        back == << [n EXCEPT !.name = ReloadName(x), !.target = "reload", !.args = <<OffloadWait(x)>>, !.bwd = TRUE],
                   [n EXCEPT !.name = ReloadWait(x), !.target = "ao_wait",
                             !.args = <<ReloadName(x), OffloadWait(x)>>, !.bwd = TRUE] >>
                \o [i \in 1..Len(views) |-> [views[i] EXCEPT !.name = Replay(@), !.args = Renamed(@, to),
                                                             !.bwd = TRUE, !.tag = Untagged]]
    IN  [ArgsRenamed(g, BackwardReaders(g0, x), to) EXCEPT !.nodes = PutBefore(PutAfter(@, x, out), first, back)]

(***************************************************************************)
(* defer_offload_waits: a forward region is a run of calls of one layer    *)
(* before the first backward node; its anchor is its last node.            *)
(***************************************************************************)
ForwardCalls(g) ==
    LET backward == {i \in 1..Len(g.nodes) : IsCall(g.nodes[i]) /\ g.nodes[i].bwd}
        stop == IF backward = {} THEN Len(g.nodes) ELSE (CHOOSE i \in backward : \A j \in backward : i <= j) - 1
    IN  SelectSeq(SubSeq(g.nodes, 1, stop), IsCall)
RegionStarts(calls) == {i \in 1..Len(calls) : i = 1 \/ calls[i].layer # calls[i - 1].layer}
RegionOf(calls, i) == Cardinality({j \in RegionStarts(calls) : j <= i})
Anchors(calls) == [r \in 1..Cardinality(RegionStarts(calls)) |->
                     calls[CHOOSE i \in 1..Len(calls) :
                             RegionOf(calls, i) = r /\ (i = Len(calls) \/ RegionOf(calls, i + 1) # r)].name]

DeferAnchor(calls, x, lastUse) ==
    LET own == RegionOf(calls, Position(calls, x))
        last == IF Position(calls, lastUse) = 0 THEN own ELSE RegionOf(calls, Position(calls, lastUse))
        later == IF own + DeferLayers > last THEN own + DeferLayers ELSE last
    IN  Anchors(calls)[IF later > Len(Anchors(calls)) THEN Len(Anchors(calls)) ELSE later]

WaitsDeferred(g, offloads) ==
    LET calls == ForwardCalls(g)
        step(acc, x) == [acc EXCEPT !.nodes = MovedAfter(@, OffloadWait(x),
                            DeferAnchor(calls, x, NodeNamed(acc, OffloadWait(x)).args[3]))]
    IN  IF DeferLayers = 0 THEN g ELSE Fold(step, g, offloads)

(***************************************************************************)
(* prefetch_reloads: a backward region starts at its anchor; a reload goes *)
(* before the anchor of a layer the backward reaches earlier.              *)
(***************************************************************************)
TargetAt(calls, firsts, pos) ==
    IF pos = 0 THEN None
    ELSE IF pos <= PrefetchLookahead THEN (IF 1 < firsts[pos] THEN calls[1].name ELSE None)
    ELSE calls[firsts[pos - PrefetchLookahead]].name
\* The calls at which each layer's first region starts, in the order the
\* backward meets them.
FirstOfLayers(calls) ==
    SelectSeq([i \in 1..Len(calls) |-> i],
              LAMBDA i : calls[i].layer # NotInLayers /\ ~\E j \in 1..(i - 1) : calls[j].layer = calls[i].layer)
TargetOfLayer(calls, firsts, layer) ==
    TargetAt(calls, firsts, SelectInSeq(firsts, LAMBDA i : calls[i].layer = layer))
BackwardCalls(g) == SelectSeq(g.nodes, LAMBDA n : IsCall(n) /\ n.bwd /\ ~IsCopyOp(n))
ReloadTarget(g, layer) == TargetOfLayer(BackwardCalls(g), FirstOfLayers(BackwardCalls(g)), layer)

MovedToTarget(g, x, target) == IF target = None THEN g ELSE [g EXCEPT !.nodes = MovedBefore(@, x, target)]
ReloadsPrefetched(g) ==
    IF PrefetchLookahead = 0 THEN g
    ELSE Fold(LAMBDA acc, n : MovedToTarget(acc, n.name, ReloadTarget(g, n.layer)), g,
              SelectSeq(g.nodes, LAMBDA n : n.target = "reload"))

\* apply_cpu_offload_pass.
CpuOffloadApplied(g) ==
    LET offloads == SelectSeq(NameSeq(g), LAMBDA x : x \in Offloadable(g))
    IN  IF offloads = <<>> THEN g
        ELSE ReloadsPrefetched(WaitsDeferred(Fold(LAMBDA acc, x : Offloaded(acc, g, x), g, offloads), offloads))
=============================================================================
