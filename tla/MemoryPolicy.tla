----------------------------- MODULE MemoryPolicy -----------------------------
(***************************************************************************)
(* What becomes of a forward activation until the backward that needs it   *)
(* (memory_policy.py; tag_all_offloadable_activations of cpu_offload.py):  *)
(* every forward node of the layers is tagged to be saved, recomputed, or  *)
(* moved to the host.                                                      *)
(***************************************************************************)
EXTENDS GraphNormalize

Save == "save"
PreferRecompute == "prefer_recompute"
MustRecompute == "must_recompute"
Offload == "offload"
Recomputed == {PreferRecompute, MustRecompute}   \* must_recompute of the partitioner

Policies == {"default", "full", "eager", "sac_and_offload"}

\* What is dear to compute, or a communication: _get_default_save_ops.
SaveOps == {"linear", "mm", "flex", "attn", "topk", "reduce_scatter", "all_to_all"}
MatMuls == {"linear", "mm"}

\* The nodes the policy is asked about: forward, before the lm_head, with no
\* decision of their own.
Inherits(n) == n.target \in {"getitem", "wait"}
Taggable(n) == IsCall(n) /\ ~n.bwd /\ ~n.loss
Asked(n, force) == Taggable(n) /\ n.name \notin force /\ ~Inherits(n) /\ ~IsSym(n)

\* _make_eager_memory_policy: in each layer every second product is recomputed.
ProductsBefore(g, i, force) ==
    LET step(acc, n) ==
            LET layer == IF n.layer = NotInLayers THEN acc.layer ELSE n.layer
                before == IF layer = acc.layer THEN acc.count ELSE 0
            IN  IF ~Asked(n, force) THEN acc
                ELSE [layer |-> layer, count |-> before + (IF n.target \in MatMuls THEN 1 ELSE 0)]
    IN  Fold(step, [layer |-> NotInLayers, count |-> 0], SubSeq(g.nodes, 1, i)).count

PolicyTag(g, i, policy, force) ==
    CASE policy = "full" -> MustRecompute
      [] policy = "eager" /\ g.nodes[i].target \in MatMuls /\ ProductsBefore(g, i, force) % 2 = 0 -> PreferRecompute
      [] OTHER -> IF g.nodes[i].target \in SaveOps THEN Save ELSE PreferRecompute

\* tag_sac_policy, first pass: getitem and wait take their parent's tag, and a
\* size is always saved.
NodesTagged(g, policy, force) ==
    LET step(nodes, i) ==
            LET n == g.nodes[i]
                tag == CASE ~Taggable(n) -> n.tag
                         [] Taggable(n) /\ n.name \in force -> Save
                         [] Taggable(n) /\ n.name \notin force /\ Inherits(n) -> nodes[Position(nodes, n.args[1])].tag
                         [] Taggable(n) /\ n.name \notin force /\ ~Inherits(n) /\ IsSym(n) -> Save
                         [] Asked(n, force) -> PolicyTag(g, i, policy, force)
            IN  Append(nodes, [n EXCEPT !.tag = tag])
    IN  [g EXCEPT !.nodes = Fold(step, <<>>, [i \in 1..Len(g.nodes) |-> i])]

\* Second pass: what a later layer would have to be recomputed from is saved.
CrossesLayers(g, n) ==
    /\ n.tag \in Recomputed /\ ~n.bwd
    /\ \E u \in ToSet(g.nodes) : n.name \in Inputs(u) /\ ~u.bwd /\ u.tag \in Recomputed /\ u.layer > n.layer
BoundariesSaved(g) ==
    [g EXCEPT !.nodes = [i \in 1..Len(@) |-> IF CrossesLayers(g, @[i]) THEN [@[i] EXCEPT !.tag = Save] ELSE @[i]]]

\* _find_fsdp_unshard_save_nodes.
UnshardSaveNodes(g) == UNION {ToSet(UnshardOutputs(g, x)) : x \in ToSet(InputNames(g))}

\* tag_with_memory_policy_pass.  Only the default policy, and what builds on
\* it, keeps the unsharded parameters when they are not resharded.
PolicyTagged(g, policy, reshard) ==
    LET force == IF policy \in {"default", "sac_and_offload"} /\ ~reshard THEN UnshardSaveNodes(g) ELSE {}
    IN  BoundariesSaved(NodesTagged(g, policy, force))

(***************************************************************************)
(* The activations worth a copy on the host.                               *)
(***************************************************************************)
IsTensor(n) == ~IsTuple(n) /\ ~IsSym(n)
CanOffload(n) == IsCall(n) /\ ~IsView(n) /\ n.target \notin Collectives \cup {"wait"} /\ IsTensor(n)

ForwardUsers(g, x) == {u \in ToSet(g.nodes) : x \in Inputs(u) /\ ~u.bwd}

\* _has_recompute_consumer, through views.
RECURSIVE HasRecomputeConsumer(_, _)
HasRecomputeConsumer(g, x) ==
    \E u \in ForwardUsers(g, x) : u.tag \in Recomputed \/ (IsView(u) /\ HasRecomputeConsumer(g, u.name))

\* _get_storage_chain: the forward readers of a storage, through views.
RECURSIVE StorageChain(_, _)
StorageChain(g, x) ==
    LET users == ForwardUsers(g, x)
    IN  Names(users) \cup UNION {StorageChain(g, u.name) : u \in {v \in users : IsView(v)}}
HasBackward(g, x) ==
    \E u \in ToSet(g.nodes) :
       u.bwd /\ Inputs(u) \cap ({x} \cup {v \in StorageChain(g, x) : IsView(NodeNamed(g, v))}) # {}

LastLayer(g) ==
    LET layers == {n.layer : n \in ToSet(g.nodes)} \ {NotInLayers}
    IN  IF Cardinality(layers) > 1 THEN CHOOSE l \in layers : \A k \in layers : k <= l ELSE NotInLayers

OffloadCandidates(g) ==
    {n.name : n \in {m \in ToSet(g.nodes) :
        /\ CanOffload(m) /\ ~m.bwd /\ m.layer \notin {NotInLayers, LastLayer(g)}
        /\ \/ m.tag = Save
           \/ m.tag = Untagged /\ ~HasRecomputeConsumer(g, m.name) /\ HasBackward(g, m.name)}}

\* tag_all_offloadable_activations: the budget takes them largest first, so any
\* of them may be chosen.
OffloadTagged(g, chosen) ==
    [g EXCEPT !.nodes = [i \in 1..Len(@) |-> IF @[i].name \in chosen THEN [@[i] EXCEPT !.tag = Offload] ELSE @[i]]]
=============================================================================
