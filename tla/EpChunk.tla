------------------------------- MODULE EpChunk -------------------------------
(***************************************************************************)
(* Chunking for the overlap of expert-parallel exchanges with compute      *)
(* (ep_chunk_pass.py): in each selected module the part of the graph that  *)
(* the selected dimension reaches is run on the two halves of its inputs.  *)
(* The body becomes chunk 0 in place, a copy of it is chunk 1, and what    *)
(* the rest of the graph reads is put together again: rows one after the   *)
(* other, gradients of parameters by a sum.                                *)
(*                                                                         *)
(* chunking = [pattern: the modules, "*" for any name; seq: chunks along   *)
(*             the sequence; early: optimize_grad_live_out]                *)
(***************************************************************************)
EXTENDS EpTrace, GraphNormalize

IsTensorVal(n) == n.val \in {Rows, Plain}
OnSymbol(n) == n.val \in {Rows, Tuple, Extent, HalfExtent}
HasRows(g, x) == NodeNamed(g, x).val = Rows
IsC10d(n) == n.target \in Collectives \cup {"all_to_all", "wait"}
Mutates(n) == n.target = "add_"
TensorInputs(g, x) == {y \in Inputs(NodeNamed(g, x)) : IsTensorVal(NodeNamed(g, y))}

\* _is_semantic_user.
Semantic(g, x) == x = Output \/ Users(g, x) # {} \/ Mutates(NodeNamed(g, x))

(***************************************************************************)
(* Modules.                                                                *)
(***************************************************************************)
Inside(fqn, root) == Len(fqn) >= Len(root) /\ SubSeq(fqn, 1, Len(root)) = root
MatchesPattern(pattern, fqn) ==
    Len(fqn) >= Len(pattern) /\ \A i \in 1..Len(pattern) : pattern[i] \in {"*", fqn[i]}

\* _ep_roots: the modules an exchange was traced in.
EpRoots(g, pattern) ==
    {SubSeq(n.fqn, 1, Len(pattern)) :
       n \in {m \in ToSet(g.nodes) : m.target = "all_to_all" /\ MatchesPattern(pattern, m.fqn)}}

(***************************************************************************)
(* The body of a region.                                                   *)
(***************************************************************************)

\* _grad_escape_boundaries: from each parameter's gradient back to the node
\* that is no longer plumbing: it reads two tensors, rows, or another type.
RECURSIVE EscapeOf(_, _)
EscapeOf(g, x) ==
    LET inputs == TensorInputs(g, x)
    IN  IF Cardinality(inputs) # 1 \/ NodeNamed(g, x).target \in {"cast", "to_cpu"} THEN {x}
        ELSE IF HasRows(g, Single(inputs)) THEN {x} ELSE EscapeOf(g, Single(inputs))
GradEscapes(g) == UNION {EscapeOf(g, x) : x \in {y \in Values(Tail(g.outputs)) : NodeNamed(g, y).val = Plain}}

\* _grad_output_suffix_nodes: what comes after those boundaries.
RECURSIVE SuffixOf(_, _, _)
SuffixOf(g, x, escapes) ==
    IF x \in escapes \/ ~IsTensorVal(NodeNamed(g, x)) THEN {}
    ELSE {x} \cup (IF Cardinality(TensorInputs(g, x)) # 1 THEN {} ELSE SuffixOf(g, Single(TensorInputs(g, x)), escapes))
GradSuffix(g, escapes) == UNION {SuffixOf(g, x, escapes) : x \in Values(Tail(g.outputs))}

\* _region_nodes: the nodes traced in the module, and in the backward those of
\* no module that autograd put between them.
Neighbors(g, x) == Inputs(NodeNamed(g, x)) \cup (Users(g, x) \ {Output})
Modules(g, names) == {NodeNamed(g, x).fqn : x \in names} \ {<<>>}
AllInside(g, names, root) == \A fqn \in Modules(g, names) : Inside(fqn, root)
Nameless(g, root) ==
    {n.name : n \in {m \in ToSet(g.nodes) : /\ IsCall(m) /\ m.fqn = <<>> /\ m.bwd /\ ~IsC10d(m)
                                            /\ AllInside(g, Neighbors(g, m.name), root)}}
RECURSIVE Grown(_, _, _, _)
Grown(g, nodes, nameless, anchors) ==
    LET new == {x \in nameless \ nodes : Neighbors(g, x) \cap (nodes \cup anchors) # {}}
    IN  IF new = {} THEN nodes ELSE Grown(g, nodes \cup new, nameless, anchors)
TracedIn(g, root, bwd) ==
    {n.name : n \in {m \in ToSet(g.nodes) : IsCall(m) /\ m.role = None /\ m.bwd = bwd /\ Inside(m.fqn, root)}}
Candidates(g, root, bwd, sources) ==
    IF ~bwd THEN TracedIn(g, root, bwd)
    ELSE Grown(g, TracedIn(g, root, bwd), Nameless(g, root), {x \in sources : Inside(NodeNamed(g, x).fqn, root)})

\* _chunk_influenced_region_nodes: what the rows that come in reach,
Influenced(g, candidates, sources) ==
    Fold(LAMBDA S, n : IF /\ n.name \in candidates
                          /\ \E x \in Inputs(n) : x \in S \cup sources \/ (x \notin candidates /\ HasRows(g, x))
                       THEN S \cup {n.name} ELSE S,
         {}, g.nodes)

\* what else only those read and the symbol made (_owned_chunk_dependencies),
OwnedBy(g, n, candidates, owned) ==
    /\ n.name \notin owned /\ OnSymbol(n)
    /\ n.name \in candidates \/ (IsCall(n) /\ ~IsTensorVal(n))
    /\ Users(g, n.name) \cap owned # {}
    /\ \A u \in Users(g, n.name) \ owned : ~Semantic(g, u)
WithOwned(g, influenced, candidates) ==
    FoldBack(LAMBDA n, S : IF OwnedBy(g, n, candidates, S) THEN S \cup {n.name} ELSE S, g.nodes, influenced)

\* and of that what a tensor read outside, an output or a write needs
\* (_semantic_body_closure), without what follows the gradients' boundaries.
IsSeed(g, n, body) ==
    /\ n.name \in body
    /\ \/ Mutates(n) \/ Output \in Users(g, n.name)
       \/ IsTensorVal(n) /\ \E u \in Users(g, n.name) \ body : Semantic(g, u)
SemanticBody(g, body) ==
    FoldBack(LAMBDA n, S : IF n.name \in S \/ IsSeed(g, n, body) THEN S \cup {n.name} \cup (Inputs(n) \cap body) ELSE S,
             g.nodes, {})

RegionBody(g, candidates, sources, suffix) ==
    SemanticBody(g, WithOwned(g, Influenced(g, candidates, sources), candidates)) \ suffix

Region(g, root, bwd, body) == [root |-> root, bwd |-> bwd, nodes |-> SelectSeq(NameSeq(g), LAMBDA x : x \in body)]
RegionAt(g, root, bwd, sources, suffix) ==
    Region(g, root, bwd, RegionBody(g, Candidates(g, root, bwd, sources), sources, IF bwd THEN suffix ELSE {}))

\* _find_regions: of both directions, in the order of the graph.
RegionsOf(g, roots, sources, suffix) ==
    {r \in {RegionAt(g, root, bwd, sources, suffix) : root \in roots, bwd \in BOOLEAN} : r.nodes # <<>>}
InGraphOrder(g, regions) ==
    LET firsts == SelectSeq(NameSeq(g), LAMBDA x : \E r \in regions : r.nodes[1] = x)
    IN  [i \in 1..Len(firsts) |-> CHOOSE r \in regions : r.nodes[1] = firsts[i]]

(***************************************************************************)
(* What a region reads and what is read of it (_build_plan).               *)
(***************************************************************************)
Body(r) == ToSet(r.nodes)
RegionInputs(g, r) == UNION {Inputs(NodeNamed(g, x)) : x \in Body(r)} \ Body(r)
OutUsers(g, r, x) == {u \in Users(g, x) \ Body(r) : Semantic(g, u)}
LiveOuts(g, r) == SelectSeq(r.nodes, LAMBDA x : OutUsers(g, r, x) # {})

\* The exchanges between experts are the only collectives that may be doubled.
ForExperts(g, r, n) ==
    n.note # None \/ (n.target = "wait" /\ n.args[1] \in Body(r) /\ NodeNamed(g, n.args[1]).note # None)
Chunkable(g, r, seq) ==
    /\ \A x \in Body(r) : IsC10d(NodeNamed(g, x)) => ForExperts(g, r, NodeNamed(g, x))
    /\ seq => \A x \in Body(r) : ~Contains(NodeNamed(g, x).fqn, "attention")
    /\ r.bwd \/ ~\E x \in RegionInputs(g, r) : NodeNamed(g, x).bwd /\ IsTensorVal(NodeNamed(g, x))

\* _split_live_out_users: the backward of the module reads what the forward left
\* chunk by chunk, everyone else the whole.
ChunkedUser(g, r, plans, u) ==
    /\ ~r.bwd /\ u # Output
    /\ \/ \E q \in plans : q.bwd /\ q.root = r.root /\ u \in Body(q)
       \/ /\ NodeNamed(g, u).bwd
          /\ \/ Inside(NodeNamed(g, u).fqn, r.root)
             \/ /\ NodeNamed(g, u).fqn = <<>> /\ OnSymbol(NodeNamed(g, u))
                /\ AllInside(g, Neighbors(g, u), r.root)
FullUsers(g, r, plans, x) == {u \in OutUsers(g, r, x) : ~ChunkedUser(g, r, plans, u)}
\* A scalar that the region and others read stays for the others.
Preserved(g, r) ==
    {x \in ToSet(LiveOuts(g, r)) : ~IsTensorVal(NodeNamed(g, x)) /\ Users(g, x) \cap Body(r) # {}}

(***************************************************************************)
(* Splitting what comes in (_split_live_ins).                              *)
(***************************************************************************)
FirstOf(g, names) == NameSeq(g)[SelectInSeq(NameSeq(g), LAMBDA x : x \in names)]

\* Nodes the pass puts in belong to the module around the root.
RegionName(r) == (IF r.bwd THEN "_b" ELSE "_f") \o r.root[2]
Synthetic(r, x, target, args, val, role) ==
    [EpCall(x, target, args, Front(r.root), val) EXCEPT !.bwd = r.bwd, !.role = role, !.root = r.root]

\* The chunks of a value an earlier region left: routed to this one, or found by
\* the node they were copied from.
CopyOf(g, n, c) ==
    {m.name : m \in {k \in ToSet(g.nodes) : k.orig = n.orig /\ k.root = n.root /\ k.bwd = n.bwd /\ k.chunk = c}}
HasCopies(g, n) == n.orig # None /\ \A c \in {0, 1} : CopyOf(g, n, c) # {}
KnownChunks(g, r, per) ==
    [x \in {y \in RegionInputs(g, r) : y \in DOMAIN per \/ HasCopies(g, NodeNamed(g, y))} |->
        IF x \in DOMAIN per THEN per[x]
        ELSE <<Single(CopyOf(g, NodeNamed(g, x), 0)), Single(CopyOf(g, NodeNamed(g, x), 1))>>]
ToSplit(g, r, known, static) == {x \in RegionInputs(g, r) \ (DOMAIN known \cup static) : HasRows(g, x)}

\* Two halves, made contiguous when they are not rows next to each other.
HalfOf(r, x, k) == x \o RegionName(r) \o "_get" \o ToString(k)
ChunkOf(r, x, k, seq) == HalfOf(r, x, k) \o (IF seq THEN "_clone" ELSE "")
ChunksOf(r, x, seq) == <<ChunkOf(r, x, 0, seq), ChunkOf(r, x, 1, seq)>>
SplitNodes(r, x, seq) ==
    LET name(part) == x \o RegionName(r) \o part
    IN  << Synthetic(r, name("_size"), "sym_size", <<x>>, Extent, "split_boundary"),
           Synthetic(r, name("_half"), "floordiv", <<name("_size")>>, HalfExtent, "chunk_input"),
           Synthetic(r, name("_split"), "split", <<x, name("_half"), name("_half")>>, Scalar, "split_boundary") >>
          \o [i \in 1..2 |-> [Item(Synthetic(r, HalfOf(r, x, i - 1), "getitem", <<name("_split")>>, Rows, "split_boundary"), i)
                                EXCEPT !.chunk = i - 1]]
          \o (IF seq THEN [i \in 1..2 |-> [Synthetic(r, ChunkOf(r, x, i - 1, seq), "clone", <<HalfOf(r, x, i - 1)>>,
                                                     Rows, "chunk_input") EXCEPT !.chunk = i - 1]]
              ELSE <<>>)

\* Before the first node of the body that reads it, or the symbol.
FirstConsumer(g, r, x) ==
    FirstOf(g, {y \in Body(r) : /\ Position(g.nodes, y) > Position(g.nodes, x)
                                /\ \/ x \in Inputs(NodeNamed(g, y))
                                   \/ \E z \in Inputs(NodeNamed(g, y)) : OnSymbol(NodeNamed(g, z))})
WithSplit(g, r, x, seq) == [g EXCEPT !.nodes = PutBefore(@, FirstConsumer(g, r, x), SplitNodes(r, x, seq))]
WithSplits(g, r, names, seq) ==
    Fold(LAMBDA acc, x : IF x \in names THEN WithSplit(acc, r, x, seq) ELSE acc, g, NameSeq(g))

\* The extent as a scalar: of each chunk if it is the size of a chunked value,
\* else half of it.
Extents(g, r, chunks) == {x \in RegionInputs(g, r) \ DOMAIN chunks : NodeNamed(g, x).val = Extent}
IsSizeOf(g, x, chunks) == NodeNamed(g, x).target = "sym_size" /\ NodeNamed(g, x).args[1] \in DOMAIN chunks
ScalarName(r, x, part) == x \o RegionName(r) \o part
ScalarsOf(g, r, chunks) ==
    [x \in Extents(g, r, chunks) |->
        IF IsSizeOf(g, x, chunks) THEN <<ScalarName(r, x, "_size0"), ScalarName(r, x, "_size1")>>
        ELSE <<ScalarName(r, x, "_div"), ScalarName(r, x, "_div")>>]
SizesOfChunks(r, x, pair) ==
    [i \in 1..2 |-> [Synthetic(r, ScalarName(r, x, "_size" \o ToString(i - 1)), "sym_size", <<pair[i]>>, HalfExtent,
                               "chunk_input") EXCEPT !.chunk = i - 1]]
WithScalar(g, r, x, chunks) ==
    IF IsSizeOf(g, x, chunks)
    THEN CHOOSE new \in {[g EXCEPT !.nodes = PutAfter(@, pair[2], SizesOfChunks(r, x, pair))] :
                           pair \in {chunks[NodeNamed(g, x).args[1]]}} : TRUE
    ELSE [g EXCEPT !.nodes = PutBefore(@, FirstOf(g, Users(g, x) \cap Body(r)),
                                       <<Synthetic(r, ScalarName(r, x, "_div"), "floordiv", <<x>>, HalfExtent, "chunk_input")>>)]
WithScalars(g, r, chunks) ==
    CHOOSE new \in {Fold(LAMBDA acc, x : IF x \in extents THEN WithScalar(acc, r, x, chunks) ELSE acc, g, NameSeq(g)) :
                      extents \in {Extents(g, r, chunks)}} : TRUE

(***************************************************************************)
(* The two chunks (_copy_body).                                            *)
(***************************************************************************)
CopyName(x, c, preserved) == IF c = 0 /\ x \notin preserved THEN x ELSE x \o "_chunk" \o ToString(c)

\* to = [chunks, scalars, preserved]
ForChunk(r, to, a, c) ==
    CASE a \in Body(r) -> CopyName(a, c, to.preserved)
      [] a \in DOMAIN to.chunks -> to.chunks[a][c + 1]
      [] a \in DOMAIN to.scalars -> to.scalars[a][c + 1]
      [] OTHER -> a
\* The second chunk writes into what the first one wrote.
CopyArgs(r, to, n, c) ==
    [i \in 1..Len(n.args) |->
        IF i = 1 /\ c = 1 /\ Mutates(n) /\ n.args[1] \notin Body(r) THEN CopyName(n.name, 0, to.preserved)
        ELSE ForChunk(r, to, n.args[i], c)]
ChunkCopy(r, to, n, c) ==
    [n EXCEPT !.name = CopyName(@, c, to.preserved), !.args = CopyArgs(r, to, n, c), !.orig = n.name,
              !.role = "body", !.root = r.root, !.chunk = c, !.bwd = r.bwd,
              !.val = IF @ = Extent THEN HalfExtent ELSE @]
InChunks(r, to, n) ==
    IF n.name \notin Body(r) THEN <<n>>
    ELSE IF n.name \in to.preserved THEN <<n, ChunkCopy(r, to, n, 1), ChunkCopy(r, to, n, 0)>>
    ELSE <<ChunkCopy(r, to, n, 0), ChunkCopy(r, to, n, 1)>>
BodyCopied(g, r, to) == [g EXCEPT !.nodes = Fold(LAMBDA acc, n : acc \o InChunks(r, to, n), <<>>, @)]
CopiesOf(r, to, x) == <<CopyName(x, 0, to.preserved), CopyName(x, 1, to.preserved)>>

(***************************************************************************)
(* Putting together what others read (_materialize_full_live_out).         *)
(***************************************************************************)

\* _materialization_boundary: with optimize_grad_live_out a gradient is put
\* together before the views and reductions that end it, which then run once.
InSuffix(g, x) ==
    /\ IsView(NodeNamed(g, x)) \/ NodeNamed(g, x).target \in {"wait", "all_reduce"}
    /\ Cardinality(TensorInputs(g, x)) = 1
OtherReaders(g, r, x, y) == (Users(g, y) \cap Body(r)) \ {x}
RECURSIVE BoundaryOf(_, _, _)
BoundaryOf(g, r, x) ==
    IF x \notin Body(r) \/ ~InSuffix(g, x) THEN x
    ELSE CHOOSE b \in {IF OtherReaders(g, r, x, y) # {} THEN x ELSE BoundaryOf(g, r, y) : y \in TensorInputs(g, x)} : TRUE
Boundary(g, r, x, early) ==
    IF r.bwd /\ early /\ HasRows(g, x) /\ BoundaryOf(g, r, x) \in Body(r) THEN BoundaryOf(g, r, x) ELSE x
RECURSIVE SuffixFrom(_, _, _)
SuffixFrom(g, b, x) == IF x = b THEN <<>> ELSE Append(SuffixFrom(g, b, Single(TensorInputs(g, x))), x)

\* _add_materialization_proof: halves of it add up.
AddsUp(g, r, x, users, escapes) ==
    \/ NodeNamed(g, x).target = "sym_size"
    \/ IsTensorVal(NodeNamed(g, x)) /\ r.bwd /\ (users = {Output} \/ x \in escapes)

FullName(x) == x \o "_full"
FullNode(g, r, to, x) ==
    Synthetic(r, FullName(x), IF HasRows(g, x) THEN "cat" ELSE "add", CopiesOf(r, to, x), NodeNamed(g, x).val, "materialization")
InsertedFor(nodes, users, new) ==
    IF users = {Output} THEN nodes \o new
    ELSE SubSeq(nodes, 1, SelectInSeq(nodes, LAMBDA n : n.name \in users) - 1) \o new
           \o SubSeq(nodes, SelectInSeq(nodes, LAMBDA n : n.name \in users), Len(nodes))

\* The suffix again, on the whole: a view takes the whole extent.
Replayed(g, r, x, y) ==
    << Synthetic(r, FullName(x) \o "_size", "sym_size", <<"x">>, Extent, "materialization"),
       [Synthetic(r, FullName(x), NodeNamed(g, x).target, NodeNamed(g, x).args, Rows, "materialization")
          EXCEPT !.args[1] = y, !.args = IF Len(@) > 1 THEN [@ EXCEPT ![2] = FullName(x) \o "_size"] ELSE @] >>
WithSuffix(g, r, suffix, boundary) ==
    Fold(LAMBDA acc, x : [graph |-> [acc.graph EXCEPT !.nodes = PutAfter(@, acc.at, Replayed(g, r, x, acc.at))],
                          at |-> FullName(x)],
         [graph |-> g, at |-> FullName(boundary)], suffix).graph

\* A live-out x, read whole by users, put together at boundary.
Together(g, r, to, users, boundary) ==
    IF FullName(boundary) \in Names(ToSet(g.nodes)) THEN g
    ELSE [g EXCEPT !.nodes = InsertedFor(@, users, <<FullNode(g, r, to, boundary)>>)]
ReadWhole(g, x, users) ==
    CHOOSE new \in {[h EXCEPT !.outputs = IF Output \in users THEN Renamed(@, x :> FullName(x)) ELSE @] :
                      h \in {ArgsRenamed(g, users, x :> FullName(x))}} : TRUE
Materialized(g, r, to, x, users, boundary) ==
    CHOOSE new \in {ReadWhole(WithSuffix(h, r, SuffixFrom(g, boundary, x), boundary), x, users) :
                      h \in {Together(g, r, to, users, boundary)}} : TRUE

\* chunked: some users of x read its chunks.
Reconstructs(g, r, x, users, chunked, escapes) == HasRows(g, x) \/ (~chunked /\ AddsUp(g, r, x, users, escapes))

(***************************************************************************)
(* A region (_transform_region).  A pass under way is a graph, the chunks  *)
(* of what earlier regions routed (per), and whether it raised.            *)
(***************************************************************************)
Raised(C) == [C EXCEPT !.ok = FALSE]

\* _erase_unused_copied_body
Unread(g, names, protected) ==
    FoldBack(LAMBDA n, dead : IF n.name \in names \ protected /\ ~Mutates(n) /\ Users(g, n.name) \subseteq dead
                              THEN dead \cup {n.name} ELSE dead,
             g.nodes, {})
UnreadErased(C, names) == [C EXCEPT !.graph = Erased(@, Unread(@, names, UNION {ToSet(C.per[x]) : x \in DOMAIN C.per}))]

\* outs = [all, full: the users that read each whole, chunked: those read chunk
\* by chunk]; the live-outs in the order of their first such user.
OutsOf(g, r, plans) ==
    [all |-> LiveOuts(g, r), full |-> [x \in ToSet(LiveOuts(g, r)) |-> FullUsers(g, r, plans, x)],
     chunked |-> {x \in ToSet(LiveOuts(g, r)) : FullUsers(g, r, plans, x) # OutUsers(g, r, x)}]
FirstUser(g, users) == SelectInSeq(NameSeq(g) \o <<Output>>, LAMBDA y : y \in users)
InUserOrder(g, outs, preserved) ==
    LET whole == SelectSeq(outs.all, LAMBDA x : x \notin preserved /\ outs.full[x] # {})
    IN  Fold(LAMBDA acc, i : acc \o SelectSeq(whole, LAMBDA x : FirstUser(g, outs.full[x]) = i), <<>>,
             [i \in 1..Len(g.nodes) + 1 |-> i])

WithWhole(C, r, to, x, users, chunked, early, escapes) ==
    CHOOSE D \in {IF Reconstructs(C.graph, r, b, users, chunked, escapes)
                  THEN [C EXCEPT !.graph = Materialized(@, r, to, x, users, b)] ELSE Raised(C) :
                    b \in {Boundary(C.graph, r, x, early /\ ~chunked)}} : TRUE
Routed(per, r, to, names) ==
    [y \in UNION {{x} \cup ToSet(CopiesOf(r, to, x)) : x \in names} |->
        CopiesOf(r, to, CHOOSE x \in names : y \in {x} \cup ToSet(CopiesOf(r, to, x)))] @@ per
Joined(C, r, to, outs, early, escapes) ==
    UnreadErased(
        Fold(LAMBDA acc, x : WithWhole(acc, r, to, x, outs.full[x], x \in outs.chunked, early, escapes),
             [C EXCEPT !.graph = BodyCopied(@, r, to), !.per = Routed(@, r, to, outs.chunked)],
             InUserOrder(C.graph, outs, to.preserved)),
        UNION {ToSet(CopiesOf(r, to, x)) : x \in Body(r)})

\* The region with its inputs split: g is the graph before.
Doubled(C, g, r, outs, chunks, chunking, escapes) ==
    IF DOMAIN chunks = {} THEN Raised(C)
    ELSE CHOOSE D \in {Joined([C EXCEPT !.graph = h], r, to, outs, chunking.early, escapes) :
            h \in {WithScalars(C.graph, r, chunks)},
            to \in {[chunks |-> chunks, scalars |-> ScalarsOf(C.graph, r, chunks), preserved |-> Preserved(g, r)]}} : TRUE
WithInputs(C, r, outs, known, split, chunking, escapes) ==
    CHOOSE D \in {Doubled([C EXCEPT !.graph = h], C.graph, r, outs, chunks, chunking, escapes) :
                    h \in {WithSplits(C.graph, r, split, chunking.seq)},
                    chunks \in {[x \in split |-> ChunksOf(r, x, chunking.seq)] @@ known}} : TRUE
TransformRegion(C, r, plans, static, chunking, escapes) ==
    IF ~C.ok \/ ~Chunkable(C.graph, r, chunking.seq) THEN Raised(C)
    ELSE CHOOSE D \in {WithInputs(C, r, outs, known, ToSplit(C.graph, r, known, static), chunking, escapes) :
                         outs \in {OutsOf(C.graph, r, plans)}, known \in {KnownChunks(C.graph, r, C.per)}} : TRUE

(***************************************************************************)
(* apply_chunk_pass, ep_overlap_chunk_pass: the forward first, then the    *)
(* backward, planned on the graph the forward left.                        *)
(***************************************************************************)
RegionsLowered(C, bwd, plans, static, chunking, escapes) ==
    Fold(LAMBDA acc, q : IF q.bwd = bwd THEN TransformRegion(acc, q, plans, static, chunking, escapes) ELSE acc,
         C, InGraphOrder(C.graph, plans))
Direction(C, bwd, roots, static, chunking) ==
    CHOOSE D \in {RegionsLowered(C, bwd, plans, static, chunking, escapes) :
                    plans \in {RegionsOf(C.graph, roots, DOMAIN C.per, GradSuffix(C.graph, GradEscapes(C.graph)))},
                    escapes \in {GradEscapes(C.graph)}} : TRUE
ChunkedBothWays(g, roots, static, chunking) ==
    Direction(Direction([graph |-> g, per |-> <<>>, ok |-> roots # {}], FALSE, roots, static, chunking),
              TRUE, roots, static, chunking)
Found(C) == IF \E n \in ToSet(C.graph.nodes) : n.role = "body" THEN C ELSE Raised(C)
EpChunked(g, static, chunking) ==
    CHOOSE D \in {Found(ChunkedBothWays(g, roots, static, chunking)) : roots \in {EpRoots(g, chunking.pattern)}} : TRUE
=============================================================================
