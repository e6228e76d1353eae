------------------------------ MODULE EpOverlap ------------------------------
(***************************************************************************)
(* The schedule of a chunked graph (ep_overlap_pass.py): in each region    *)
(* the exchange of one chunk is launched, then the other chunk computes    *)
(* until its own, and what waits for an exchange comes after.  Then the    *)
(* symbol goes (concretize_ep_chunk_symbolic_shapes_pass).                 *)
(***************************************************************************)
EXTENDS EpChunk

Phases == {"dispatch", "combine"}
IsLaunch(n) == n.target = "all_to_all" /\ n.note \in Phases
IsSyncCopy(n) == n.target = "to_cpu" /\ n.note = "count_sync"

\* collect_chunked_regions
InRegion(n, region) == n.role = "body" /\ n.root = region.root /\ n.bwd = region.bwd
Owned(g, region) == {n.name : n \in {m \in ToSet(g.nodes) : InRegion(m, region)}}
ChunkBody(g, region, c) ==
    SelectSeq(NameSeq(g), LAMBDA x : InRegion(NodeNamed(g, x), region) /\ NodeNamed(g, x).chunk = c)
ChunkedRegions(g) ==
    {[root |-> n.root, bwd |-> n.bwd] : n \in {m \in ToSet(g.nodes) : m.role = "body"}}

\* _collect_token_exchanges: the launches, each with its one wait.
Launches(g, body) == SelectSeq(body, LAMBDA x : IsLaunch(NodeNamed(g, x)))
WaitsOf(g, body, x) == {u \in Users(g, x) \cap ToSet(body) : NodeNamed(g, u).target = "wait"}
IsExchangeWait(g, body, n) ==
    n.target = "wait" /\ n.args[1] \in ToSet(body) /\ IsLaunch(NodeNamed(g, n.args[1]))
WellNoted(g, body) ==
    /\ \A x \in ToSet(body) : NodeNamed(g, x).note \in Phases =>
                                 IsLaunch(NodeNamed(g, x)) \/ IsExchangeWait(g, body, NodeNamed(g, x))
    /\ \A x \in ToSet(Launches(g, body)) : Cardinality(WaitsOf(g, body, x)) = 1
Labels(g, launches) == [i \in 1..Len(launches) |-> NodeNamed(g, launches[i]).note]

(***************************************************************************)
(* What a launch needs.                                                    *)
(***************************************************************************)

\* _body_deps: of the region, also behind nodes no region owns.
DepsThrough(g, owned, deps, x) ==
    IF x \in owned THEN {x}
    ELSE IF NodeNamed(g, x).role = "body" \/ NodeNamed(g, x).op = "input" THEN {} ELSE deps[x]
BodyDeps(g, owned) ==
    Fold(LAMBDA deps, n : (n.name :> (owned \cap UNION {DepsThrough(g, owned, deps, y) : y \in Inputs(n)})) @@ deps, <<>>, g.nodes)

\* What some nodes of the region need of it, themselves included.
Needs(g, deps, names) ==
    FoldBack(LAMBDA n, S : IF n.name \in S THEN S \cup deps[n.name] ELSE S, g.nodes, names)
InOrder(g, names) == SelectSeq(NameSeq(g), LAMBDA x : x \in names)

\* region = [root, bwd, order: of the chunks, bodies, launches: of chunk 0 and 1,
\*           deps, closures: what each launch needs]
Closures(g, deps, launches) == Fold(LAMBDA all, x : Append(all, InOrder(g, Needs(g, deps, {x}))), <<>>, launches)
OfBoth(a, b) == (0 :> a) @@ (1 :> b)   \* by chunk
Measured(g, region, bodies, launches, deps) ==
    [root |-> region.root, bwd |-> region.bwd, order |-> IF region.bwd THEN <<1, 0>> ELSE <<0, 1>>,
     bodies |-> bodies, launches |-> launches, deps |-> deps,
     closures |-> OfBoth(Closures(g, deps, launches[0]), Closures(g, deps, launches[1]))]
Described(g, region) ==
    CHOOSE R \in {Measured(g, region, bodies, OfBoth(Launches(g, bodies[0]), Launches(g, bodies[1])), deps) :
                    bodies \in {OfBoth(ChunkBody(g, region, 0), ChunkBody(g, region, 1))},
                    deps \in {BodyDeps(g, Owned(g, region))}} : TRUE

\* The copies of the counts to the CPU that the first launch waits for.
SyncCopies(g, R, c) == SelectSeq(R.closures[c][1], LAMBDA x : IsSyncCopy(NodeNamed(g, x)))
CopiesInPlace(g, R) ==
    /\ \A c \in {0, 1} : /\ Len(SyncCopies(g, R, c)) \in {0, 2}
                         /\ \A x \in ToSet(R.bodies[c]) :
                               IsSyncCopy(NodeNamed(g, x)) => Contains(R.closures[c][1], x)
    /\ SyncCopies(g, R, 0) = <<>> <=> SyncCopies(g, R, 1) = <<>>
ExchangesMatch(g, R) ==
    /\ \A c \in {0, 1} : R.bodies[c] # <<>> /\ WellNoted(g, R.bodies[c])
    /\ Labels(g, R.launches[0]) = Labels(g, R.launches[1])
    /\ \A c \in {0, 1} : \A i, j \in 1..Len(R.launches[c]) :
          Contains(R.closures[c][i], R.launches[c][j]) => j <= i
    /\ R.launches[0] # <<>> => CopiesInPlace(g, R)

(***************************************************************************)
(* The order of a region (_build_region_phases).  Blocks come one after    *)
(* the other, so they are one sequence.                                    *)
(***************************************************************************)
Pend(done, nodes) == done \o SelectSeq(UniqueInOrder(nodes), LAMBDA x : ~Contains(done, x))
LaunchNames(R) == ToSet(R.launches[0] \o R.launches[1])
BeforeLaunch(R, c, i) == SelectSeq(R.closures[c][i], LAMBDA x : x \notin LaunchNames(R))
LaunchesIn(R, c, i) == SelectSeq(R.closures[c][i], LAMBDA x : x \in LaunchNames(R))

\* _split_token_count_sync_closure
PreCopy(g, R, c) ==
    InOrder(g, Needs(g, R.deps, ToSet(SyncCopies(g, R, c))) \ ToSet(SyncCopies(g, R, c)))
PostCopy(g, R, c) ==
    SelectSeq(BeforeLaunch(R, c, 1), LAMBDA x : ~Contains(PreCopy(g, R, c) \o SyncCopies(g, R, c), x))

\* Both chunks up to their first launch, then the launches.
Paired(g, R) ==
    LET a == R.order[1]
        b == R.order[2]
    IN  IF SyncCopies(g, R, 0) # <<>>
        THEN PreCopy(g, R, a) \o PreCopy(g, R, b) \o SyncCopies(g, R, a) \o SyncCopies(g, R, b)
               \o PostCopy(g, R, a) \o PostCopy(g, R, b) \o LaunchesIn(R, a, 1) \o LaunchesIn(R, b, 1)
        ELSE BeforeLaunch(R, a, 1) \o BeforeLaunch(R, b, 1) \o LaunchesIn(R, a, 1) \o LaunchesIn(R, b, 1)
UpToLaunch(g, R, c, i) ==
    IF i = 1 /\ SyncCopies(g, R, c) # <<>>
    THEN PreCopy(g, R, c) \o SyncCopies(g, R, c) \o PostCopy(g, R, c) \o LaunchesIn(R, c, i)
    ELSE R.closures[c][i]
Exchange(g, R, i, pair) ==
    IF i = 1 /\ pair THEN Paired(g, R) ELSE UpToLaunch(g, R, R.order[1], i) \o UpToLaunch(g, R, R.order[2], i)

\* _append_ready_blocks: candidates whose needs are done, until none is.
ReadyOf(g, R, done, candidates) ==
    InOrder(g, {x \in candidates : ~Contains(done, x) /\ R.deps[x] \subseteq ToSet(done)})
RECURSIVE ReadyBlocks(_, _, _, _)
ReadyBlocks(g, R, done, candidates) ==
    CHOOSE all \in {IF ready = <<>> THEN done ELSE ReadyBlocks(g, R, done \o ready, candidates) :
                      ready \in {FlattenSeq([k \in 1..2 |-> ReadyOf(g, R, done, candidates[R.order[k]])])}} : TRUE

\* What may fill the time until the exchange ends: what no launch needs, and
\* what the later ones do, short of launches and waits.
Needed(R, c, from) == UNION {ToSet(R.closures[c][i]) : i \in from..Len(R.closures[c])}
Fillers(g, R, i) ==
    [c \in {0, 1} |->
        {x \in (Needed(R, c, i + 1) \ LaunchNames(R)) \cup (ToSet(R.bodies[c]) \ Needed(R, c, 1)) : ~IsC10d(NodeNamed(g, x))}]
RECURSIVE Exchanged(_, _, _, _, _)
Exchanged(g, R, done, i, pair) ==
    IF i > Len(R.launches[0]) THEN done
    ELSE CHOOSE all \in {Exchanged(g, R, next, i + 1, pair) :
                           next \in {ReadyBlocks(g, R, Pend(done, Exchange(g, R, i, pair)), Fillers(g, R, i))}} : TRUE

\* The rest with its waits, chunk by chunk.
OnlyChunk(R, c) == [d \in {0, 1} |-> IF d = c THEN ToSet(R.bodies[c]) ELSE {}]
RECURSIVE Finished(_, _, _)
Finished(g, R, done) ==
    CHOOSE all \in {IF Len(next) = Len(done) THEN done ELSE Finished(g, R, next) :
                      next \in {ReadyBlocks(g, R, ReadyBlocks(g, R, done, OnlyChunk(R, R.order[1])), OnlyChunk(R, R.order[2]))}} :
      TRUE
RegionOrder(g, R, pair) ==
    CHOOSE all \in {Finished(g, R, done) : done \in {Exchanged(g, R, <<>>, 1, pair)}} : TRUE
Complete(R, order) == ToSet(R.bodies[0] \o R.bodies[1]) \subseteq ToSet(order)

(***************************************************************************)
(* Applying it (_apply_schedule).  torch's _stable_topological_sort takes  *)
(* the nodes as they stand; one that reads what is not there yet waits for *)
(* the last such, and is looked at again right after it.                   *)
(***************************************************************************)
ChainDep(orders, x) ==
    LET before(order) == {order[i - 1] : i \in {j \in 2..Len(order) : order[j] = x}}
    IN  SetToSeq(UNION {before(order) : order \in orders})
SortDeps(g, orders) ==
    Fold(LAMBDA deps, n : (n.name :> SelectSeq(n.args, LAMBDA y : y # None) \o ChainDep(orders, n.name)) @@ deps, <<>>, g.nodes)
Unready(S, deps, x) == SelectSeq(deps[x], LAMBDA y : ~Contains(S.ready, y))
Waiting(S, x) == IF x \in DOMAIN S.waiting THEN S.waiting[x] ELSE <<>>
RECURSIVE Looked(_, _, _)
Looked(S, deps, x) ==
    CHOOSE T \in {IF missing # <<>> THEN [S EXCEPT !.waiting = (Last(missing) :> Append(Waiting(S, Last(missing)), x)) @@ @]
                  ELSE Fold(LAMBDA acc, y : Looked(acc, deps, y), [S EXCEPT !.ready = Append(@, x)], Waiting(S, x)) :
                    missing \in {Unready(S, deps, x)}} : TRUE
StableSorted(g, deps) == Fold(LAMBDA acc, x : Looked(acc, deps, x), [ready |-> <<>>, waiting |-> <<>>], NameSeq(g)).ready
Reordered(g, names) == [g EXCEPT !.nodes = [i \in 1..Len(names) |-> NodeNamed(g, names[i])]]

\* Of the copies launched together only the last one blocks.
SyncGroups(g, R, pair) ==
    IF pair THEN {SyncCopies(g, R, R.order[1]) \o SyncCopies(g, R, R.order[2])}
    ELSE {SyncCopies(g, R, c) : c \in {0, 1}}
Blocking(groups, n) ==
    IF \E s \in groups : Contains(s, n.name)
    THEN Item(n, IF \E s \in groups : s # <<>> /\ Last(s) = n.name THEN 2 ELSE 1) ELSE n
WaitNoted(n) == IF n.note \in Phases /\ n.target = "wait" THEN Noted(n, "exchange_wait") ELSE n
Rewritten(g, groups) == [g EXCEPT !.nodes = [i \in 1..Len(@) |-> WaitNoted(Blocking(groups, @[i]))]]
SyncRewritten(g, planned, pair) ==
    CHOOSE h \in {Rewritten(g, groups) : groups \in {UNION {SyncGroups(g, R, pair) : R \in planned}}} : TRUE

\* ep_overlap_schedule_pass: a graph, or NoSchedule when it raised.
NoSchedule == [nodes |-> <<>>, outputs |-> <<>>]
SortedBy(g, orders) ==
    CHOOSE h \in {IF Len(names) = Len(g.nodes) THEN Reordered(g, names) ELSE NoSchedule :
                    names \in {StableSorted(g, deps) : deps \in {SortDeps(g, orders)}}} : TRUE
Ordered(g, planned, pair) ==
    CHOOSE h \in {IF planned = {} \/ \E p \in orders : ~Complete(p.region, p.order) THEN NoSchedule
                  ELSE SortedBy(g, {p.order : p \in orders}) :
                    orders \in {{[region |-> R, order |-> RegionOrder(g, R, pair)] : R \in planned}}} : TRUE
EpScheduled(g, pair) ==
    CHOOSE h \in {IF \E R \in regions : ~ExchangesMatch(g, R) THEN NoSchedule
                  ELSE CHOOSE k \in {Ordered(SyncRewritten(g, planned, pair), planned, pair) :
                                        planned \in {{R \in regions : R.launches[0] # <<>>}}} : TRUE :
                    regions \in {{Described(g, region) : region \in ChunkedRegions(g)}}} : TRUE

\* The point of it: while the exchange of the chunk that goes first is under
\* way, the other chunk computes what its own exchange needs.
Between(g, x, y) == {n.name : n \in ToSet(SubSeq(g.nodes, Position(g.nodes, x) + 1, Position(g.nodes, y) - 1))}
Overlapped(g, R, i) ==
    LET first == R.launches[R.order[1]][i]
        second == R.launches[R.order[2]][i]
    IN  \A w \in WaitsOf(g, R.bodies[R.order[1]], first) :
           /\ second \in Between(g, first, w)
           /\ \E x \in Between(g, first, w) \cap ToSet(R.closures[R.order[2]][i]) : ~IsC10d(NodeNamed(g, x))
ExchangesOverlap(g, pair) ==
    \A region \in ChunkedRegions(g) : \A R \in {Described(g, region)} :
        \A i \in (IF pair THEN 2 ELSE 1)..Len(R.launches[0]) : Overlapped(g, R, i)

(***************************************************************************)
(* concretize_ep_chunk_symbolic_shapes_pass: the extent and its half are   *)
(* numbers from here on, and what computed them goes.                      *)
(***************************************************************************)
IsExtent(g, x) == x # None /\ NodeNamed(g, x).val \in {Extent, HalfExtent}
HalvesCounted(g, x) == IF NodeNamed(g, x).val = Extent THEN 2 ELSE 1
WithNumbers(g, n) ==
    [n EXCEPT !.args = [i \in 1..Len(@) |-> IF IsExtent(g, @[i]) THEN None ELSE @[i]],
              !.item = IF \E i \in 1..Len(n.args) : IsExtent(g, n.args[i])
                       THEN HalvesCounted(g, n.args[CHOOSE i \in 1..Len(n.args) : IsExtent(g, n.args[i])]) ELSE @]
DeadScalars == {"sym_size", "floordiv"}
ScalarsGone(g) ==
    Erased(g, FoldBack(LAMBDA n, dead : IF n.target \in DeadScalars /\ Users(g, n.name) \subseteq dead
                                        THEN dead \cup {n.name} ELSE dead, g.nodes, {}))
Concretized(g) ==
    CHOOSE h \in {ScalarsGone(k) : k \in {[g EXCEPT !.nodes = [i \in 1..Len(@) |-> WithNumbers(g, @[i])]]}} : TRUE
=============================================================================
