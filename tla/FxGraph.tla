------------------------------- MODULE FxGraph -------------------------------
(***************************************************************************)
(* FX graphs as the passes of experiments/graph_trainer see them           *)
(* (graph_pp/utils.py, fsdp_patterns.py, common_utils.py), and what it     *)
(* means to execute one.                                                   *)
(*                                                                         *)
(* A graph is a sequence of nodes in execution order and the values it     *)
(* returns.  A node has a name, an op, a target, the names of its argument *)
(* nodes, an integer literal among its arguments (0 when the node does     *)
(* nothing: a view of the same shape, a slice of everything), and the      *)
(* metadata the passes read: made by autograd's backward (bwd), layer, in  *)
(* the lm_head or the loss (loss), the recompute tag.  None stands for a   *)
(* literal argument or output that is not a node.                          *)
(***************************************************************************)
EXTENDS Integers, SequencesExt

\* FoldLeft and FoldRight of SequencesExt, which enumerate the subsets of the
\* domain, with each step evaluated before the next and half of seq at a time.
Fold(op(_, _), base, seq) ==
    LET RECURSIVE Over(_, _, _)
        Over(acc, from, to) ==
            CASE from > to -> acc
              [] from = to -> op(acc, seq[from])
              [] from < to -> CHOOSE r \in {Over(half, (from + to) \div 2 + 1, to) :
                                               half \in {Over(acc, from, (from + to) \div 2)}} : TRUE
    IN  Over(base, 1, Len(seq))
FoldBack(op(_, _), seq, base) == Fold(LAMBDA acc, x : op(x, acc), base, Reverse(seq))

None == "none"
Output == "output"   \* the output node, as a user
NotInLayers == -1
Untagged == "untagged"

Names(nodes) == {n.name : n \in nodes}
Position(nodes, x) == SelectInSeq(nodes, LAMBDA n : n.name = x)
NameSeq(g) == [i \in 1..Len(g.nodes) |-> g.nodes[i].name]
NodeNamed(g, x) == g.nodes[Position(g.nodes, x)]

Inputs(n) == ToSet(n.args) \ {None}                        \* all_input_nodes
InputNodes(g) == SelectSeq(g.nodes, LAMBDA n : n.op = "input")
InputNames(g) == [i \in 1..Len(InputNodes(g)) |-> InputNodes(g)[i].name]
Values(seq) == ToSet(seq) \ {None}

\* node.users, the output node among them.
Users(g, x) == {n.name : n \in {m \in ToSet(g.nodes) : x \in Inputs(m)}}
                 \cup (IF x \in Values(g.outputs) THEN {Output} ELSE {})

\* unique_in_order (graph_pp/utils.py).
UniqueInOrder(seq) ==
    Fold(LAMBDA acc, x : IF Contains(acc, x) THEN acc ELSE Append(acc, x), <<>>, seq)

\* node_closure: every node needed to compute the values.
NodeClosure(g, values) ==
    FoldBack(LAMBDA n, S : IF n.name \in S THEN S \cup Inputs(n) ELSE S, g.nodes, Values(values))

PlaceholderDependencies(g, values) == NodeClosure(g, values) \cap ToSet(InputNames(g))

(***************************************************************************)
(* Targets.                                                                *)
(***************************************************************************)
ViewTargets == {"t", "view", "reshape", "slice", "detach"}
MutationTargets == {"add_", "copy_"}
TupleTargets == {"flex", "split"}       \* return a tuple, read through getitem
ReduceTargets == {"reduce_scatter", "all_reduce"}
Collectives == {"all_gather"} \cup ReduceTargets
Copies == {"offload", "reload"}

IsView(n) == n.target \in ViewTargets
IsMutation(n) == n.target \in MutationTargets
IsTuple(n) == n.target \in TupleTargets
IsCall(n) == n.op = "call"
IsSym(n) == n.target \in {"sym_size", "item"}   \* its value is a SymInt

\* node.is_impure: in-place writes, and what is registered as having a side
\* effect.
SideEffects == {"wait", "assert_async"}
Impure(n) == IsMutation(n) \/ n.target \in SideEffects
ImpureNames(g) == {n.name : n \in {m \in ToSet(g.nodes) : Impure(m)}}

\* base_tensor_for_mutation_target: the value whose storage a view looks at.
ViewBase(g, x) ==
    FoldBack(LAMBDA n, y : IF n.name = y /\ IsView(n) THEN n.args[1] ELSE y, g.nodes, x)

(***************************************************************************)
(* Rewriting.                                                              *)
(***************************************************************************)

\* Graph.eliminate_dead_code, with the nodes to be taken as impure.
DeadCodeEliminated(g, impure) ==
    LET live == FoldBack(LAMBDA n, S : IF n.name \in S \cup impure THEN S \cup Inputs(n) \cup {n.name} ELSE S,
                          g.nodes, Values(g.outputs))
    IN  [g EXCEPT !.nodes = SelectSeq(@, LAMBDA n : n.op = "input" \/ n.name \in live)]

\* replace_all_uses_with, for several nodes at once: to[x] replaces x.
Renamed(seq, to) == [i \in 1..Len(seq) |-> IF seq[i] \in DOMAIN to THEN to[seq[i]] ELSE seq[i]]
ArgsRenamed(g, users, to) ==
    [g EXCEPT !.nodes = [i \in 1..Len(@) |-> IF @[i].name \in users THEN [@[i] EXCEPT !.args = Renamed(@, to)]
                                             ELSE @[i]]]
UsesReplaced(g, to) == [ArgsRenamed(g, Names(ToSet(g.nodes)), to) EXCEPT !.outputs = Renamed(@, to)]

Erased(g, names) == [g EXCEPT !.nodes = SelectSeq(@, LAMBDA n : n.name \notin names)]

\* Nodes put in right before or after a node, and a node moved there.
PutBefore(nodes, x, new) == SubSeq(nodes, 1, Position(nodes, x) - 1) \o new
                              \o SubSeq(nodes, Position(nodes, x), Len(nodes))
PutAfter(nodes, x, new) == SubSeq(nodes, 1, Position(nodes, x)) \o new
                             \o SubSeq(nodes, Position(nodes, x) + 1, Len(nodes))
Others(nodes, x) == SelectSeq(nodes, LAMBDA n : n.name # x)
MovedBefore(nodes, x, target) ==
    IF x = target THEN nodes ELSE PutBefore(Others(nodes, x), target, <<nodes[Position(nodes, x)]>>)
MovedAfter(nodes, x, target) ==
    IF x = target THEN nodes ELSE PutAfter(Others(nodes, x), target, <<nodes[Position(nodes, x)]>>)

\* Graph.lint: no name twice, no value read before it is there.
Linted(g) == /\ Cardinality(Names(ToSet(g.nodes))) = Len(g.nodes)
             /\ \A i \in 1..Len(g.nodes) : Inputs(g.nodes[i]) \subseteq Names(ToSet(SubSeq(g.nodes, 1, i - 1)))

\* _extract_graph_with_inputs_outputs: what can be computed from the inputs,
\* in the order of the graph, and is needed.  It fails when an output cannot.
Computable(g, inputs) ==
    Fold(LAMBDA S, n : IF n.op # "input" /\ Inputs(n) \subseteq S THEN S \cup {n.name} ELSE S,
             ToSet(inputs), g.nodes)
Extractable(g, inputs, outputs) == Values(outputs) \subseteq Computable(g, inputs)

\* pure: the targets taken as free of side effects meanwhile
\* (allow_fx_graph_extraction_of_side_effectful_ops).
Extracted(g, inputs, outputs, pure) ==
    LET Placeholder(x) == [NodeNamed(g, x) EXCEPT !.op = "input", !.target = "input", !.args = <<>>]
        body == SelectSeq(g.nodes, LAMBDA n : n.name \in Computable(g, inputs) \ ToSet(inputs))
        whole == [nodes |-> [i \in 1..Len(inputs) |-> Placeholder(inputs[i])] \o body, outputs |-> outputs]
    IN  DeadCodeEliminated(whole, {n.name : n \in {m \in ToSet(body) : Impure(m) /\ m.target \notin pure}})

(***************************************************************************)
(* Execution.  A tensor is a reference: a storage and the views it looks   *)
(* through.  A content is the place of its term in the table of the terms  *)
(* met so far (table[op] lists those of an operation), so that equal       *)
(* contents have equal places.  The machine is a record of the store       *)
(* (storage -> content), the table and the environment (name -> reference) *)
(* of the graph that runs.                                                 *)
(***************************************************************************)
Term(op, item, views, of) == [op |-> op, item |-> item, views |-> views, of |-> of]
Value(op, item, of) == Term(op, item, <<>>, of)
Freed == Value("freed", 0, <<>>)
At(run, x, item) == [loc |-> <<run, x, item>>, views |-> <<>>]
NoTensor == At("none", None, 0)

Met(m, op) == IF op \in DOMAIN m.table THEN m.table[op] ELSE <<>>
Place(m, term) == <<term.op, SelectInSeq(Met(m, term.op), LAMBDA t : t = term)>>
Placed(m, term) ==
    IF Contains(Met(m, term.op), term) THEN m
    ELSE [m EXCEPT !.table = (term.op :> Append(Met(m, term.op), term)) @@ @]
TermAt(m, place) == m.table[place[1]][place[2]]
NoPlace == <<"none", 0>>

\* What is seen through a reference: its storage looked at through its views.
SeenTerm(m, ref) ==
    IF ref.views = <<>> THEN TermAt(m, m.store[ref.loc]) ELSE Term("seen", 0, ref.views, <<m.store[ref.loc]>>)
RECURSIVE Reading(_, _)
Reading(m, refs) ==
    IF refs = <<>> THEN m
    ELSE CHOOSE r \in {Reading(next, Tail(refs)) :
                          next \in {IF Head(refs) = NoTensor THEN m ELSE Placed(m, SeenTerm(m, Head(refs)))}} : TRUE
Contents(m, refs) ==
    [i \in 1..Len(refs) |-> IF refs[i] = NoTensor THEN NoPlace ELSE Place(m, SeenTerm(m, refs[i]))]

StoredPlace(m, loc, place) == [m EXCEPT !.store = (loc :> place) @@ @]
StoredMet(m, loc, term) == StoredPlace(m, loc, Place(m, term))   \* of a term met already
Stored(m, loc, term) == StoredMet(Placed(m, term), loc, term)
Bound(m, x, ref) == [m EXCEPT !.env = (x :> ref) @@ @]

Viewed(ref, n) ==
    LET view == <<IF n.target = "view" THEN "reshape" ELSE n.target, n.item>>
    IN  IF n.target = "detach" \/ n.item = 0 THEN ref
        ELSE IF n.target = "t" /\ ref.views # <<>> /\ Last(ref.views) = view
          THEN [ref EXCEPT !.views = Front(@)]
        ELSE [ref EXCEPT !.views = Append(@, view)]

\* A collective, or a copy between devices, runs on its own: what it returns is
\* there once a wait was called on it, and a wait with a second argument then
\* releases that argument's storage (ao.wait_tensor's keepalive).
Arrived(m, loc, held) == IF held.op = "pending" THEN StoredPlace(m, loc, held.of[1]) ELSE m
Waited(m, n, arg) ==
    Bound(IF Len(arg) > 1 /\ ~n.bwd THEN Stored(m, arg[2].loc, Freed) ELSE m, n.name, arg[1])

\* In-place writes.  The views a storage is copied into do not overlap: what was
\* copied last into each is its content, in whatever order.
NewContent(m, held, ref, op, of) ==
    CASE op = "copy_" /\ ref.views = <<>> -> TermAt(m, of[2])
      [] op = "copy_" /\ ref.views # <<>> /\ held.op = "copied" -> [held EXCEPT !.views = (ref.views :> of[2]) @@ @]
      [] op = "copy_" /\ ref.views # <<>> /\ held.op # "copied" ->
           Term("copied", 0, ref.views :> of[2], <<m.store[ref.loc]>>)
      [] OTHER -> Term(op, 0, ref.views, <<m.store[ref.loc], of[2]>>)
Written(m, ref, op, of) == Stored(m, ref.loc, NewContent(m, TermAt(m, m.store[ref.loc]), ref, op, of))

\* What a call makes of the contents of its arguments.
Returned(m, n, run) == Bound(m, n.name, At(run, n.name, 0))
Pending(m, loc, place) == Stored(m, loc, Value("pending", 0, <<place>>))
Launched(m, loc, term) == Pending(Placed(m, term), loc, Place(Placed(m, term), term))
Made(m, n, run, of) ==
    CASE IsTuple(n) -> Stored(Stored(m, <<run, n.name, 1>>, Value(n.target, 1, of)),
                              <<run, n.name, 2>>, Value(n.target, 2, of))
      [] n.target \in Collectives -> Launched(m, <<run, n.name, 0>>, Value(n.target, n.item, of))
      [] n.target \in Copies -> Pending(m, <<run, n.name, 0>>, of[1])
      [] OTHER -> Stored(m, <<run, n.name, 0>>, Value(n.target, n.item, of))

OnContents(m, n, run, arg, of) ==
    IF IsMutation(n) THEN Bound(Written(m, arg[1], n.target, of), n.name, arg[1])
    ELSE Returned(Made(m, n, run, of), n, run)
AfterReading(m, n, run, arg) == OnContents(m, n, run, arg, Contents(m, arg))
OnArgs(m, n, run, arg) ==
    CASE IsView(n) -> Bound(m, n.name, Viewed(arg[1], n))
      [] n.target = "getitem" -> Bound(m, n.name, [arg[1] EXCEPT !.loc[3] = n.item])
      [] n.target \in {"wait", "ao_wait"} -> Waited(Arrived(m, arg[1].loc, TermAt(m, m.store[arg[1].loc])), n, arg)
      [] OTHER -> AfterReading(Reading(m, arg), n, run, arg)
Executed(m, n, run) ==
    OnArgs(m, n, run, [i \in 1..Len(n.args) |-> IF n.args[i] = None THEN NoTensor ELSE m.env[n.args[i]]])

\* A machine after g ran on the arguments, and what g returned.
Ran(m, g, args, run) ==
    Fold(LAMBDA acc, n : IF n.op = "input" THEN acc ELSE Executed(acc, n, run),
         [m EXCEPT !.env = [x \in ToSet(InputNames(g)) |-> args[SelectInSeq(InputNames(g), LAMBDA y : y = x)]]],
         g.nodes)
Results(m, g) ==
    [i \in 1..Len(g.outputs) |-> IF g.outputs[i] = None THEN NoTensor ELSE m.env[g.outputs[i]]]
=============================================================================
