------------------------------- MODULE EpTrace -------------------------------
(***************************************************************************)
(* The traced step of a model with expert parallelism, and what it means   *)
(* to execute one.  A layer is attention and a mixture of experts: the     *)
(* router picks experts, tokens are counted and permuted, two all-to-alls  *)
(* carry them to the experts and back (token_dispatcher.py), and the       *)
(* backward carries gradients the opposite way.  Parameters are gathered   *)
(* and their gradients reduced by FSDP.                                    *)
(*                                                                         *)
(* A node also has the module it was traced in (fqn, empty when autograd   *)
(* made it), what its fake value is (val), the annotation of an exchange   *)
(* (note) and, once chunked, its role in a region (role, root), its chunk  *)
(* and the name of the node it was copied from (orig); plan names the      *)
(* modules a bucket of collectives is for.                                 *)
(*                                                                         *)
(* trace = [layers: how many, ...]                                         *)
(***************************************************************************)
EXTENDS StageTrace

\* What node.meta["val"] is: a tensor with the selected symbol in its shape or
\* without, a tuple, the selected extent, half of it, another scalar.
Rows == "rows"
Plain == "plain"
Tuple == "tuple"
Extent == "extent"
HalfExtent == "half_extent"
Scalar == "scalar"
NoChunk == -1
NoPlan == <<>>

EpNode(x, op, target, args, fqn, val) ==
    [name |-> x, op |-> op, target |-> target, args |-> args, item |-> 1, bwd |-> FALSE,
     layer |-> IF Len(fqn) > 1 THEN (IF fqn[2] = "0" THEN 0 ELSE 1) ELSE NotInLayers, loss |-> fqn = <<"lm_head">>,
     tag |-> Untagged, fqn |-> fqn, val |-> val, note |-> None, role |-> None, root |-> <<>>,
     chunk |-> NoChunk, orig |-> None, plan |-> NoPlan]
EpCall(x, target, args, fqn, val) == EpNode(x, "call", target, args, fqn, val)
EpBack(x, target, args, fqn, val) == [EpCall(x, target, args, fqn, val) EXCEPT !.bwd = TRUE]
Noted(n, note) == [n EXCEPT !.note = note]

In(i, module) == <<"layers", ToString(i)>> \o module
Of(x, i) == x \o ToString(i)

\* FSDP around a parameter and its gradient.
EpGather(p, fqn) ==
    << EpCall("cast_" \o p, "cast", <<p>>, fqn, Plain), EpCall("gather_" \o p, "all_gather", <<"cast_" \o p>>, fqn, Plain),
       EpCall("full_" \o p, "wait", <<"gather_" \o p>>, fqn, Plain) >>
EpReduce(p, fqn) ==
    << EpBack("gcast_" \o p, "cast", <<"dw_" \o p>>, fqn, Plain),
       EpBack("scatter_" \o p, "reduce_scatter", <<"gcast_" \o p>>, fqn, Plain),
       EpBack("grad_" \o p, "wait", <<"scatter_" \o p>>, fqn, Plain) >>

Attention(i, h) ==
    EpGather(Of("wa", i), In(i, <<"attention">>))
      \o << EpCall(Of("na", i), "norm", <<h>>, In(i, <<"attention_norm">>), Rows),
            EpCall(Of("q", i), "view", <<Of("na", i), "size">>, In(i, <<"attention">>), Rows),
            EpCall(Of("a", i), "attn", <<Of("q", i), "full_" \o Of("wa", i)>>, In(i, <<"attention">>), Rows),
            EpCall(Of("ha", i), "add", <<h, Of("a", i)>>, In(i, <<>>), Rows),
            EpCall(Of("nf", i), "norm", <<Of("ha", i)>>, In(i, <<"ffn_norm">>), Rows) >>

Router(i) ==
    LET moe == In(i, <<"moe">>)
        router == In(i, <<"moe", "router">>)
    IN  EpGather(Of("wr", i), router)
          \o << EpCall(Of("flat", i), "view", <<Of("nf", i)>>, moe, Rows),
                EpCall(Of("logits", i), "linear", <<Of("flat", i), "full_" \o Of("wr", i)>>, router, Rows),
                EpCall(Of("top", i), "topk", <<Of("logits", i)>>, router, Tuple),
                EpCall(Of("score", i), "getitem", <<Of("top", i)>>, router, Rows),
                Item(EpCall(Of("expert", i), "getitem", <<Of("top", i)>>, router, Rows), 2),
                EpCall(Of("counts", i), "hist", <<Of("expert", i)>>, router, Plain),
                EpCall(Of("counted", i), "add_", <<Of("seen", i), Of("counts", i)>>, moe, Plain) >>

\* dispatch and combine of AllToAllTokenDispatcher: the counts go first, and the
\* CPU must know them to launch the exchange of the tokens.
Dispatch(i) ==
    LET at == In(i, <<"moe", "experts">>)
    IN  << EpCall(Of("sorted", i), "permute", <<Of("flat", i), Of("expert", i)>>, at, Rows),
           Noted(EpCall(Of("sync", i), "all_to_all", <<Of("counts", i)>>, at, Plain), "EP"),
           Noted(EpCall(Of("remote", i), "wait", <<Of("sync", i)>>, at, Plain), "EP"),
           Noted(EpCall(Of("cpu_in", i), "to_cpu", <<Of("counts", i)>>, at, Plain), "count_sync"),
           Noted(Item(EpCall(Of("cpu_out", i), "to_cpu", <<Of("remote", i)>>, at, Plain), 2), "count_sync"),
           EpCall(Of("in", i), "item", <<Of("cpu_in", i)>>, at, Scalar),
           EpCall(Of("out", i), "item", <<Of("cpu_out", i)>>, at, Scalar),
           Noted(EpCall(Of("disp", i), "all_to_all", <<Of("sorted", i), Of("out", i), Of("in", i)>>, at, Plain), "dispatch"),
           Noted(EpCall(Of("got", i), "wait", <<Of("disp", i)>>, at, Plain), "dispatch") >>
Combine(i) ==
    LET at == In(i, <<"moe", "experts">>)
        moe == In(i, <<"moe">>)
    IN  EpGather(Of("we", i), at)
          \o << EpCall(Of("ffn", i), "grouped_mm", <<Of("got", i), "full_" \o Of("we", i), Of("remote", i)>>, at, Plain),
                Noted(EpCall(Of("comb", i), "all_to_all", <<Of("ffn", i), Of("in", i), Of("out", i)>>, at, Plain), "combine"),
                Noted(EpCall(Of("back", i), "wait", <<Of("comb", i)>>, at, Plain), "combine"),
                EpCall(Of("zero", i), "zeros", <<"size">>, at, Rows),
                EpCall(Of("sum", i), "scatter", <<Of("zero", i), Of("back", i), Of("expert", i), Of("score", i)>>, at, Rows),
                EpCall(Of("y", i), "view", <<Of("sum", i), "size">>, moe, Rows),
                EpCall(Of("h", i), "add", <<Of("ha", i), Of("y", i)>>, In(i, <<>>), Rows) >>

\* d is the gradient of the layer's output.
CombineBack(i, d) ==
    LET at == In(i, <<"moe", "experts">>)
    IN  << EpBack(Of("dy", i), "view", <<d, "size">>, In(i, <<"moe">>), Rows),
           EpBack(Of("dback", i), "gather", <<Of("dy", i), Of("expert", i), Of("score", i)>>, at, Rows),
           EpBack(Of("dscore", i), "dscore", <<Of("dy", i), Of("back", i), Of("expert", i)>>, at, Rows),
           Noted(EpBack(Of("dcomb", i), "all_to_all", <<Of("dback", i), Of("out", i), Of("in", i)>>, at, Plain), "combine"),
           Noted(EpBack(Of("dffn", i), "wait", <<Of("dcomb", i)>>, at, Plain), "combine"),
           EpBack("dw_" \o Of("we", i), "dw", <<Of("dffn", i), Of("got", i)>>, at, Plain) >>
      \o EpReduce(Of("we", i), at)
DispatchBack(i) ==
    LET at == In(i, <<"moe", "experts">>)
        router == In(i, <<"moe", "router">>)
    IN  << EpBack(Of("dgot", i), "grouped_mm", <<Of("dffn", i), "full_" \o Of("we", i), Of("remote", i)>>, at, Plain),
           Noted(EpBack(Of("ddisp", i), "all_to_all", <<Of("dgot", i), Of("in", i), Of("out", i)>>, at, Plain), "dispatch"),
           Noted(EpBack(Of("dsorted", i), "wait", <<Of("ddisp", i)>>, at, Plain), "dispatch"),
           EpBack(Of("dzero", i), "zeros", <<"size">>, at, Rows),
           EpBack(Of("dtoken", i), "scatter", <<Of("dzero", i), Of("dsorted", i), Of("expert", i)>>, at, Rows),
           EpBack(Of("dlogits", i), "topk_back", <<Of("dscore", i), Of("expert", i), Of("logits", i)>>, router, Rows),
           EpBack("dw_" \o Of("wr", i), "dw", <<Of("dlogits", i), Of("flat", i)>>, router, Plain) >>
          \o EpReduce(Of("wr", i), router)
          \o << EpBack(Of("drouter", i), "mm", <<Of("dlogits", i), "full_" \o Of("wr", i)>>, router, Rows),
                EpBack(Of("dflat", i), "add", <<Of("dtoken", i), Of("drouter", i)>>, <<>>, Rows),
                EpBack(Of("dnf", i), "view", <<Of("dflat", i), "size">>, In(i, <<"moe">>), Rows) >>

\* Where a value is read twice autograd adds the gradients, in no module.
AttentionBack(i, h, d) ==
    LET at == In(i, <<"attention">>)
    IN  << EpBack(Of("dfn", i), "norm_back", <<Of("dnf", i), Of("ha", i)>>, In(i, <<"ffn_norm">>), Rows),
           EpBack(Of("dha", i), "add", <<d, Of("dfn", i)>>, <<>>, Rows),
           EpBack(Of("dq", i), "attn_back", <<Of("dha", i), Of("q", i), "full_" \o Of("wa", i)>>, at, Rows),
           EpBack("dw_" \o Of("wa", i), "dw", <<Of("dha", i), Of("q", i)>>, at, Plain) >>
          \o EpReduce(Of("wa", i), at)
          \o << EpBack(Of("dna", i), "view", <<Of("dq", i), "size">>, at, Rows),
                EpBack(Of("dan", i), "norm_back", <<Of("dna", i), h>>, In(i, <<"attention_norm">>), Rows),
                EpBack(Of("dh", i), "add", <<Of("dha", i), Of("dan", i)>>, <<>>, Rows) >>

EpLayer(i, h) == Attention(i, h) \o Router(i) \o Dispatch(i) \o Combine(i)
EpLayerBack(i, h, d) == CombineBack(i, d) \o DispatchBack(i) \o AttentionBack(i, h, d)

Embedding == EpGather("wemb", <<"tok_embeddings">>) \o << EpCall("emb", "embed", <<"x", "full_wemb">>, <<"tok_embeddings">>, Rows) >>
EmbeddingBack ==
    << EpBack("dw_wemb", "dw", <<"dh0", "x">>, <<"tok_embeddings">>, Plain) >> \o EpReduce("wemb", <<"tok_embeddings">>)
HeadAndLoss(h) ==
    LET head == <<"lm_head">>
    IN  << EpCall("hn", "norm", <<h>>, <<"norm">>, Rows) >> \o EpGather("wout", head)
          \o << EpCall("logits", "linear", <<"hn", "full_wout">>, head, Rows),
                EpCall("loss", "loss", <<"logits", "y">>, head, Plain),
                EpBack("dlogits", "loss_back", <<"logits", "y">>, head, Rows),
                EpBack("dw_wout", "dw", <<"dlogits", "hn">>, head, Plain) >>
          \o EpReduce("wout", head)
          \o << EpBack("dhn", "mm", <<"dlogits", "full_wout">>, head, Rows),
                EpBack("dlast", "norm_back", <<"dhn", h>>, <<"norm">>, Rows) >>

\* Both layers are traced one after the other, their backward in reverse.
RECURSIVE EpLayers(_, _, _)
EpLayers(i, last, h) == IF i > last THEN <<>> ELSE EpLayer(i, h) \o EpLayers(i + 1, last, Of("h", i))
RECURSIVE EpLayersBack(_, _)
EpLayersBack(i, d) ==
    IF i < 0 THEN <<>>
    ELSE EpLayerBack(i, IF i = 0 THEN "emb" ELSE Of("h", i - 1), d) \o EpLayersBack(i - 1, Of("dh", i))

EpParams(trace) ==
    <<"wemb">> \o FlattenSeq([k \in 1..trace.layers |-> <<Of("wa", k - 1), Of("wr", k - 1), Of("we", k - 1)>>]) \o <<"wout">>
EpBuffers(trace) == [k \in 1..trace.layers |-> Of("seen", k - 1)]
EpStatic(trace) == EpParams(trace) \o EpBuffers(trace)
EpInputs(trace) ==
    [k \in 1..Len(EpStatic(trace)) |-> EpNode(EpStatic(trace)[k], "input", "input", <<>>, <<>>, Plain)]
      \o << EpNode("x", "input", "input", <<>>, <<>>, Rows), EpNode("y", "input", "input", <<>>, <<>>, Rows) >>
EpGrad(p) == "grad_" \o p
\* The modules in the order their parameters were registered (state_fqns).
EpModules(trace) ==
    << <<"tok_embeddings">> >>
      \o FlattenSeq([k \in 1..trace.layers |-> [i \in 1..3 |-> In(k - 1, << <<"attention">>, <<"moe", "router">>, <<"moe", "experts">> >>[i])]])
      \o << <<"lm_head">> >>

EpTraced(trace) ==
    LET last == trace.layers - 1
    IN  [nodes |-> EpInputs(trace) \o << EpCall("size", "sym_size", <<"x">>, <<>>, Extent) >> \o Embedding
                     \o EpLayers(0, last, "emb") \o HeadAndLoss(Of("h", last)) \o EpLayersBack(last, "dlast")
                     \o EmbeddingBack,
         outputs |-> <<"loss">> \o [k \in 1..Len(EpParams(trace)) |-> EpGrad(EpParams(trace)[k])]]

(***************************************************************************)
(* Execution, half of the selected dimension by half.  What a value holds  *)
(* of a half is the place of a term (FxGraph).  Its kind says how halves   *)
(* come together: rows stand one after the other, routed tokens are mixed  *)
(* in the order of the experts, a sum adds what each half contributes (to  *)
(* what a buffer held, its part 0), and a whole depends on no half.  A     *)
(* size counts halves and a fresh tensor has as many.  What a collective   *)
(* or a copy to the CPU returned is ready only after a wait or a copy that *)
(* blocks, and what cannot be what the trace meant is bad.                 *)
(***************************************************************************)
BothHalves == {1, 2}
Held(kind, at) == [kind |-> kind, at |-> at, ready |-> "now"]
Bad == Held("bad", <<>>)
Sized(k) == Held("size", <<k>>)

IsData(v) == v.kind \in {"rows", "mixed", "sum"}
IsSize(v) == v.kind \in {"size", "fresh"}
Reductions == {"dw", "hist", "loss"}
Permuting == {"permute", "gather"}
Unpermuting == {"scatter", "dscore"}
Exchanges == {"all_to_all", "all_gather", "reduce_scatter"}

PlaceIn(v, h) == IF v.kind = "whole" THEN v.at[0] ELSE IF IsSize(v) THEN <<v.kind, 0>> ELSE v.at[h]
HalfTerm(n, args, h) ==
    Value(IF n.target = "view" THEN "reshape" ELSE n.target, IF n.target = "getitem" THEN n.item ELSE 0,
          [i \in 1..Len(args) |-> PlaceIn(args[i], h)])
RECURSIVE PlacedParts(_, _, _, _)
PlacedParts(m, n, args, parts) ==
    IF parts = <<>> THEN m
    ELSE CHOOSE r \in {PlacedParts(next, n, args, Tail(parts)) : next \in {Placed(m, HalfTerm(n, args, Head(parts)))}} : TRUE

KindOf(n, args) ==
    LET kinds == {args[i].kind : i \in 1..Len(args)}
    IN  CASE n.target \in Reductions -> "sum"
          [] n.target \in Unpermuting -> "rows"
          [] n.target \in Permuting \/ ("mixed" \in kinds /\ n.target \notin Reductions \cup Unpermuting) -> "mixed"
          [] OTHER -> IF "rows" \in kinds THEN "rows" ELSE IF "sum" \in kinds THEN "sum" ELSE "whole"
Readiness(n) ==
    CASE n.target \in Exchanges -> "wait"
      [] n.target = "to_cpu" -> IF n.item = 1 THEN "sync" ELSE "now"
      [] OTHER -> "now"

\* Binds the result of a node; a blocking copy ends the copies before it.
EpBound(m, n, v) ==
    [m EXCEPT !.env = (n.name :> v) @@
        (IF n.target = "to_cpu" /\ n.item = 2
         THEN [x \in DOMAIN @ |-> IF @[x].ready = "sync" THEN [@[x] EXCEPT !.ready = "now"] ELSE @[x]] ELSE @)]
PartsComputed(m, n, args, parts) ==
    EpBound(m, n, [kind |-> KindOf(n, args), at |-> [h \in parts |-> Place(m, HalfTerm(n, args, h))], ready |-> Readiness(n)])
\* A node that treats each half alike.
ByParts(m, n, args, parts) ==
    IF \/ \E i \in 1..Len(args) : IsData(args[i]) /\ DOMAIN args[i].at # parts
       \/ \E i \in 1..Len(args) : IsSize(args[i]) /\ args[i].at[1] # Cardinality(parts)
    THEN EpBound(m, n, Bad)
    ELSE CHOOSE r \in {PartsComputed(next, n, args, parts) :
                          next \in {PlacedParts(m, n, args, SelectSeq(<<0, 1, 2>>, LAMBDA h : h \in parts))}} : TRUE
PartsIn(args) ==
    LET data == {i \in 1..Len(args) : IsData(args[i])}
    IN  IF data = {} THEN {0} ELSE DOMAIN args[CHOOSE i \in data : TRUE].at

Merged(v, w) == Held(v.kind, v.at @@ w.at)
Apart(v, w) == v.kind = "sum" /\ w.kind = "sum" /\ DOMAIN v.at \cap DOMAIN w.at = {}
Stacked(args) ==
    IF args[1].kind = "rows" /\ args[2].kind = "rows" /\ DOMAIN args[1].at = {1} /\ DOMAIN args[2].at = {2}
    THEN Merged(args[1], args[2]) ELSE Bad
HalvesOf(args) ==
    IF args[1].kind = "rows" /\ DOMAIN args[1].at = BothHalves /\ args[2] = Sized(1) /\ args[3] = Sized(1)
    THEN [args[1] EXCEPT !.kind = "halves"] ELSE Bad
SizeOf(v) ==
    IF v.kind = "rows" THEN Sized(Cardinality(DOMAIN v.at)) ELSE IF v.kind = "fresh" THEN Sized(v.at[1]) ELSE Bad

\* A buffer is written in place: who got it from an earlier write sees it too.
Buffer(m, x) == IF m.env[x].kind = "ref" THEN m.env[x].at[1] ELSE x
Deref(m, x) == m.env[Buffer(m, x)]
WroteBuffer(m, n, buffer, v) ==
    [m EXCEPT !.env = (n.name :> Held("ref", <<buffer>>)) @@ (buffer :> v) @@ @]

\* A bucket holds values one after the other, and a collective moves each.
EachMoved(m, n, values) ==
    Fold(LAMBDA acc, v : CHOOSE r \in {[m |-> ran, moved |-> Append(acc.moved, [ran.env[n.name] EXCEPT !.ready = "now"])] :
                                          ran \in {ByParts(acc.m, n, <<v>>, PartsIn(<<v>>))}} : TRUE,
         [m |-> m, moved |-> <<>>], values)
Packed(values) == Held("bucket", values)
BucketBound(n, all, ready) == EpBound(all.m, n, [Packed(all.moved) EXCEPT !.ready = ready])

OnValues(m, n, args) ==
    CASE \E i \in 1..Len(args) : args[i].kind = "bad" \/ (args[i].ready # "now" /\ n.target # "wait") -> EpBound(m, n, Bad)
      [] n.target = "wait" -> EpBound(m, n, [args[1] EXCEPT !.ready = "now"])
      [] n.target = "clone" -> EpBound(m, n, args[1])
      [] n.target = "pack" -> EpBound(m, n, Packed(args))
      [] n.target = "pack_cast" -> BucketBound(n, EachMoved(m, [n EXCEPT !.target = "cast"], args), "now")
      [] n.target = "unpack" -> EpBound(m, n, args[1].at[n.item])
      [] n.target \in Exchanges /\ args[1].kind = "bucket" -> BucketBound(n, EachMoved(m, n, args[1].at), "wait")
      [] n.target = "sym_size" -> EpBound(m, n, SizeOf(args[1]))
      [] n.target = "floordiv" -> EpBound(m, n, Sized(args[1].at[1] \div 2))
      [] n.target = "zeros" -> EpBound(m, n, [args[1] EXCEPT !.kind = "fresh"])
      [] n.target = "split" -> EpBound(m, n, HalvesOf(args))
      [] n.target = "getitem" /\ args[1].kind = "halves" -> EpBound(m, n, Held("rows", (n.item :> args[1].at[n.item])))
      [] n.target = "cat" -> EpBound(m, n, Stacked(args))
      [] n.target = "add_" -> WroteBuffer(m, n, Buffer(m, n.args[1]), IF Apart(args[1], args[2]) THEN Merged(args[1], args[2]) ELSE Bad)
      [] n.target = "add" /\ Apart(args[1], args[2]) -> EpBound(m, n, Merged(args[1], args[2]))
      [] OTHER -> ByParts(m, n, args, PartsIn(args))
EpExecuted(m, n) ==
    CHOOSE r \in {OnValues(m, n, args) :
                    args \in {[i \in 1..Len(n.args) |-> IF n.args[i] = None THEN Sized(n.item) ELSE Deref(m, n.args[i])]}} : TRUE
\* What the inputs hold: parameters whole, buffers what was summed so far, and
\* a row of each batch in each half.
EpGiven(trace) ==
    [x \in ToSet(EpParams(trace)) |-> Held("whole", 0 :> <<x, 1>>)]
      @@ [x \in ToSet(EpBuffers(trace)) |-> Held("sum", 0 :> <<x, 1>>)]
      @@ [x \in {"x", "y"} |-> Held("rows", [h \in BothHalves |-> <<x, h>>])]
EpStepped(table, g, trace) ==
    Fold(LAMBDA m, n : IF n.op = "input" THEN m ELSE EpExecuted(m, n), [table |-> table, env |-> EpGiven(trace)], g.nodes)
EpSeen(m, g, trace) ==
    [results |-> [i \in 1..Len(g.outputs) |-> Deref(m, g.outputs[i])],
     buffers |-> [k \in 1..trace.layers |-> m.env[EpBuffers(trace)[k]]]]
=============================================================================
