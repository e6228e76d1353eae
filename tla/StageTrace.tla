------------------------------ MODULE StageTrace ------------------------------
(***************************************************************************)
(* The step of a stage as minimal_fx_tracer records it (_build_stage_      *)
(* graphs): inputs (parameters, buffers, the microbatch, then the target   *)
(* or the gradients the next stage sends), two layers and the loss in the  *)
(* last stage, their backward, and the outputs (stage output, parameter    *)
(* gradients, input gradients).                                            *)
(*                                                                         *)
(* trace = [last: the stage ends in the loss, chunked: in a chunked loss,  *)
(*          rich: attention with a tuple result, a counter in a buffer, a  *)
(*                size read, a parameter whose gradient is the input's and *)
(*                one without a gradient,                                  *)
(*          fsdp: "none", "twice" (p0 is gathered at both of its reads),   *)
(*                "parts" (gathered and put together from parts, and its   *)
(*                gradient reduced over two meshes)]                       *)
(***************************************************************************)
EXTENDS FxGraph

Node(x, op, target, args, item, bwd, layer, loss) ==
    [name |-> x, op |-> op, target |-> target, args |-> args, item |-> item,
     bwd |-> bwd, layer |-> layer, loss |-> loss, tag |-> Untagged]
Input(x) == Node(x, "input", "input", <<>>, 0, FALSE, NotInLayers, FALSE)
Fwd(layer, x, target, args) == Node(x, "call", target, args, 1, FALSE, layer, FALSE)
Bwd(layer, x, target, args) == Node(x, "call", target, args, 1, TRUE, layer, FALSE)
LossFwd(x, target, args) == Node(x, "call", target, args, 1, FALSE, NotInLayers, TRUE)
LossBwd(x, target, args) == Node(x, "call", target, args, 1, TRUE, NotInLayers, TRUE)
Item(n, i) == [n EXCEPT !.item = i]

If(c, seq) == IF c THEN seq ELSE <<>>
Sharded(trace) == trace.fsdp # "none"

Params(trace) == <<"p0">> \o If(Sharded(trace), <<"mesh0">>) \o If(trace.rich, <<"pe", "pz">>)
                   \o <<"p1">> \o If(trace.last, <<"p2">>)
Buffers(trace) == If(trace.rich, <<"buf">>)
Microbatch(trace) == <<"x">> \o If(trace.last, <<"y">>)
BackwardOnly(trace) == If(~trace.last, <<"tangent">>)

\* Parameter 0 as its two readers see it.
Gather(s) == << Fwd(0, "cast" \o s, "cast", <<"p0">>), Fwd(0, "gather" \o s, "all_gather", <<"cast" \o s>>),
                Fwd(0, "w" \o s, "wait", <<"gather" \o s>>) >>
Unsharding(trace) ==
    CASE trace.fsdp = "none" -> <<>>
      [] trace.fsdp = "twice" -> Gather("") \o Gather("_again")
      [] trace.fsdp = "parts" -> Gather("") \o << Fwd(0, "split", "split", <<"w">>),
             Fwd(0, "part1", "getitem", <<"split">>), Item(Fwd(0, "part2", "getitem", <<"split">>), 2),
             Fwd(0, "cat", "cat", <<"part1", "part2">>) >>
FirstRead(trace) == CASE trace.fsdp = "none" -> "p0" [] trace.fsdp = "twice" -> "w" [] OTHER -> "cat"
SecondRead(trace) == IF trace.fsdp = "twice" THEN "w_again" ELSE FirstRead(trace)

Layer0(trace) ==
    LET xe == IF trace.rich THEN "xe" ELSE "x"
        core == IF trace.rich THEN "attn" ELSE "act"
    IN  Unsharding(trace)
          \o If(trace.rich, << Fwd(0, "xe", "add", <<"x", "pe">>) >>)
          \o << Fwd(0, "t0", "t", <<FirstRead(trace)>>), Fwd(0, "h0", "linear", <<xe, "t0">>),
                Fwd(0, "act", "relu", <<"h0">>), Fwd(0, "act_kept", "detach", <<"act">>) >>
          \o If(trace.rich,
                << Fwd(0, "flex", "flex", <<"act">>), Fwd(0, "attn", "getitem", <<"flex">>),
                   Item(Fwd(0, "lse", "getitem", <<"flex">>), 2), Fwd(0, "size", "sym_size", <<"act">>),
                   Fwd(0, "check", "assert_async", <<"act">>), Fwd(0, "count", "count", <<"act">>),
                   Fwd(0, "counted", "add_", <<"buf", "count">>), Fwd(0, "scale", "detach", <<"pz">>) >>)
          \o << Fwd(0, "wide", "view", <<core>>), Item(Fwd(0, "same", "view", <<"wide">>), 0),
                Fwd(0, "t0b", "t", <<SecondRead(trace)>>), Fwd(0, "g0", "linear", <<"same", "t0b">>),
                Fwd(0, "y0", "mul", IF trace.rich THEN <<"g0", "scale">> ELSE <<"g0">>) >>

Layer1 == << Fwd(1, "n1", "norm", <<"y0">>), Fwd(1, "t1", "t", <<"p1">>), Fwd(1, "h1", "linear", <<"n1", "t1">>),
             Fwd(1, "o1", "relu", <<"h1">>), Fwd(1, "o1_kept", "detach", <<"o1">>),
             Fwd(1, "r1", "add", <<"o1", "y0">>) >>

\* The chunked loss runs its backward chunk by chunk within the forward: the
\* hidden state's gradient is written into views of one tensor.
Chunk(c, s) ==
    << Item(LossFwd("x" \o s, "slice", <<"hn_whole">>), c), LossFwd("l" \o s, "chunk_loss", <<"x" \o s, "p2", "y">>),
       LossBwd("gx" \o s, "chunk_dx", <<"x" \o s, "p2", "y">>), LossBwd("gw" \o s, "chunk_dw", <<"x" \o s, "p2", "y">>) >>
      \o If(c = 2, << LossBwd("gw", "add_", <<"gw_a", "gw_b">>) >>)
      \o << Item(LossFwd("acc" \o s, "slice", <<"acc">>), c), LossFwd("copied" \o s, "copy_", <<"acc" \o s, "gx" \o s>>) >>
LossPart(trace) ==
    IF ~trace.last THEN <<>>
    ELSE << Fwd(NotInLayers, "hn", "norm", <<"r1">>) >>
      \o IF trace.chunked
         THEN << Item(LossFwd("hn_whole", "slice", <<"hn">>), 0), LossFwd("acc", "empty", <<>>) >> \o Chunk(1, "_a") \o Chunk(2, "_b")
                \o << LossFwd("loss", "add", <<"l_a", "l_b">>), LossBwd("dp2", "detach", <<"gw">>),
                      Bwd(NotInLayers, "dr1", "norm_back", <<"acc", "r1">>) >>
         ELSE << LossFwd("t2", "t", <<"p2">>), LossFwd("logits", "linear", <<"hn", "t2">>),
                 LossFwd("loss", "nll", <<"logits", "y">>), LossBwd("dlogits", "nll_back", <<"logits", "y">>),
                 LossBwd("dp2", "mm", <<"dlogits", "hn">>), LossBwd("tt2", "t", <<"t2">>),
                 LossBwd("dhn", "mm", <<"dlogits", "tt2">>), Bwd(NotInLayers, "dr1", "norm_back", <<"dhn", "r1">>) >>

StageGrad(trace) == IF trace.last THEN "dr1" ELSE "tangent"
Layer1Back(trace) ==
    << Bwd(1, "do1", "relu_back", <<StageGrad(trace), "o1_kept">>), Bwd(1, "tt1", "t", <<"t1">>),
       Bwd(1, "dn1", "mm", <<"do1", "tt1">>), Bwd(1, "tdo1", "t", <<"do1">>), Bwd(1, "dw1", "mm", <<"tdo1", "n1">>),
       Bwd(1, "tdw1", "t", <<"dw1">>), Bwd(1, "dp1", "t", <<"tdw1">>),
       Bwd(1, "dy", "norm_back", <<"dn1", "y0">>), Bwd(1, "dy0", "add", <<"dy", StageGrad(trace)>>) >>

GradReduction(trace) ==
    If(Sharded(trace), << Bwd(0, "cast_dp0", "cast", <<"dw0">>), Bwd(0, "scatter", "reduce_scatter", <<"cast_dp0">>),
                          Bwd(0, "scattered", "wait", <<"scatter">>) >>)
      \o If(trace.fsdp = "parts", << Bwd(0, "reduce", "all_reduce", <<"scattered">>), Bwd(0, "reduced", "wait", <<"reduce">>) >>)
Grad0(trace) == CASE trace.fsdp = "none" -> "dw0" [] trace.fsdp = "twice" -> "scattered" [] OTHER -> "reduced"

Layer0Back(trace) ==
    LET xe == IF trace.rich THEN "xe" ELSE "x"
        dg == IF trace.rich THEN "dg0" ELSE "dy0"
    IN  If(trace.rich, << Bwd(0, "dg0", "mul", <<"dy0", "scale">>) >>)
          \o << Bwd(0, "tt0b", "t", <<"t0b">>), Bwd(0, "dsame", "mm", <<dg, "tt0b">>), Bwd(0, "tdg", "t", <<dg>>),
                Bwd(0, "dw0b", "mm", <<"tdg", "same">>), Item(Bwd(0, "dwide", "view", <<"dsame">>), 2) >>
          \o If(trace.rich, << Bwd(0, "dsized", "expand", <<"dwide", "size">>),
                               Bwd(0, "dact", "flex_back", <<"dsized", "attn", "lse", "act">>) >>)
          \o << Bwd(0, "dh0", "relu_back", <<IF trace.rich THEN "dact" ELSE "dwide", "act_kept">>),
                Bwd(0, "tt0", "t", <<"t0">>), Bwd(0, "dx", "mm", <<"dh0", "tt0">>), Bwd(0, "tdh0", "t", <<"dh0">>),
                Bwd(0, "dw0a", "mm", <<"tdh0", xe>>), Bwd(0, "dw0", "add", <<"dw0a", "dw0b">>) >>
          \o GradReduction(trace)

ParamGrads(trace) == <<Grad0(trace)>> \o If(Sharded(trace), <<"mesh0">>) \o If(trace.rich, <<"dx", None>>)
                       \o <<"dp1">> \o If(trace.last, <<"dp2">>)
\* The first stage reads the data: nothing needs its input's gradient.
InputGrads(trace) == If(trace.last \/ trace.rich, <<"dx">>)

Traced(trace) ==
    LET inputs == Params(trace) \o Buffers(trace) \o Microbatch(trace) \o BackwardOnly(trace)
    IN  [nodes |-> [i \in 1..Len(inputs) |-> Input(inputs[i])] \o Layer0(trace) \o Layer1 \o LossPart(trace)
                     \o Layer1Back(trace) \o Layer0Back(trace),
         outputs |-> <<IF trace.last THEN "loss" ELSE "r1">> \o ParamGrads(trace) \o InputGrads(trace)]
=============================================================================
