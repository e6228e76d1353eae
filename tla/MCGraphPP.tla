----------------------------- MODULE MCGraphPP ------------------------------
(* Looped and V layouts of two and three ranks, uneven and weighted splits. *)
EXTENDS GraphPP

Layout(style, ranks, layers, perStage, weights, mbs, flags) ==
    [style |-> style, ranks |-> ranks, layers |-> layers, layersPerStage |-> perStage,
     inWeight |-> weights[1], outWeight |-> weights[2], microbatches |-> mbs,
     split |-> "split" \in flags, overlap |-> "overlap" \in flags,
     scaleGrads |-> "scale" \in flags]

SmallLayouts ==
    { Layout("loop", 2, 5, 2, <<1, 2>>, 3, {"scale"}),
      Layout("loop", 2, 7, 0, <<1, 0>>, 1, {"split"}),
      Layout("v", 2, 5, 0, <<1, 1>>, 2, {"split"}),
      Layout("v", 2, 6, 0, <<0, 1>>, 2, {"overlap", "scale"}),
      Layout("v", 3, 7, 0, <<1, 1>>, 1, {"overlap"}),
      Layout("loop", 2, 5, 1, <<0, 1>>, 1, {}) }

SmallPasses == { <<"train", "train", "opt", "eval">> }
=============================================================================
