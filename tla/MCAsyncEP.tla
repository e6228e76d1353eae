------------------------------ MODULE MCAsyncEP ------------------------------
(* Two ranks with two experts each, two tokens, top-2 routing, two layers.    *)
(* The layers' routings differ, so that anything left over from the layer     *)
(* before shows.                                                              *)
EXTENDS AsyncEP

\* Spread over all experts, all to one rank, all to the other, both tokens alike.
Shapes == <<<<0, 2, 3, 1>>, <<0, 1, 1, 0>>, <<3, 2, 2, 3>>, <<2, 0, 2, 0>>>>
Shape(i) == [n \in Rows |-> Shapes[(i % 4) + 1][n + 1]]

Tried ==
    {[l \in 1..Layers |-> [r \in Ranks |-> Shape(a + b * l + c * r)]] :
        a \in 0..3, b \in {1, 2}, c \in {0, 1}}
=============================================================================
