---------------------------- MODULE MCRolloutGroup ----------------------------
(***************************************************************************)
(* Two siblings; the first may branch over up to three turns and answer    *)
(* with no token at all, the second answers with single tokens.            *)
(***************************************************************************)
EXTENDS RolloutGroup

Lens == <<{0, 1, 2}, {1}>>

RewardPairs == {<<0, 1>>, <<1, 1>>}

Batch(len, rows, ranks, multiple) ==
    [seqLen |-> len, rows |-> rows, ranks |-> ranks, multiple |-> multiple]

\* Tight rows, several microbatches; wide rows, several samples each; samples
\* rounded up; samples that may be too long.
Configs == {Batch(5, 1, 2, 1), Batch(8, 2, 2, 3), Batch(3, 2, 1, 1)}
=============================================================================
