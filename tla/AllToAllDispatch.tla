--------------------------- MODULE AllToAllDispatch ---------------------------
(***************************************************************************)
(* AllToAllTokenDispatcher and TorchAOTokenDispatcher                      *)
(* (models/common/token_dispatcher.py): the counts are exchanged, the rows *)
(* are exchanged in blocks, the received blocks (by source rank) are       *)
(* permuted to groups (by expert), and the way back undoes both.  With     *)
(* sequence parallelism a rank holds a piece of every sequence, and places *)
(* its tokens into the full sequence by index arithmetic.                  *)
(***************************************************************************)
EXTENDS TokenDispatch

CONSTANTS PadMultiple,  \* TorchAO: expert groups are padded to multiples of this
          SpSizes,      \* sequence-parallel degrees to try
          MaxBatch, MaxSeq

ASSUME AllToAllAssumption ==
    /\ PadMultiple \in Nat \ {0} /\ SpSizes \subseteq Nat \ {0}
    /\ MaxBatch \in Nat \ {0} /\ MaxSeq \in Nat \ {0}

(***************************************************************************)
(* The exchange.  all[s][x] is the number of rows rank s has for expert x. *)
(***************************************************************************)

\* num_local_tokens_per_expert_E of rank s, the part for the experts of rank d.
CountsFor(all, s, d) == [e \in Locals |-> all[s][d * LocalExperts + e]]

\* input_splits of rank s for destination d: also output_splits of d for source s.
Split(all, s, d) == PrefixSum(CountsFor(all, s, d), LocalExperts)
InputSplits(all, s) == [d \in Ranks |-> Split(all, s, d)]
OutputSplits(all, d) == [s \in Ranks |-> Split(all, s, d)]

\* Where the block of source s starts among the rows rank d received.
BlockStart(all, s, d) == PrefixSum(OutputSplits(all, d), s)
ReceivedRows(all, d) == PrefixSum(OutputSplits(all, d), EpSize)

\* Where the block for destination d starts among the sorted rows of rank s.
SentStart(all, s, d) == PrefixSum(InputSplits(all, s), d)

\* all_to_all_single: what lies at received row q of rank d.
Received(all, d) ==
    [q \in 0..(ReceivedRows(all, d) - 1) |->
       LET s == CHOOSE s \in Ranks : /\ BlockStart(all, s, d) <= q
                                     /\ q < BlockStart(all, s, d) + Split(all, s, d)
       IN  [rank |-> s, row |-> SentStart(all, s, d) + q - BlockStart(all, s, d)]]

(***************************************************************************)
(* _permute: input_starts of segment (s, x) in the received order, output  *)
(* starts in the order of experts; _unpermute scatters back.               *)
(***************************************************************************)
InputStart(all, s, x) ==
    BlockStart(all, s, Owner(x)) + PrefixSum(CountsFor(all, s, Owner(x)), x % LocalExperts)

PermutedIndices(all, d) ==
    [p \in 0..(ActiveRows(all, d) - 1) |->
       LET seg == CHOOSE g \in OwnedBy(d) \X Ranks :
                     /\ SegmentStart(all, g[1], g[2]) <= p
                     /\ p < SegmentStart(all, g[1], g[2]) + all[g[2]][g[1]]
       IN  InputStart(all, seg[2], seg[1]) + p - SegmentStart(all, seg[1], seg[2])]

Unpermuted(y, indices) ==
    [q \in {indices[p] : p \in DOMAIN y} |-> y[CHOOSE p \in DOMAIN y : indices[p] = q]]

\* The combine exchange: what rank s gets back for its sorted rows.  back[d]
\* are the rows of rank d in received order.
Returned(all, s, back) ==
    [row \in Rows |->
       LET d == CHOOSE d \in Ranks : /\ SentStart(all, s, d) <= row
                                     /\ row < SentStart(all, s, d) + Split(all, s, d)
       IN  back[d][BlockStart(all, s, d) + row - SentStart(all, s, d)]]

(***************************************************************************)
(* permute_and_pad (torchao): the group of an expert grows to the next     *)
(* multiple; a pad row takes the sentinel row appended to the input, and   *)
(* _unpermute drops the sentinel.                                          *)
(***************************************************************************)
Sentinel(all, d) == ReceivedRows(all, d)

PaddedLen(all, x) ==
    LET blocks == (GroupLen(all, x) + PadMultiple - 1) \div PadMultiple
    IN  PadMultiple * (IF blocks = 0 THEN 1 ELSE blocks)
PaddedLens(all, d) == [e \in Locals |-> PaddedLen(all, d * LocalExperts + e)]
PaddedStart(all, x) == PrefixSum(PaddedLens(all, Owner(x)), x % LocalExperts)

\* The expert whose padded group holds row p.
PaddedExpert(all, d, p) ==
    CHOOSE x \in OwnedBy(d) : PaddedStart(all, x) <= p /\ p < PaddedStart(all, x) + PaddedLen(all, x)

PaddedIndices(all, d) ==
    [p \in 0..(PrefixSum(PaddedLens(all, d), LocalExperts) - 1) |->
       LET x == PaddedExpert(all, d, p)
           in == p - PaddedStart(all, x)
       IN  IF in < GroupLen(all, x)
             THEN PermutedIndices(all, d)[SegmentStart(all, x, 0) + in]
             ELSE Sentinel(all, d)]

Unpadded(y, indices, all, d) ==
    LET out == Unpermuted(y, indices)
    IN  [q \in (DOMAIN out) \ {Sentinel(all, d)} |-> out[q]]

(***************************************************************************)
(* The whole of dispatch, experts, combine, for every rank: ids[r] the     *)
(* routing of rank r, value[r] its tokens.                                 *)
(***************************************************************************)
AllCounts(ids) == [r \in Ranks |-> CountsOf(ids[r])]

ExpertInput(ids, value, at) == value[at.rank][TokenOf(ExpertOrder(ids[at.rank])[at.row])]

\* What the experts of rank d make of their groups, in received order again.
ExpertRows(ids, value, d) ==
    LET all == AllCounts(ids)
        indices == PermutedIndices(all, d)
        y == [p \in DOMAIN indices |->
                ExpertOut(ExpertOfRow(all, d, p), ExpertInput(ids, value, Received(all, d)[indices[p]]))]
    IN  Unpermuted(y, indices)

PaddedExpertRows(ids, value, d) ==
    LET all == AllCounts(ids)
        indices == PaddedIndices(all, d)
        Input(p) == IF indices[p] = Sentinel(all, d) THEN "zero"
                    ELSE ExpertInput(ids, value, Received(all, d)[indices[p]])
        y == [p \in DOMAIN indices |-> ExpertOut(PaddedExpert(all, d, p), Input(p))]
    IN  Unpadded(y, indices, all, d)

AllToAllCombined(ids, value, padded) ==
    LET back == [d \in Ranks |-> IF padded THEN PaddedExpertRows(ids, value, d)
                                 ELSE ExpertRows(ids, value, d)]
        order == [r \in Ranks |-> ExpertOrder(ids[r])]
        routed == [r \in Ranks |-> Returned(AllCounts(ids), r, back)]
    IN  [r \in Ranks |-> [t \in 0..(Tokens - 1) |->
           {[slot |-> order[r][row], is |-> routed[r][row]] :
               row \in {q \in Rows : TokenOf(order[r][q]) = t}}]]

(***************************************************************************)
(* Sequence parallelism.  A batch of B sequences of length L is sharded by *)
(* position: a rank holds a chunk of each.  MoE.forward first pads a       *)
(* sequence shorter than the group to its size (seq_pad), then counts      *)
(* virtual padding to a multiple (seq_dim_pad_tokens).                     *)
(***************************************************************************)
CeilDiv(a, b) == (a + b - 1) \div b

PaddedSeq(L, sp) == IF L < sp THEN sp ELSE L
\* local_seq_len_after_padding: the stride of a rank.
SpStride(L, sp) == CeilDiv(PaddedSeq(L, sp), sp)
\* DTensor Shard(seq): chunks of the stride, the last ones short or empty.
ShardLen(L, sp, r) ==
    LET left == PaddedSeq(L, sp) - r * SpStride(L, sp)
    IN  IF left < 0 THEN 0 ELSE Min({left, SpStride(L, sp)})

\* Mutant: the batch rows are laid out by local length.
BugGlobalIndex(i, stride, sp, r) == i + (r * stride)

\* _sp_global_token_indices of local token i of sequence-parallel rank r.
GlobalIndex(i, stride, sp, r) ==
    ((i \div stride) * (stride * sp)) + (i % stride) + (r * stride)

\* Where MoE.forward finds token (b, pos) in the combined output: row b of
\* length stride * sp, trimmed to L.
OutputPlace(b, pos, stride, sp) == b * stride * sp + pos

\* seq_len is a multiple of the sequence-parallel degree in training
\* (Trainer.__init__); the generators, where it may not be, run one sequence.
SpCases == {c \in [batch : 1..MaxBatch, len : 1..MaxSeq, sp : SpSizes] :
               c.len % c.sp = 0 \/ c.batch = 1}

\* What rank r writes: row GlobalIndex of the output takes the token at
\* position i of its shard of sequence b.
SpWrites(c, r) ==
    LET shard == ShardLen(c.len, c.sp, r)
        stride == SpStride(c.len, c.sp)
    IN  {[batch |-> t[1], pos |-> r * stride + t[2],
          row |-> GlobalIndex(t[1] * shard + t[2], stride, c.sp, r)] :
            t \in (0..(c.batch - 1)) \X (0..(shard - 1))}

(***************************************************************************)
(* What the dispatchers owe to one another.                                *)
(***************************************************************************)

\* On a routing, a token sums the same expert outputs through the exchanges and
\* permutations as on one rank that owns all experts.
SameSums(routing) ==
    LET value(r) == [t \in 0..(Tokens - 1) |-> <<r, t>>]
    IN  \A padded \in BOOLEAN :
            AllToAllCombined(routing, [r \in Ranks |-> value(r)], padded) =
              [r \in Ranks |-> LocalCombined(routing[r], value(r))]

\* Row OutputPlace of the combined output is written once, by the rank that
\* holds the token read there, and with that token.
RowsPlacedOnce(c) ==
    \A b \in 0..(c.batch - 1), pos \in 0..(PaddedSeq(c.len, c.sp) - 1) :
        LET into == {<<r, w>> : r \in 0..(c.sp - 1), w \in UNION {SpWrites(c, q) : q \in 0..(c.sp - 1)}}
            writers == {g \in into : /\ g[2] \in SpWrites(c, g[1])
                                     /\ g[2].row = OutputPlace(b, pos, SpStride(c.len, c.sp), c.sp)}
        IN  Cardinality(writers) = 1 /\ \A g \in writers : g[2].batch = b /\ g[2].pos = pos
=============================================================================
