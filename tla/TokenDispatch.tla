---------------------------- MODULE TokenDispatch ----------------------------
(***************************************************************************)
(* The arithmetic of expert routing (models/common/token_dispatcher.py,    *)
(* distributed/minimal_async_ep).  A rank's tokens pick TopK experts each; *)
(* the routed slots are sorted by expert, moved to the ranks that own the  *)
(* experts, computed, moved back and summed into their tokens.  Three      *)
(* dispatchers do this: LocalTokenDispatcher on one rank,                  *)
(* AllToAllTokenDispatcher by two exchanges around a permutation, and      *)
(* MinimalAsyncEP by writing every row straight to its final place.        *)
(*                                                                         *)
(* A tensor row is a function argument counted from 0, as in the code; its *)
(* content is a value the operators only move.  Floating point sums are    *)
(* sets of the terms summed.                                               *)
(***************************************************************************)
EXTENDS Integers, FiniteSets, Sequences, FiniteSetsExt

CONSTANTS EpSize,        \* ranks of the expert-parallel group
          LocalExperts,  \* experts a rank owns
          TopK,          \* experts a token picks
          Tokens         \* tokens of a rank's shard

ASSUME DispatchAssumption ==
    /\ EpSize \in Nat \ {0} /\ LocalExperts \in Nat \ {0} /\ Tokens \in Nat \ {0}
    /\ TopK \in 1..(EpSize * LocalExperts)

Ranks   == 0..(EpSize - 1)
Experts == 0..(EpSize * LocalExperts - 1)
Locals  == 0..(LocalExperts - 1)
Rows    == 0..(Tokens * TopK - 1)     \* routed slots of a rank, token-major

Owner(x)     == x \div LocalExperts
OwnedBy(r)   == {x \in Experts : Owner(x) = r}
TokenOf(row) == row \div TopK

\* What the router hands out: the experts of one token are distinct (topk).
Routings == {ids \in [Rows -> Experts] :
                \A m, n \in Rows : m # n /\ TokenOf(m) = TokenOf(n) => ids[m] # ids[n]}

\* cumsum() of a tensor of numbers, without its own entry: what comes before k.
PrefixSum(f, k) ==
    LET sum[j \in 0..k] == IF j = 0 THEN 0 ELSE sum[j - 1] + f[j - 1]
    IN  sum[k]

(***************************************************************************)
(* Counting and sorting.                                                   *)
(***************************************************************************)

\* num_local_tokens_per_expert_E.
CountsOf(ids) == [x \in Experts |-> Cardinality({n \in Rows : ids[n] = x})]

\* E_row_to_T_row: the stable argsort of the slots by expert.
ExpertOrder(ids) ==
    LET Place(n) == Cardinality({m \in Rows : \/ ids[m] < ids[n]
                                              \/ ids[m] = ids[n] /\ m < n})
    IN  [row \in Rows |-> CHOOSE n \in Rows : Place(n) = row]

\* T_row_to_E_row: where each slot went.
Inverted(order) == [n \in Rows |-> CHOOSE row \in Rows : order[row] = n]

\* The first row of expert x among the sorted rows of a rank with counts c.
StartOf(c, x) == PrefixSum(c, x)

(***************************************************************************)
(* LocalTokenDispatcher: no exchange, one scatter_add.  A term of a        *)
(* token's sum is the slot whose score it carries and what the expert made *)
(* of the token.                                                           *)
(***************************************************************************)
\* What expert x makes of v.
ExpertOut(x, v) == [of |-> "output", expert |-> x, input |-> v]

LocalCombined(ids, value) ==
    LET order == ExpertOrder(ids)
    IN  [t \in 0..(Tokens - 1) |->
           {[slot |-> order[row], is |-> ExpertOut(ids[order[row]], value[t])] :
               row \in {q \in Rows : TokenOf(order[q]) = t}}]

(***************************************************************************)
(* MinimalAsyncEP: every rank knows the counts of all ranks (all[r][x])    *)
(* and computes where each of its rows ends up.                            *)
(***************************************************************************)

\* The rows of each source for expert x (counts_sde), all of them, and those
\* for each expert of rank r (total_de).
RowsFor(all, x) == [s \in Ranks |-> all[s][x]]
GroupLen(all, x) == PrefixSum(RowsFor(all, x), EpSize)
GroupLens(all, r) == [e \in Locals |-> GroupLen(all, r * LocalExperts + e)]

\* A receiver lays its rows out by local expert, then by source rank: the
\* rows before those of source s for expert x.
SegmentStart(all, x, s) ==
    PrefixSum(GroupLens(all, Owner(x)), x % LocalExperts) + PrefixSum(RowsFor(all, x), s)

\* dispatch_dst_ranks and dispatch_dst_rows of rank r, by sorted row.
DispatchTarget(all, r) ==
    LET ExpertAt(row) == CHOOSE x \in Experts : /\ StartOf(all[r], x) <= row
                                                /\ row < StartOf(all[r], x) + all[r][x]
    IN  [row \in Rows |->
           [rank |-> Owner(ExpertAt(row)),
            row  |-> SegmentStart(all, ExpertAt(row), r) + row - StartOf(all[r], ExpertAt(row))]]

\* combine_num_valid_rows of rank r.
ActiveRows(all, r) == PrefixSum(GroupLens(all, r), LocalExperts)

\* combine_dst_ranks and combine_dst_rows of rank r, by received row.
CombineTarget(all, r) ==
    LET In(p, x, s) == /\ SegmentStart(all, x, s) <= p
                       /\ p < SegmentStart(all, x, s) + all[s][x]
    IN  [p \in 0..(ActiveRows(all, r) - 1) |->
           LET seg == CHOOSE g \in OwnedBy(r) \X Ranks : In(p, g[1], g[2])
           IN  [rank |-> seg[2],
                row  |-> StartOf(all[seg[2]], seg[1]) + p - SegmentStart(all, seg[1], seg[2])]]

\* tokens_per_expert_e and its prefix sums: the expert that owns received row p.
ExpertOfRow(all, r, p) ==
    CHOOSE x \in OwnedBy(r) :
        /\ SegmentStart(all, x, 0) <= p
        /\ p < SegmentStart(all, x, 0) + GroupLen(all, x)

\* receive_capacity and the rows of a hidden receive buffer.
Capacity == EpSize * Tokens * Min({TopK, LocalExperts})

\* reduce_topk_slots: token t sums the routed rows of its TopK slots.
ReduceSlots(routed, order) ==
    LET rowOf == Inverted(order)
    IN  [t \in 0..(Tokens - 1) |->
           {[slot |-> n, is |-> routed[rowOf[n]]] : n \in {q \in Rows : TokenOf(q) = t}}]

\* expand_topk_grad: the gradient of a sorted row is its token's, times the score of its slot.
ExpandGrad(grad, order) ==
    [row \in Rows |-> [slot |-> order[row], is |-> grad[TokenOf(order[row])]]]

\* topk_scores_grad, slot ordered: the routed row against the gradient of its token.
ScoresGrad(routed, grad, order) ==
    LET rowOf == Inverted(order)
    IN  [n \in Rows |-> <<routed[rowOf[n]], grad[TokenOf(order[rowOf[n]])]>>]
=============================================================================
