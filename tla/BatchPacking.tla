----------------------------- MODULE BatchPacking -----------------------------
(***************************************************************************)
(* From rollouts to the tensors of a training step                         *)
(* (experiments/rl/components/training_sample_builder.py, batcher.py):     *)
(* turns that share a growing prefix become one training sample, samples   *)
(* are shifted, fitted next-fit into rows, and rows are dealt to the       *)
(* microbatches and the data-parallel ranks.                               *)
(*                                                                         *)
(* A sample is a sequence of cells, one per token: the token, whether it   *)
(* is trained (loss_mask), its logprob and its advantage.  Policy versions *)
(* ride along in the code; AsyncLoop models what they bound.               *)
(***************************************************************************)
EXTENDS Integers, SequencesExt

CONSTANTS PadToken,   \* pad_id
          NoLogprob   \* the 0.0 of a token nobody sampled

(***************************************************************************)
(* TrainingSampleBuilder.                                                  *)
(***************************************************************************)
Untrained(t) == [token |-> t, trained |-> FALSE, logprob |-> NoLogprob, advantage |-> 0]
Trained(t, logprob, advantage) ==
    [token |-> t, trained |-> TRUE, logprob |-> logprob, advantage |-> advantage]

\* A mistake for mutation: any prompt long enough is taken for a continuation.
BugContinues(prompt, prev) == Len(prompt) >= Len(prev)

\* prompt[: len(prev)] == prev
Continues(prompt, prev) == IsPrefix(prev, prompt)

\* One turn: its prompt after the shared prefix untrained, its completion trained.
\* A turn without a completion is skipped.
AddTurn(acc, turn, advantage) ==
    LET extends == acc.samples # <<>> /\ Continues(turn.prompt, acc.prev)
        shared  == IF extends THEN Len(acc.prev) ELSE 0
        cells   == [k \in 1..(Len(turn.prompt) - shared) |-> Untrained(turn.prompt[shared + k])]
                   \o [k \in 1..Len(turn.completion) |->
                         Trained(turn.completion[k], turn.logprobs[k], advantage)]
    IN  IF turn.completion = <<>> THEN acc
        ELSE [samples |-> IF extends THEN Front(acc.samples) \o << Last(acc.samples) \o cells >>
                                     ELSE Append(acc.samples, cells),
              prev    |-> turn.prompt \o turn.completion]

RolloutToTrainingSamples(turns, advantage) ==
    LET acc[n \in 0..Len(turns)] ==
            IF n = 0 THEN [samples |-> <<>>, prev |-> <<>>]
                     ELSE AddTurn(acc[n - 1], turns[n], advantage)
    IN  acc[Len(turns)].samples

\* The filters of build_from_group.  rollouts is a sequence of
\* [turns, reward, advantage]; dropZeroStd is drop_zero_std_reward_groups.
Untrainable(rollouts) ==
    \/ rollouts = <<>>
    \/ \E i \in DOMAIN rollouts :
          \A k \in DOMAIN rollouts[i].turns : rollouts[i].turns[k].completion = <<>>
ZeroStd(rollouts) ==
    Len(rollouts) > 1 /\ \A i \in DOMAIN rollouts : rollouts[i].reward = rollouts[1].reward

Filtered(rollouts, dropZeroStd) == Untrainable(rollouts) \/ (dropZeroStd /\ ZeroStd(rollouts))

\* "non-final turn has no completion": a ValueError, for any turn of several.
EmptyTurn(turns) == Len(turns) > 1 /\ \E k \in DOMAIN turns : turns[k].completion = <<>>

BuildRaises(rollouts, dropZeroStd) ==
    /\ ~Filtered(rollouts, dropZeroStd)
    /\ \E i \in DOMAIN rollouts : EmptyTurn(rollouts[i].turns)

BuildFromGroup(rollouts, dropZeroStd) ==
    IF Filtered(rollouts, dropZeroStd) THEN <<>>
    ELSE FlattenSeq([i \in DOMAIN rollouts |->
             RolloutToTrainingSamples(rollouts[i].turns, rollouts[i].advantage)])

(***************************************************************************)
(* Batcher.  b is its configuration: seqLen, rows (local_batch_size),      *)
(* ranks (dp_degree) and multiple (per_sample_pad_multiple, 1 for none).   *)
(***************************************************************************)
RoundUp(n, multiple) == ((n + multiple - 1) \div multiple) * multiple

NumTokensToPack(s, b) == RoundUp(Len(s) - 1, b.multiple)

FitsRow(s, b) == NumTokensToPack(s, b) <= b.seqLen
KeptSamples(samples, b) ==
    FlattenSeq([k \in DOMAIN samples |-> IF FitsRow(samples[k], b) THEN << samples[k] >> ELSE <<>>])

\* Next-fit: a sample that does not fit closes the row.
PlaceSample(acc, s, b) ==
    LET n == NumTokensToPack(s, b)
    IN  IF acc.row # <<>> /\ acc.len + n > b.seqLen
          THEN [rows |-> Append(acc.rows, acc.row), row |-> <<s>>, len |-> n]
          ELSE [rows |-> acc.rows, row |-> Append(acc.row, s), len |-> acc.len + n]

AssignToRows(samples, b) ==
    LET acc[n \in 0..Len(samples)] ==
            IF n = 0 THEN [rows |-> <<>>, row |-> <<>>, len |-> 0]
                     ELSE PlaceSample(acc[n - 1], samples[n], b)
        end == acc[Len(samples)]
    IN  IF end.row # <<>> THEN Append(end.rows, end.row) ELSE end.rows

Padding(n, from) ==
    [k \in 1..n |-> [input |-> PadToken, label |-> PadToken, trained |-> FALSE,
                     logprob |-> NoLogprob, advantage |-> 0, position |-> from + k - 1]]

\* A sample in a row: inputs without the last token, everything that
\* describes a target one token ahead, positions from 0 to the end of the pad.
Shifted(s, b) ==
    [k \in 1..(Len(s) - 1) |->
        [input |-> s[k].token, label |-> s[k + 1].token, trained |-> s[k + 1].trained,
         logprob |-> s[k + 1].logprob, advantage |-> s[k + 1].advantage, position |-> k - 1]]
    \o Padding(NumTokensToPack(s, b) - (Len(s) - 1), Len(s) - 1)

PackRow(samples, b) ==
    LET cells == FlattenSeq([k \in DOMAIN samples |-> Shifted(samples[k], b)])
    IN  cells \o Padding(b.seqLen - Len(cells), 0)

\* A mistake for mutation: rows are dealt in blocks, padding piles up at the end.
BugMicrobatchGrid(rows, b) ==
    LET perMicrobatch == b.rows * b.ranks
        needed == (Len(rows) + perMicrobatch - 1) \div perMicrobatch
        microbatches == IF needed = 0 THEN 1 ELSE needed
        full == rows \o [k \in 1..(microbatches * perMicrobatch - Len(rows)) |-> PackRow(<<>>, b)]
    IN  [at \in (0..(microbatches - 1)) \X (0..(b.ranks - 1)) |->
           [k \in 1..b.rows |-> full[(at[1] * b.ranks + at[2]) * b.rows + k]]]

\* Rows padded to a full grid, then dealt round-robin: one sequence of rows
\* per (microbatch, rank).
MicrobatchGrid(rows, b) ==
    LET perMicrobatch == b.rows * b.ranks
        needed == (Len(rows) + perMicrobatch - 1) \div perMicrobatch
        microbatches == IF needed = 0 THEN 1 ELSE needed
        stride == microbatches * b.ranks
        full == rows \o [k \in 1..(microbatches * perMicrobatch - Len(rows)) |-> PackRow(<<>>, b)]
    IN  [at \in (0..(microbatches - 1)) \X (0..(b.ranks - 1)) |->
           LET start == at[1] * b.ranks + at[2]
           IN  [k \in 1..b.rows |-> full[start + (k - 1) * stride + 1]]]

PackedRows(samples, b) ==
    LET assigned == AssignToRows(samples, b)
    IN  [k \in DOMAIN assigned |-> PackRow(assigned[k], b)]

\* num_global_valid_tokens, the normaliser of the loss: the sum of the loss masks
\* of the packed rows (that of a padding row is empty).
ValidTokens(rows, b) ==
    Cardinality({p \in (DOMAIN rows) \X (1..b.seqLen) : rows[p[1]][p[2]].trained})
=============================================================================
