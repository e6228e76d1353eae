----------------------------- MODULE DatasetSource -----------------------------
(***************************************************************************)
(* What the datasets of hf_datasets/ have in common: the samples a source  *)
(* holds, the order an epoch visits them in, and the position of its       *)
(* iterator.  TextDataset, ChatDataset and MMDataset extend this module    *)
(* with the body of their __iter__, one action for what happens between    *)
(* two points at which a sample is read or a row is yielded.               *)
(*                                                                         *)
(* A token is <<epoch, sample, k>>, the k-th of its document, so that rows *)
(* show where every token came from.                                       *)
(***************************************************************************)
EXTENDS Integers, Sequences, SequencesExt

CONSTANTS
    SeqLen,              \* seq_len
    BatchSize,           \* local_batch_size
    PackingBufferSize    \* packing_buffer_size, 0 without packing

ASSUME DatasetAssumption ==
    /\ SeqLen \in Nat \ {0}
    /\ BatchSize \in Nat \ {0}
    /\ PackingBufferSize \in Nat

VARIABLES
    config,   \* per source: samples, infinite, streaming
    src       \* per source: the dataset object and its generator

NumSamples(i) == Len(config[i].samples)

\* shuffle(seed = 42 + epoch): some fixed order per epoch, the stored one first.
SampleId(i, epoch, at) == 1 + ((at + epoch) % NumSamples(i))

\* What the iterator over _data yields next, and whether it does.
HasSample(i) == src[i].at < NumSamples(i)
NextId(i) == SampleId(i, src[i].epoch, src[i].at)
NextSample(i) == config[i].samples[NextId(i)]

Tokens(i, count) == [k \in 1 .. count |-> <<src[i].epoch, NextId(i), k>>]

\* list(range(count))
Range0(count) == [k \in 1 .. count |-> k - 1]

\* Mutant: a re-looped dataset keeps the count of its samples.
BugRelooped(s) == [s EXCEPT !.at = 0, !.epoch = @ + 1]

\* reloop(): the position goes back to the start of a reshuffled epoch, what is
\* buffered stays.
Relooped(s) == [s EXCEPT !.idx = 0, !.at = 0, !.epoch = @ + 1]

\* _get_data_iter() on a fresh object: a map-style dataset skips the samples it
\* has counted, a streaming one was put back where its own state says.
ResumePosition(i, saved) == IF config[i].streaming THEN saved.at ELSE saved.idx

=============================================================================
