------------------------------ MODULE TextDataset ------------------------------
(* HuggingFaceTextDataset of hf_datasets/text_datasets.py: documents run     *)
(* together in a buffer and are cut into rows of seq_len + 1 tokens.         *)
EXTENDS DatasetSource

RowTokens == SeqLen + 1

Fresh == [pc |-> "for", idx |-> 0, at |-> 0, epoch |-> 0, inputs |-> <<>>, positions |-> <<>>]

Loop(buffer) == IF Len(buffer) >= RowTokens THEN "chunk" ELSE "for"

ReadSample(i) ==
    LET s == src[i]
        inputs == s.inputs \o Tokens(i, NextSample(i).length)
    IN  /\ s.pc = "for" /\ HasSample(i)
        /\ src' = [src EXCEPT ![i] =
               [s EXCEPT !.at = @ + 1,
                         !.idx = @ + 1,
                         !.inputs = inputs,
                         !.positions = @ \o Range0(NextSample(i).length),
                         !.pc = Loop(inputs)]]

\* Mutant: a row that starts inside a document keeps the document's positions.
BugNormalizePositions(positions) == positions

\* A row that starts inside a document counts its first segment from zero.
NormalizePositions(positions) ==
    LET offset == positions[1]
        reset == {k \in DOMAIN positions : positions[k] = 0}
    IN  [k \in DOMAIN positions |->
            IF \E z \in reset : z <= k THEN positions[k] ELSE positions[k] - offset]

\* The input is all but the last token, the label all but the first.
Row(i) ==
    LET x == SubSeq(src[i].inputs, 1, RowTokens)
        pos == NormalizePositions(SubSeq(src[i].positions, 1, RowTokens))
    IN  [source |-> i, input |-> Front(x), label |-> Tail(x), positions |-> Front(pos)]

\* Mutant: the last token of a row stays in the buffer.
BugYield(i) ==
    LET s == src[i]
        rest == SubSeq(s.inputs, SeqLen + 1, Len(s.inputs))
    IN  /\ s.pc = "chunk"
        /\ src' = [src EXCEPT ![i] =
               [s EXCEPT !.inputs = rest,
                         !.positions = SubSeq(@, SeqLen + 1, Len(@)),
                         !.pc = Loop(rest)]]

Yield(i) ==
    LET s == src[i]
        rest == SubSeq(s.inputs, RowTokens + 1, Len(s.inputs))
    IN  /\ s.pc = "chunk"
        /\ src' = [src EXCEPT ![i] =
               [s EXCEPT !.inputs = rest,
                         !.positions = SubSeq(@, RowTokens + 1, Len(@)),
                         !.pc = Loop(rest)]]

AtEnd(i) == src[i].pc = "for" /\ ~HasSample(i)

\* The epoch is over: an infinite dataset goes on with the next one.
EndOfData(i) ==
    /\ AtEnd(i) /\ config[i].infinite
    /\ src' = [src EXCEPT ![i] = Relooped(src[i])]

StopsIteration(i) == AtEnd(i) /\ ~config[i].infinite

StateDict(i) == [idx |-> src[i].idx, at |-> src[i].at, epoch |-> src[i].epoch,
                 inputs |-> src[i].inputs, positions |-> src[i].positions]

\* load_state_dict, and the first steps of a new __iter__, which reads a sample
\* before it looks at what is buffered.
Restored(i, saved) ==
    [pc |-> "for", idx |-> saved.idx, at |-> ResumePosition(i, saved), epoch |-> saved.epoch,
     inputs |-> saved.inputs, positions |-> saved.positions]

\* What only the suspended generator knew, that it was in its inner loop,
\* matters when no sample follows whose reading would bring it back there.
HoldsMore(i) == src[i].pc = "chunk" /\ ~HasSample(i) /\ ~config[i].infinite
=============================================================================
