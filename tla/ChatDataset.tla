------------------------------ MODULE ChatDataset ------------------------------
(* ChatDataset of hf_datasets/text_datasets.py: whole conversations are      *)
(* packed greedily into rows of seq_len; one that does not fit the rest of   *)
(* a row waits as the pending sample while the padded row is yielded.        *)
EXTENDS DatasetSource

Pad == <<>>       \* the EOS token that fills a row
Ignored == <<>>   \* IGNORE_INDEX

Fresh == [pc |-> "for", idx |-> 0, at |-> 0, epoch |-> 0,
          inputs |-> <<>>, labels |-> <<>>, positions |-> <<>>,
          pendingInputs |-> <<>>, pendingLabels |-> <<>>]

\* _tokenize_sample: the labels are the tokens that follow, those of the prompt
\* ignored; the first token of the answer is predicted at index prompt_len - 1.
Dropped(sample) == sample.length - 1 > SeqLen

MaskEnd(sample) ==
    LET m == IF sample.prompt > 0 THEN sample.prompt - 1 ELSE 0
    IN  IF m < sample.length - 1 THEN m ELSE sample.length - 1

Labels(i, sample) ==
    [k \in 1 .. sample.length - 1 |->
        IF k <= MaskEnd(sample) THEN Ignored ELSE Tokens(i, sample.length)[k + 1]]

Extended(s, inputs, labels) ==
    LET full == s.inputs \o inputs
    IN  [s EXCEPT !.inputs = full, !.labels = @ \o labels,
                  !.positions = @ \o Range0(Len(inputs)), !.idx = @ + 1,
                  !.pc = IF Len(full) = SeqLen THEN "yield" ELSE "for"]

Padded(s) ==
    LET pad == SeqLen - Len(s.inputs)
    IN  [s EXCEPT !.inputs = @ \o [k \in 1 .. pad |-> Pad],
                  !.labels = @ \o [k \in 1 .. pad |-> Ignored],
                  !.positions = @ \o Range0(pad), !.pc = "yield"]

\* One turn of the for loop: the sample is dropped, makes the row be padded and
\* yielded first, or is added.
ReadSample(i) ==
    LET s == [src[i] EXCEPT !.at = @ + 1]
        sample == NextSample(i)
        inputs == Tokens(i, sample.length - 1)
    IN  /\ src[i].pc = "for" /\ HasSample(i)
        /\ \/ /\ Dropped(sample)
              /\ src' = [src EXCEPT ![i] = [s EXCEPT !.idx = @ + 1]]
           \/ /\ ~Dropped(sample)
              /\ Len(inputs) > SeqLen - Len(s.inputs) /\ s.inputs # <<>>
              /\ src' = [src EXCEPT ![i] =
                     [Padded(s) EXCEPT !.pendingInputs = inputs,
                                       !.pendingLabels = Labels(i, sample)]]
           \/ /\ ~Dropped(sample)
              /\ Len(inputs) <= SeqLen - Len(s.inputs) \/ s.inputs = <<>>
              /\ src' = [src EXCEPT ![i] = Extended(s, inputs, Labels(i, sample))]

Row(i) == [source |-> i, input |-> src[i].inputs, label |-> src[i].labels,
           positions |-> src[i].positions]

\* _flush_buffers; the generator is suspended here.
Yield(i) ==
    /\ src[i].pc = "yield"
    /\ src' = [src EXCEPT ![i] =
           [src[i] EXCEPT !.inputs = <<>>, !.labels = <<>>, !.positions = <<>>,
                          !.pc = IF src[i].pendingInputs # <<>> THEN "held" ELSE "for"]]

\* The pending sample opens the next row, in the generator that held it or at
\* the top of a new one, which only then asks for the data iterator.
AddPending(i) ==
    LET s == Extended([src[i] EXCEPT !.pendingInputs = <<>>, !.pendingLabels = <<>>],
                      src[i].pendingInputs, src[i].pendingLabels)
    IN  /\ src[i].pc \in {"held", "top"}
        /\ src' = [src EXCEPT ![i] =
               [s EXCEPT !.at = IF src[i].pc = "top" THEN ResumePosition(i, s) ELSE @]]

AtEnd(i) == src[i].pc = "for" /\ ~HasSample(i)

\* What is left in the buffer is padded and yielded before the epoch ends.
EndOfData(i) ==
    /\ AtEnd(i)
    /\ \/ src[i].inputs # <<>> /\ src' = [src EXCEPT ![i] = Padded(src[i])]
       \/ /\ src[i].inputs = <<>> /\ config[i].infinite
          /\ src' = [src EXCEPT ![i] = Relooped(src[i])]

StopsIteration(i) == AtEnd(i) /\ src[i].inputs = <<>> /\ ~config[i].infinite

StateDict(i) == [f \in DOMAIN src[i] \ {"pc"} |-> src[i][f]]

Restored(i, saved) ==
    [pc |-> IF saved.pendingInputs # <<>> THEN "top" ELSE "for",
     idx |-> saved.idx, at |-> ResumePosition(i, saved), epoch |-> saved.epoch,
     inputs |-> saved.inputs, labels |-> saved.labels, positions |-> saved.positions,
     pendingInputs |-> saved.pendingInputs, pendingLabels |-> saved.pendingLabels]

HoldsMore(i) == FALSE
=============================================================================
