------------------------------- MODULE MMDataset -------------------------------
(* HuggingFaceMultiModalDataset of hf_datasets/multimodal/mm_datasets.py and *)
(* the MMSamplePacker it uses: processed samples wait in a buffer until a    *)
(* scan of it fills a row, and complete rows are handed out a batch at a     *)
(* time.  A sample of length 0 is one that could not be processed.           *)
EXTENDS DatasetSource

Fresh == [pc |-> "for", idx |-> 0, at |-> 0, epoch |-> 0,
          buffer |-> <<>>, packed |-> <<>>, batch |-> <<>>]

EnablePacking == PackingBufferSize > 0

\* One scan of the buffer: every sample that still fits the row is picked.  A
\* row of the packer is a sequence of documents until they are merged.
Scan(buffer) ==
    LET scan[n \in 0 .. Len(buffer)] ==
            IF n = 0 THEN [picked |-> <<>>, length |-> 0, rest |-> <<>>]
            ELSE LET s == scan[n - 1]
                     doc == buffer[n]
                 IN  IF s.length + Len(doc) <= SeqLen
                     THEN [s EXCEPT !.picked = Append(@, doc), !.length = @ + Len(doc)]
                     ELSE [s EXCEPT !.rest = Append(@, doc)]
    IN  scan[Len(buffer)]

\* _pack_buffered_samples: a row that is not full ends the packing, unless the
\* buffer is being flushed.
Packed(s, flush) ==
    LET pack[n \in 0 .. Len(s.buffer)] ==
            IF n = 0 THEN s
            ELSE LET p == pack[n - 1]
                     row == Scan(p.buffer)
                 IN  IF p.buffer # <<>> /\ (flush \/ row.length = SeqLen)
                     THEN [p EXCEPT !.buffer = row.rest, !.packed = Append(@, row.picked)]
                     ELSE p
    IN  pack[Len(s.buffer)]

\* add_sample: packing starts when the buffer is full.
Added(s, doc) ==
    LET grown == [s EXCEPT !.buffer = Append(@, doc)]
    IN  IF Len(grown.buffer) >= PackingBufferSize THEN Packed(grown, FALSE) ELSE grown

HasBatchReady(s) == Len(s.packed) >= BatchSize

\* get_next_batch: the rows leave the packer for the list that is yielded from.
BatchTaken(s) ==
    [s EXCEPT !.batch = SubSeq(s.packed, 1, BatchSize),
              !.packed = SubSeq(@, BatchSize + 1, Len(@))]

ReadSample(i) ==
    LET s == [src[i] EXCEPT !.at = @ + 1, !.idx = @ + 1]
        length == NextSample(i).length
        doc == Tokens(i, length)
        grown == Added(s, doc)
    IN  /\ src[i].pc = "for" /\ src[i].batch = <<>> /\ HasSample(i)
        /\ src' = [src EXCEPT ![i] =
               IF length = 0 \/ length > SeqLen THEN s
               ELSE IF ~EnablePacking THEN [s EXCEPT !.batch = << <<doc>> >>]
               ELSE IF HasBatchReady(grown) THEN BatchTaken(grown)
               ELSE grown]

\* A row is the documents of Head(batch), one after the other.
Row(i) ==
    LET docs == Head(src[i].batch)
    IN  [source |-> i, input |-> FlattenSeq(docs), label |-> FlattenSeq(docs),
         positions |-> FlattenSeq([d \in DOMAIN docs |-> Range0(Len(docs[d]))])]

Yield(i) ==
    /\ src[i].batch # <<>>
    /\ src' = [src EXCEPT ![i].batch = Tail(@)]

\* The samples are exhausted: the packer is flushed, ...
EndOfData(i) ==
    /\ src[i].pc = "for" /\ src[i].batch = <<>> /\ ~HasSample(i)
    /\ src' = [src EXCEPT ![i] =
           [IF EnablePacking THEN Packed(src[i], TRUE) ELSE src[i] EXCEPT !.pc = "flush"]]

\* ... its full batches are yielded, then the rest row by row.
Drain(i) ==
    /\ src[i].pc = "flush" /\ src[i].batch = <<>> /\ src[i].packed # <<>>
    /\ src' = [src EXCEPT ![i] =
           IF HasBatchReady(src[i])
           THEN BatchTaken(src[i])
           ELSE [src[i] EXCEPT !.batch = <<Head(src[i].packed)>>, !.packed = Tail(@)]]

Drained(i) == src[i].pc = "flush" /\ src[i].batch = <<>> /\ src[i].packed = <<>>

\* Mutant: the count of the samples is not reset.
BugStartOver(i) ==
    /\ Drained(i) /\ config[i].infinite
    /\ src' = [src EXCEPT ![i].pc = "for"]

\* There is no epoch counter: the samples come back in the same order.
StartOver(i) ==
    /\ Drained(i) /\ config[i].infinite
    /\ src' = [src EXCEPT ![i] = [src[i] EXCEPT !.idx = 0, !.at = 0, !.pc = "for"]]

StopsIteration(i) == Drained(i) /\ ~config[i].infinite

\* The rows of the batch being yielded are in no field of the state.
StateDict(i) == [idx |-> src[i].idx, at |-> src[i].at,
                 buffer |-> src[i].buffer, packed |-> src[i].packed]

Restored(i, saved) ==
    [pc |-> "for", idx |-> saved.idx, at |-> ResumePosition(i, saved), epoch |-> 0,
     buffer |-> saved.buffer, packed |-> saved.packed, batch |-> <<>>]

HoldsMore(i) == src[i].batch # <<>>
=============================================================================
