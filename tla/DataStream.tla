------------------------------- MODULE DataStream -------------------------------
(***************************************************************************)
(* The training data of one data-parallel rank: one or several datasets of *)
(* a kind, the InterleavedDataset over them, and the stateful dataloader   *)
(* whose state a checkpoint saves between two batches.  A restart builds   *)
(* everything anew and loads the last state that was saved; what was only  *)
(* in the suspended generators is gone.                                    *)
(*                                                                         *)
(* The datasets, the draws of the random generator and the stopping        *)
(* strategy are chosen at the start; from then on only the saves and the   *)
(* restarts are free.                                                      *)
(***************************************************************************)
EXTENDS DatasetSource, FiniteSets

CONSTANTS
    Configs,       \* what a run may be: kind, strategy, sources (see MCDataStream)
    MaxRows,       \* bound on the rows delivered
    MaxDraws,      \* bound on the draws of the interleaver
    MaxSaves,      \* bound on the checkpoints
    MaxRestarts    \* bound on the restarts

\* A multimodal dataset has no reloop(), which "all_exhausted" asks for.
ASSUME ConfigsAssumption ==
    \A c \in Configs :
        /\ c.kind \in {"text", "chat", "mm"}
        /\ c.strategy \in {"on_first_exhausted", "all_exhausted"}
        /\ c.kind = "mm" => c.strategy = "on_first_exhausted"
        /\ c.sources \in Seq([samples : Seq([length : Nat, prompt : Nat]),
                              infinite : BOOLEAN, streaming : BOOLEAN])

ASSUME BoundsAssumption ==
    /\ MaxRows \in Nat /\ MaxDraws \in Nat /\ MaxSaves \in Nat /\ MaxRestarts \in Nat

VARIABLES
    kind, strategy,   \* of the run
    draws,            \* what rng.choices returns, draw by draw
    rng,              \* the state of the random generator: draws made so far
    exhausted,        \* local to InterleavedDataset.__iter__
    asked,            \* the source whose next() is running, 0 for none
    stopped,          \* StopIteration reached the dataloader
    out,              \* the rows delivered, along the current timeline
    seen,             \* the rows of the timeline that got furthest
    seenEnd,          \* the length at which one has ended, -1 for none
    saved,            \* the state dict of the last checkpoint, if any
    complete,         \* the current timeline was never resumed without what a
                      \* suspended generator knew; only such ones count as seen
    saves, restarts

chosen == <<config, kind, strategy, draws>>
vars == <<chosen, src, rng, exhausted, asked, stopped, out, seen, seenEnd, saved, complete,
          saves, restarts>>

Text == INSTANCE TextDataset
Chat == INSTANCE ChatDataset
MM == INSTANCE MMDataset

Sources == DOMAIN config

FreshOf(k) == CASE k = "text" -> Text!Fresh [] k = "chat" -> Chat!Fresh [] k = "mm" -> MM!Fresh

SourceState(i) ==
    CASE kind = "text" -> Text!StateDict(i)
      [] kind = "chat" -> Chat!StateDict(i)
      [] kind = "mm" -> MM!StateDict(i)

SourceRestored(i, dict) ==
    CASE kind = "text" -> Text!Restored(i, dict)
      [] kind = "chat" -> Chat!Restored(i, dict)
      [] kind = "mm" -> MM!Restored(i, dict)

SourceHoldsMore(i) ==
    CASE kind = "text" -> Text!HoldsMore(i)
      [] kind = "chat" -> Chat!HoldsMore(i)
      [] kind = "mm" -> MM!HoldsMore(i)

Init ==
    /\ \E c \in Configs :
           /\ config = c.sources
           /\ kind = c.kind
           /\ strategy = c.strategy
           /\ draws \in [1 .. MaxDraws -> DOMAIN c.sources]
           /\ src = [i \in DOMAIN c.sources |-> FreshOf(c.kind)]
    /\ rng = 0 /\ exhausted = {}
    /\ asked = 0 /\ stopped = FALSE
    /\ out = <<>> /\ seen = <<>> /\ seenEnd = -1
    /\ saved = <<>> /\ complete = TRUE
    /\ saves = 0 /\ restarts = 0

-----------------------------------------------------------------------------
(* InterleavedDataset.__iter__                                             *)

\* rng.choices, and next() on the source drawn.
Draw ==
    /\ asked = 0 /\ ~stopped
    /\ rng < MaxDraws /\ Len(out) < MaxRows
    /\ rng' = rng + 1
    /\ asked' = draws[rng + 1]
    /\ UNCHANGED <<chosen, src, exhausted, stopped, out, seen, seenEnd, saved, complete,
                   saves, restarts>>

\* The row goes to the caller, which counts how far the stream has got.
Deliver(row) ==
    /\ out' = Append(out, row)
    /\ seen' = IF complete /\ Len(out) = Len(seen) THEN out' ELSE seen
    /\ asked' = 0

\* StopIteration of the source drawn.
Stop ==
    /\ stopped' = TRUE
    /\ seenEnd' = IF complete /\ seenEnd = -1 THEN Len(out) ELSE seenEnd
    /\ UNCHANGED src

SourceStops(i) ==
    /\ asked = i
    /\ asked' = 0
    /\ \/ strategy = "on_first_exhausted" /\ Stop /\ UNCHANGED exhausted
       \/ /\ strategy = "all_exhausted"
          /\ exhausted' = exhausted \cup {i}
          /\ IF exhausted' = Sources
                THEN Stop
                ELSE /\ src' = [src EXCEPT ![i] = Relooped(@)]
                     /\ UNCHANGED <<stopped, seenEnd>>
    /\ UNCHANGED <<chosen, rng, out, seen, saved, complete, saves, restarts>>

Elsewhere == <<chosen, rng, exhausted, stopped, seenEnd, saved, complete, saves, restarts>>
Inside == <<asked, out, seen>>

TextNext(i) ==
    \/ /\ \/ Text!ReadSample(i) \/ Text!EndOfData(i)
       /\ UNCHANGED <<Inside, Elsewhere>>
    \/ Text!Yield(i) /\ Deliver(Text!Row(i)) /\ UNCHANGED Elsewhere
    \/ Text!StopsIteration(i) /\ SourceStops(i)

ChatNext(i) ==
    \/ /\ \/ Chat!ReadSample(i) \/ Chat!AddPending(i) \/ Chat!EndOfData(i)
       /\ UNCHANGED <<Inside, Elsewhere>>
    \/ Chat!Yield(i) /\ Deliver(Chat!Row(i)) /\ UNCHANGED Elsewhere
    \/ Chat!StopsIteration(i) /\ SourceStops(i)

MMNext(i) ==
    \/ /\ \/ MM!ReadSample(i) \/ MM!EndOfData(i) \/ MM!Drain(i) \/ MM!StartOver(i)
       /\ UNCHANGED <<Inside, Elsewhere>>
    \/ MM!Yield(i) /\ Deliver(MM!Row(i)) /\ UNCHANGED Elsewhere
    \/ MM!StopsIteration(i) /\ SourceStops(i)

Produce ==
    \E i \in Sources :
        /\ asked = i
        /\ \/ kind = "text" /\ TextNext(i)
           \/ kind = "chat" /\ ChatNext(i)
           \/ kind = "mm" /\ MMNext(i)

-----------------------------------------------------------------------------
(* ParallelAwareDataloader.state_dict and load_state_dict                  *)

\* InterleavedDataset.state_dict: the random generator and every source.  The
\* model adds the rows consumed by then, and whether something was left out.
StateDicts ==
    [rows |-> out,
     rng |-> rng,
     sources |-> [i \in Sources |-> SourceState(i)],
     whole |-> complete /\ exhausted = {} /\ \A i \in Sources : ~SourceHoldsMore(i)]

\* A checkpoint is taken after a step, between two batches.
Save ==
    /\ saves < MaxSaves
    /\ asked = 0 /\ ~stopped /\ Len(out) % BatchSize = 0
    /\ saved' = StateDicts
    /\ saves' = saves + 1
    /\ UNCHANGED <<chosen, src, rng, exhausted, asked, stopped, out, seen, seenEnd, complete,
                   restarts>>

\* The run is killed anywhere and starts again from the last checkpoint.
Restart ==
    /\ restarts < MaxRestarts
    /\ restarts' = restarts + 1
    /\ asked' = 0 /\ stopped' = FALSE /\ exhausted' = {}
    /\ \/ /\ saved = <<>>
          /\ src' = [i \in Sources |-> FreshOf(kind)]
          /\ rng' = 0 /\ out' = <<>>
          /\ complete' = TRUE
       \/ /\ saved # <<>>
          /\ src' = [i \in Sources |-> SourceRestored(i, saved.sources[i])]
          /\ rng' = saved.rng
          /\ out' = saved.rows
          /\ complete' = saved.whole
    /\ UNCHANGED <<chosen, seen, seenEnd, saved, saves>>

\* The stream has ended, or the bounds of the model have.
Finished ==
    /\ asked = 0
    /\ stopped \/ rng = MaxDraws \/ Len(out) = MaxRows
    /\ UNCHANGED vars

Next == Draw \/ Produce \/ Save \/ Restart \/ Finished

Spec == Init /\ [][Next]_vars

\* The caller goes on asking for rows, and a next() that can go on does.
FairSpec == Spec /\ WF_vars(Draw) /\ WF_vars(Produce)

-----------------------------------------------------------------------------
(* Properties.                                                             *)

AgreesWithSeen ==
    /\ \A k \in DOMAIN out : k <= Len(seen) => out[k] = seen[k]
    /\ seenEnd # -1 => Len(out) <= seenEnd /\ (stopped => Len(out) = seenEnd)

\* Wherever the run is killed and from whichever checkpoint it goes on, the rows
\* it delivers are those the uninterrupted run delivers, up to the same end, as
\* long as the checkpoint did not fall where a generator held something that is
\* in no state dict.
ResumeExact == complete => AgreesWithSeen

\* Documents are numbered through the epochs.
Number(i, token) ==
    token[1] * NumSamples(i) + ((token[2] - 1 + NumSamples(i) * token[1] - token[1]) % NumSamples(i))

Length(i, token) == config[i].samples[token[2]].length

SameDoc(t, u) == t[1] = u[1] /\ t[2] = u[2]

\* The label of a text row is its input one token on, and every token has the
\* position it has in its document, or in the part of it that is in the row.
TextRow(row) ==
    \A k \in 1 .. SeqLen :
        LET t == row.input[k]
            cut == IF SameDoc(t, row.input[1]) THEN row.input[1][3] - 1 ELSE 0
        IN  /\ row.positions[k] = t[3] - 1 - cut
            /\ row.positions[k] < SeqLen
            /\ k < SeqLen => row.label[k] = row.input[k + 1]
            /\ IF t[3] < Length(row.source, t)
                  THEN row.label[k] = [t EXCEPT ![3] = @ + 1]
                  ELSE /\ row.label[k][3] = 1
                       /\ Number(row.source, row.label[k]) = Number(row.source, t) + 1

\* A chat row is whole conversations and then padding; its loss is on the
\* answers, all of them and nothing else.
ChatRow(row) ==
    \A k \in 1 .. SeqLen :
        LET t == row.input[k]
            sample == config[row.source].samples[t[2]]
            pad(j) == row.input[j] = Chat!Pad
        IN  IF pad(k)
            THEN /\ row.label[k] = Chat!Ignored
                 /\ \A j \in k .. SeqLen : pad(j)
            ELSE /\ row.positions[k] = t[3] - 1
                 /\ row.label[k] =
                        (IF t[3] < sample.prompt THEN Chat!Ignored ELSE [t EXCEPT ![3] = @ + 1])
                 /\ t[3] # 1 => k > 1 /\ row.input[k - 1] = [t EXCEPT ![3] = @ - 1]
                 /\ t[3] # sample.length - 1 =>
                        k < SeqLen /\ row.input[k + 1] = [t EXCEPT ![3] = @ + 1]

\* A multimodal row is whole samples that fit it together.
MMRow(row) ==
    /\ Len(row.input) <= SeqLen
    /\ \A k \in DOMAIN row.input :
           LET t == row.input[k]
           IN  /\ row.positions[k] = t[3] - 1
               /\ t[3] # 1 => k > 1 /\ row.input[k - 1] = [t EXCEPT ![3] = @ - 1]
               /\ t[3] # Length(row.source, t) =>
                      k < Len(row.input) /\ row.input[k + 1] = [t EXCEPT ![3] = @ + 1]

\* The last row against the layout its kind promises.
RowWellFormed ==
    out # <<>> =>
        CASE kind = "text" -> TextRow(Last(out))
          [] kind = "chat" -> ChatRow(Last(out))
          [] kind = "mm" -> MMRow(Last(out))

\* The rows of a source, and the documents that begin in them.
RowsOf(i) == SelectSeq(out, LAMBDA row : row.source = i)
FirstTokens(i) ==
    SelectSeq(FlattenSeq([k \in DOMAIN RowsOf(i) |-> RowsOf(i)[k].input]),
              LAMBDA t : t # Chat!Pad /\ t[3] = 1)

\* Each text row goes on where the last one of its source ended.
TextInOrder(i) ==
    \A k \in 1 .. Len(RowsOf(i)) - 1 :
        LET t == Last(RowsOf(i)[k].label)
            u == RowsOf(i)[k + 1].input[1]
        IN  \/ u = [t EXCEPT ![3] = @ + 1]
            \/ /\ t[3] = Length(i, t) /\ u[3] = 1
               /\ Number(i, u) = Number(i, t) + 1

\* Between two conversations delivered one after the other only ones that are
\* too long are left out.
ChatInOrder(i) ==
    LET docs == [k \in DOMAIN FirstTokens(i) |-> Number(i, FirstTokens(i)[k])]
        since(k) == IF k = 1 THEN 0 ELSE docs[k - 1] + 1
        sample(n) == config[i].samples[SampleId(i, n \div NumSamples(i), n % NumSamples(i))]
    IN  \A k \in DOMAIN docs :
            /\ since(k) <= docs[k]
            /\ \A n \in since(k) .. docs[k] - 1 : Chat!Dropped(sample(n))

Usable(i) == {id \in 1 .. NumSamples(i) : config[i].samples[id].length \in 1 .. SeqLen}
Count(i, id) == Cardinality({k \in DOMAIN FirstTokens(i) : FirstTokens(i)[k][2] = id})

\* Packing reorders the samples of a round but neither drops nor repeats one.
MMFair(i) ==
    \A id, other \in Usable(i) : Count(i, id) <= Count(i, other) + 1

\* What a source has delivered once it has been exhausted.
FirstPass(i) ==
    CASE kind = "text" ->
             Len(RowsOf(i)) * (SeqLen + 1) + SeqLen
                 >= FoldLeft(LAMBDA n, sample : n + sample.length, 0, config[i].samples)
      [] kind = "chat" ->
             \A id \in 1 .. NumSamples(i) :
                 Chat!Dropped(config[i].samples[id]) \/ Count(i, id) > 0
      [] kind = "mm" -> \A id \in Usable(i) : Count(i, id) = 1

\* No token is delivered twice or skipped, whatever is left over when a row is
\* cut, a sample does not fit or an epoch ends, and the rows are what the
\* attention masks, the rotary embeddings and the loss take them for, after a
\* restart as before it; when the stream stops, one source has been delivered
\* in full, with "all_exhausted" every one.
StreamFaithful ==
    /\ RowWellFormed
    /\ complete =>
         /\ \A i \in Sources :
                CASE kind = "text" -> TextInOrder(i)
                  [] kind = "chat" -> ChatInOrder(i)
                  [] kind = "mm" -> MMFair(i)
         /\ stopped =>
                IF strategy = "all_exhausted"
                THEN \A i \in Sources : FirstPass(i)
                ELSE \E i \in Sources : FirstPass(i)

\* A next() returns: while a source has a usable sample no dataset spins over
\* samples it drops or epochs it starts.
NextReturns == asked # 0 ~> asked = 0
=============================================================================
