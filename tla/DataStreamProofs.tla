-------------------------- MODULE DataStreamProofs --------------------------
(***************************************************************************)
(* Resuming the data stream, for every set of configurations, of packing   *)
(* buffer and of batch, and any number of checkpoints and restarts.        *)
(*                                                                         *)
(* Timeline is the run of the interleaver that is never interrupted, a     *)
(* function of the configuration and the draws.  IInv says that a run that *)
(* lost nothing is in one of its states (OnTimeline), that what the last   *)
(* checkpoint brings back is too (SavedOnTimeline), and that the rows seen *)
(* so far and the end seen are those of Timeline.  A source need not be    *)
(* literally where the uninterrupted one is: a restored text source reads  *)
(* a sample before it cuts a row it already holds (TextMatch), a restored  *)
(* chat source has yet to add its pending sample (ChatMatch), a restored   *)
(* multimodal one to find out that it was flushing (MMMatch).              *)
(***************************************************************************)
EXTENDS DataStream, SequenceTheorems, WellFoundedInduction, TLAPS

-----------------------------------------------------------------------------
(* The uninterrupted run, as a function of what was chosen at the start.   *)
(* A source c is a member of config, a text source of the run is the       *)
(* number of tokens it has delivered and of epochs it has ended.           *)

Num(c) == Len(c.samples)
IdAt(c, w) == 1 + ((w.at + w.epoch) % Num(c))
SampleAt(c, w) == c.samples[IdAt(c, w)]
TokensAt(c, w, count) == [k \in 1 .. count |-> <<w.epoch, IdAt(c, w), k>>]

\* The tokens of a text source, document by document through the epochs.
ReadInit == [at |-> 0, epoch |-> 0, inputs |-> <<>>, positions |-> <<>>]
ReadStep(c, w) ==
    IF w.at < Num(c)
    THEN [at |-> w.at + 1, epoch |-> w.epoch,
          inputs |-> w.inputs \o TokensAt(c, w, SampleAt(c, w).length),
          positions |-> w.positions \o Range0(SampleAt(c, w).length)]
    ELSE [at |-> 0, epoch |-> w.epoch + 1, inputs |-> w.inputs, positions |-> w.positions]

-----------------------------------------------------------------------------
(* One step of a source, and what it is: a step inside next(), a row or    *)
(* StopIteration, after which the source is re-looped.                     *)

\* Text: u counts the tokens delivered and the epochs ended, reads are the
\* states ReadStep goes through.
HasRow(c, reads, u) ==
    \/ c.infinite
    \/ \E m \in Nat : /\ reads[m].epoch <= u.ends
                     /\ u.taken + Text!RowTokens <= Len(reads[m].inputs)

TextFresh == [taken |-> 0, ends |-> 0]
TextOutcome(c, reads, u) == IF HasRow(c, reads, u) THEN "row" ELSE "stop"
TextAfter(c, reads, u) ==
    IF HasRow(c, reads, u)
    THEN [taken |-> u.taken + Text!RowTokens, ends |-> u.ends]
    ELSE [taken |-> u.taken, ends |-> u.ends + 1]

Slice(s, from) == [k \in 1 .. Text!RowTokens |-> s[from + k]]
TextRowOf(i, reads, u) ==
    LET m == CHOOSE m \in Nat : u.taken + Text!RowTokens <= Len(reads[m].inputs)
        x == Slice(reads[m].inputs, u.taken)
        pos == Text!NormalizePositions(Slice(reads[m].positions, u.taken))
    IN  [source |-> i, input |-> Text!Front(x), label |-> Tail(x), positions |-> Text!Front(pos)]

\* Chat.
ChatLabels(c, s, sample) ==
    [k \in 1 .. sample.length - 1 |->
        IF k <= Chat!MaskEnd(sample)
        THEN Chat!Ignored ELSE TokensAt(c, s, sample.length)[k + 1]]

ChatRead(c, s) ==
    LET sample == SampleAt(c, s)
        inputs == TokensAt(c, s, sample.length - 1)
        read == [s EXCEPT !.at = @ + 1]
    IN  IF Chat!Dropped(sample)
        THEN [read EXCEPT !.idx = @ + 1]
        ELSE IF Len(inputs) > SeqLen - Len(s.inputs) /\ s.inputs # <<>>
        THEN [Chat!Padded(read) EXCEPT !.pendingInputs = inputs,
                                       !.pendingLabels = ChatLabels(c, s, sample)]
        ELSE Chat!Extended(read, inputs, ChatLabels(c, s, sample))

ChatAfter(c, s) ==
    IF s.pc = "yield"
    THEN [s EXCEPT !.inputs = <<>>, !.labels = <<>>, !.positions = <<>>,
                   !.pc = IF s.pendingInputs # <<>> THEN "held" ELSE "for"]
    ELSE IF s.pc = "held"
    THEN Chat!Extended([s EXCEPT !.pendingInputs = <<>>, !.pendingLabels = <<>>],
                       s.pendingInputs, s.pendingLabels)
    ELSE IF s.at < Num(c) THEN ChatRead(c, s)
    ELSE IF s.inputs # <<>> THEN Chat!Padded(s)
    ELSE Relooped(s)

ChatOutcome(c, s) ==
    IF s.pc = "yield" THEN "row"
    ELSE IF s.pc = "for" /\ ~(s.at < Num(c)) /\ s.inputs = <<>> /\ ~c.infinite THEN "stop"
    ELSE "go"

ChatRowOf(i, s) ==
    [source |-> i, input |-> s.inputs, label |-> s.labels, positions |-> s.positions]

\* Multimodal.
MMRead(c, s) ==
    LET read == [s EXCEPT !.at = @ + 1, !.idx = @ + 1]
        length == SampleAt(c, s).length
        doc == TokensAt(c, s, length)
        grown == MM!Added(read, doc)
    IN  IF length = 0 \/ length > SeqLen THEN read
        ELSE IF ~MM!EnablePacking THEN [read EXCEPT !.batch = << <<doc>> >>]
        ELSE IF MM!HasBatchReady(grown) THEN MM!BatchTaken(grown)
        ELSE grown

MMAfter(c, s) ==
    IF s.batch # <<>> THEN [s EXCEPT !.batch = Tail(@)]
    ELSE IF s.pc = "for" /\ s.at < Num(c) THEN MMRead(c, s)
    ELSE IF s.pc = "for"
    THEN [IF MM!EnablePacking THEN MM!Packed(s, TRUE) ELSE s EXCEPT !.pc = "flush"]
    ELSE IF s.packed # <<>>
    THEN IF MM!HasBatchReady(s)
         THEN MM!BatchTaken(s)
         ELSE [s EXCEPT !.batch = <<Head(s.packed)>>, !.packed = Tail(@)]
    ELSE [s EXCEPT !.idx = 0, !.at = 0, !.pc = "for"]

MMOutcome(c, s) ==
    IF s.batch # <<>> THEN "row"
    ELSE IF s.pc = "flush" /\ s.packed = <<>> /\ ~c.infinite THEN "stop"
    ELSE "go"

MMRowOf(i, s) ==
    LET docs == Head(s.batch)
    IN  [source |-> i, input |-> MM!FlattenSeq(docs), label |-> MM!FlattenSeq(docs),
         positions |-> MM!FlattenSeq([d \in DOMAIN docs |-> MM!Range0(Len(docs[d]))])]

\* Any kind: p is the run, u the state of its source i.
Outcome(p, i, u) ==
    IF p.kind = "text" THEN TextOutcome(p.config[i], p.reads[i], u)
    ELSE IF p.kind = "chat" THEN ChatOutcome(p.config[i], u)
    ELSE MMOutcome(p.config[i], u)

After(p, i, u) ==
    IF p.kind = "text" THEN TextAfter(p.config[i], p.reads[i], u)
    ELSE IF p.kind = "chat" THEN ChatAfter(p.config[i], u)
    ELSE MMAfter(p.config[i], u)

RowOf(p, i, u) ==
    IF p.kind = "text" THEN TextRowOf(i, p.reads[i], u)
    ELSE IF p.kind = "chat" THEN ChatRowOf(i, u)
    ELSE MMRowOf(i, u)

-----------------------------------------------------------------------------
(* The interleaver that is never interrupted.  The rows delivered are the  *)
(* first count members of the function rows.                               *)

Core(srcs, rngs, ended, busy, stops, count, rows) ==
    [src |-> srcs, rng |-> rngs, exhausted |-> ended, asked |-> busy, stopped |-> stops,
     count |-> count, rows |-> rows]

Timeline0(p) ==
    Core([i \in DOMAIN p.config |-> IF p.kind = "text" THEN TextFresh
                                    ELSE IF p.kind = "chat" THEN Chat!Fresh ELSE MM!Fresh],
         0, {}, 0, FALSE, 0, <<>>)

Longer(t, row) == [k \in 1 .. t.count + 1 |-> IF k <= t.count THEN t.rows[k] ELSE row]

TimelineStep(p, t) ==
    LET i == t.asked
        u == t.src[i]
        srcs == [t.src EXCEPT ![i] = After(p, i, u)]
    IN  IF t.stopped \/ (t.asked = 0 /\ ~(t.rng < MaxDraws))
        THEN t
        ELSE IF t.asked = 0
        THEN Core(t.src, t.rng + 1, t.exhausted, p.draws[t.rng + 1], FALSE, t.count, t.rows)
        ELSE IF Outcome(p, i, u) = "go"
        THEN Core(srcs, t.rng, t.exhausted, i, FALSE, t.count, t.rows)
        ELSE IF Outcome(p, i, u) = "row"
        THEN Core(srcs, t.rng, t.exhausted, 0, FALSE,
                  t.count + 1, Longer(t, RowOf(p, i, u)))
        ELSE IF p.strategy = "on_first_exhausted"
        THEN Core(t.src, t.rng, t.exhausted, 0, TRUE, t.count, t.rows)
        ELSE IF t.exhausted \cup {i} = DOMAIN p.config
        THEN Core(t.src, t.rng, t.exhausted \cup {i}, 0, TRUE, t.count, t.rows)
        ELSE Core(srcs, t.rng, t.exhausted \cup {i}, 0, FALSE, t.count, t.rows)

\* The loops of the packer: a scan of the buffer, document by document, and one
\* round of packing.
ScanInit == [picked |-> <<>>, length |-> 0, rest |-> <<>>]
ScanStep(s, doc) ==
    IF s.length + Len(doc) <= SeqLen
    THEN [s EXCEPT !.picked = Append(@, doc), !.length = @ + Len(doc)]
    ELSE [s EXCEPT !.rest = Append(@, doc)]

PackStep(s, flush) ==
    LET row == MM!Scan(s.buffer)
    IN  IF s.buffer # <<>> /\ (flush \/ row.length = SeqLen)
        THEN [s EXCEPT !.buffer = row.rest, !.packed = Append(@, row.picked)]
        ELSE s

\* A machine p is the reading of a text source, a loop of the packer or a run of
\* the interleaver.
Start(p) ==
    IF p.what = "read" THEN ReadInit
    ELSE IF p.what = "scan" THEN [at |-> 0, value |-> ScanInit]
    ELSE IF p.what = "pack" THEN p.source
    ELSE Timeline0(p)
Step(p, x) ==
    IF p.what = "read" THEN ReadStep(p.source, x)
    ELSE IF p.what = "scan"
    THEN [at |-> x.at + 1, value |-> ScanStep(x.value, p.source[x.at + 1])]
    ELSE IF p.what = "pack" THEN PackStep(x, p.flush)
    ELSE TimelineStep(p, x)

Runs(p, h) == h[0] = Start(p) /\ \A n \in Nat : h[n + 1] = Step(p, h[n])
RunOf(p) == CHOOSE h : Runs(p, h)

Reads(c) == RunOf([what |-> "read", source |-> c])

\* The run of this configuration, and what it goes through.
Plan == [what |-> "run", config |-> config, kind |-> kind, strategy |-> strategy,
         draws |-> draws, reads |-> [i \in Sources |-> Reads(config[i])]]

Timeline == RunOf(Plan)

-----------------------------------------------------------------------------
(* Induction over a set, and the run of a deterministic machine.           *)

\* A set of numbers that has 0 and every successor has every number.
LEMMA NatInductionSet ==
    ASSUME NEW T, 0 \in T, \A n \in Nat : n \in T => n + 1 \in T
    PROVE  Nat \subseteq T
<1> DEFINE S == {n \in Nat : n \notin T}
<1> SUFFICES ASSUME S # {} PROVE FALSE
  OBVIOUS
<1>1. PICK m \in S : \A t \in S : <<t, m>> \notin OpToRel(<, Nat)
  BY WFMin, NatLessThanWellFounded, Zenon
<1>2. m \in Nat /\ m # 0 /\ m \notin T
  BY <1>1
<1>3. m - 1 \in Nat /\ (m - 1) + 1 = m
  BY <1>2
<1>4. m - 1 \in S
  BY <1>2, <1>3
<1>5. <<m - 1, m>> \in Nat \X Nat /\ <<m - 1, m>>[1] = m - 1 /\ <<m - 1, m>>[2] = m
  BY <1>2, <1>3
<1>6. <<m - 1, m>> \notin OpToRel(<, Nat)
  BY <1>1, <1>4
<1> QED
  BY <1>2, <1>5, <1>6, SMT DEF OpToRel

\* A deterministic machine runs for ever.
LEMMA RunExists ==
    ASSUME NEW p
    PROVE  Runs(p, RunOf(p))
<1> DEFINE Upto(n, g) == g[0] = Start(p) /\ \A k \in 0 .. n - 1 : g[k + 1] = Step(p, g[k])
<1>1. ASSUME NEW n \in Nat
      PROVE  \E g : Upto(n, g)
  <2> DEFINE T == {m \in Nat : \E g : Upto(m, g)}
  <2>1. 0 \in T
    <3>1. Upto(0, [k \in {0} |-> Start(p)])
      OBVIOUS
    <3> QED
      BY <3>1
  <2>2. ASSUME NEW m \in Nat, m \in T
        PROVE  m + 1 \in T
    <3>1. PICK g : Upto(m, g)
      BY <2>2
    <3> DEFINE longer == [k \in 0 .. m + 1 |-> IF k <= m THEN g[k] ELSE Step(p, g[m])]
    <3>2. \A k \in 0 .. m : longer[k] = g[k]
      OBVIOUS
    <3>3. longer[m + 1] = Step(p, g[m])
      OBVIOUS
    <3> HIDE DEF longer
    <3>4. longer[0] = Start(p)
      BY <3>1, <3>2
    <3>5. ASSUME NEW k \in 0 .. (m + 1) - 1
          PROVE  longer[k + 1] = Step(p, longer[k])
      <4>1. longer[k] = g[k]
        BY <3>2
      <4>2. CASE k = m
        BY <3>3, <4>1, <4>2
      <4>3. CASE k < m
        <5>1. k \in 0 .. m - 1 /\ k + 1 \in 0 .. m
          BY <4>3
        <5> QED
          BY <3>1, <3>2, <4>1, <5>1
      <4> QED
        BY <4>2, <4>3
    <3>6. Upto(m + 1, longer)
      BY <3>4, <3>5
    <3> QED
      BY <3>6
  <2> HIDE DEF T
  <2>3. Nat \subseteq T
    BY <2>1, <2>2, NatInductionSet
  <2> QED
    BY <2>3 DEF T
<1>2. ASSUME NEW n \in Nat, NEW g, NEW f, Upto(n, g), Upto(n + 1, f)
      PROVE  f[n] = g[n]
  <2> DEFINE T == {k \in Nat : k <= n => f[k] = g[k]}
  <2>1. 0 \in T
    BY <1>2
  <2>2. ASSUME NEW k \in Nat, k \in T
        PROVE  k + 1 \in T
    <3> SUFFICES ASSUME k + 1 <= n PROVE f[k + 1] = g[k + 1]
      OBVIOUS
    <3>1. k \in 0 .. n - 1 /\ k \in 0 .. (n + 1) - 1
      OBVIOUS
    <3> QED
      BY <3>1, <2>2, <1>2
  <2> HIDE DEF T
  <2>3. Nat \subseteq T
    BY <2>1, <2>2, NatInductionSet
  <2> QED
    BY <2>3 DEF T
<1> DEFINE part(n) == CHOOSE g : Upto(n, g)
           whole == [n \in Nat |-> part(n)[n]]
<1>3. \A n \in Nat : Upto(n, part(n))
  BY <1>1
<1> HIDE DEF part
<1>4. whole[0] = Start(p)
  BY <1>3
<1>5. ASSUME NEW n \in Nat
      PROVE  whole[n + 1] = Step(p, whole[n])
  <2>1. whole[n + 1] = part(n + 1)[n + 1] /\ whole[n] = part(n)[n]
    OBVIOUS
  <2>2. part(n + 1)[n] = part(n)[n]
    BY <1>2, <1>3
  <2>3. n \in 0 .. (n + 1) - 1
    OBVIOUS
  <2>4. part(n + 1)[n + 1] = Step(p, part(n + 1)[n])
    BY <1>3, <2>3
  <2> QED
    BY <2>1, <2>2, <2>4
<1> HIDE DEF whole
<1>6. Runs(p, whole)
  BY <1>4, <1>5 DEF Runs
<1> QED
  BY <1>6 DEF RunOf

-----------------------------------------------------------------------------
(* The reading of a text source.                                           *)

SourceType == [samples : Seq([length : Nat, prompt : Nat]),
               infinite : BOOLEAN, streaming : BOOLEAN]

Token == Int \X Int \X Int

\* A concatenation, element by element.
LEMMA ConcatKeeps ==
    ASSUME NEW S, NEW s \in Seq(S), NEW t \in Seq(S)
    PROVE  /\ s \o t \in Seq(S)
           /\ Len(s \o t) = Len(s) + Len(t)
           /\ \A k \in 1 .. Len(s) : (s \o t)[k] = s[k]
           /\ \A k \in 1 .. Len(t) : (s \o t)[Len(s) + k] = t[k]
<1>1. Len(s) \in Nat /\ Len(t) \in Nat
  BY LenProperties
<1> QED
  BY <1>1, ConcatProperties

\* A sample that is there has a number and lengths.
LEMMA SampleTyped ==
    ASSUME NEW c \in SourceType, NEW w, w.at \in Nat, w.epoch \in Nat, w.at < Num(c)
    PROVE  IdAt(c, w) \in Int /\ SampleAt(c, w) \in [length : Nat, prompt : Nat]
<1>1. c.samples \in Seq([length : Nat, prompt : Nat]) /\ Num(c) \in Nat
  BY DEF SourceType, Num
<1>2. Num(c) > 0 /\ w.at + w.epoch \in Nat
  BY <1>1
<1>3. (w.at + w.epoch) % Num(c) \in 0 .. Num(c) - 1
  BY <1>1, <1>2
<1>4. IdAt(c, w) \in 1 .. Num(c)
  BY <1>1, <1>3 DEF IdAt
<1>5. c.samples[IdAt(c, w)] \in [length : Nat, prompt : Nat]
  <2> DEFINE S == [length : Nat, prompt : Nat]
             s == c.samples
             n == IdAt(c, w)
  <2>1. s \in Seq(S) /\ n \in 1 .. Len(s)
    BY <1>1, <1>4 DEF Num
  <2> HIDE DEF S, s, n
  <2>2. s[n] \in S
    BY <2>1, ElementOfSeq
  <2> QED
    BY <2>2 DEF S, s, n
<1> QED
  BY <1>1, <1>4, <1>5 DEF SampleAt

\* The tokens of a sample, and how many they are.
LEMMA TokensTyped ==
    ASSUME NEW c \in SourceType, NEW w, w.at \in Nat, w.epoch \in Nat, w.at < Num(c),
           NEW count \in Int
    PROVE  /\ TokensAt(c, w, count) \in Seq(Token)
           /\ Len(TokensAt(c, w, count)) = IF count > 0 THEN count ELSE 0
<1> DEFINE n == IF count > 0 THEN count ELSE 0
<1>1. n \in Nat /\ 1 .. count = 1 .. n
  OBVIOUS
<1>2. \A k \in 1 .. n : <<w.epoch, IdAt(c, w), k>> \in Token
  BY SampleTyped DEF Token
<1> HIDE DEF n
<1>3. [k \in 1 .. n |-> <<w.epoch, IdAt(c, w), k>>] \in Seq(Token)
  BY <1>1, <1>2
<1>4. Len([k \in 1 .. n |-> <<w.epoch, IdAt(c, w), k>>]) = n
  BY <1>1, <1>3
<1> QED
  BY <1>1, <1>3, <1>4 DEF TokensAt, n

LEMMA RangeTyped ==
    ASSUME NEW count \in Nat
    PROVE  Range0(count) \in Seq(Int) /\ Len(Range0(count)) = count
BY DEF Range0

ReadType == [at : Nat, epoch : Nat, inputs : Seq(Token), positions : Seq(Int)]

\* A read adds at the end, and never goes back an epoch.
LEMMA ReadTyped ==
    ASSUME NEW c \in SourceType, NEW w \in ReadType, Len(w.inputs) = Len(w.positions)
    PROVE  /\ ReadStep(c, w) \in ReadType
           /\ Len(ReadStep(c, w).inputs) = Len(ReadStep(c, w).positions)
           /\ Len(w.inputs) <= Len(ReadStep(c, w).inputs)
           /\ w.epoch <= ReadStep(c, w).epoch
           /\ \A k \in 1 .. Len(w.inputs) :
                 /\ ReadStep(c, w).inputs[k] = w.inputs[k]
                 /\ ReadStep(c, w).positions[k] = w.positions[k]
<1>1. w.at \in Nat /\ w.epoch \in Nat /\ w.inputs \in Seq(Token) /\ w.positions \in Seq(Int)
  BY DEF ReadType
<1>2. Len(w.inputs) \in Nat /\ Num(c) \in Nat
  BY <1>1 DEF Num, SourceType
<1>3. CASE w.at < Num(c)
  <2> DEFINE n == SampleAt(c, w).length
             more == TokensAt(c, w, n)
  <2>1. n \in Nat
    BY <1>1, <1>3, SampleTyped
  <2>2. more \in Seq(Token) /\ Len(more) = n
    <3> HIDE DEF n
    <3>1. n \in Int /\ w.at \in Nat /\ w.epoch \in Nat /\ w.at < Num(c)
      BY <1>1, <1>3, <2>1
    <3>2. more \in Seq(Token) /\ Len(more) = IF n > 0 THEN n ELSE 0
      BY <3>1, TokensTyped, Zenon
    <3> QED
      BY <2>1, <3>2
  <2>3. Range0(n) \in Seq(Int) /\ Len(Range0(n)) = n
    BY <2>1, RangeTyped
  <2> HIDE DEF n, more
  <2>4. /\ w.inputs \o more \in Seq(Token)
        /\ Len(w.inputs \o more) = Len(w.inputs) + n
        /\ \A k \in 1 .. Len(w.inputs) : (w.inputs \o more)[k] = w.inputs[k]
    BY <1>1, <2>2, ConcatKeeps
  <2>5. /\ w.positions \o Range0(n) \in Seq(Int)
        /\ Len(w.positions \o Range0(n)) = Len(w.inputs) + n
        /\ \A k \in 1 .. Len(w.inputs) : (w.positions \o Range0(n))[k] = w.positions[k]
    <3>1. Len(w.positions \o Range0(n)) = Len(w.positions) + Len(Range0(n))
      BY <1>1, <2>3, ConcatKeeps
    <3>2. w.positions \o Range0(n) \in Seq(Int)
      BY <1>1, <2>3, ConcatKeeps
    <3>3. \A k \in 1 .. Len(w.positions) : (w.positions \o Range0(n))[k] = w.positions[k]
      BY <1>1, <2>3, ConcatKeeps
    <3> QED
      BY <2>3, <3>1, <3>2, <3>3
  <2>6. ReadStep(c, w) = [at |-> w.at + 1, epoch |-> w.epoch, inputs |-> w.inputs \o more,
                          positions |-> w.positions \o Range0(n)]
    BY <1>3 DEF ReadStep, n, more
  <2> QED
    <3> DEFINE r == ReadStep(c, w)
    <3>1. /\ r.at = w.at + 1 /\ r.epoch = w.epoch
          /\ r.inputs = w.inputs \o more /\ r.positions = w.positions \o Range0(n)
      BY <2>6
    <3>2. w.at + 1 \in Nat /\ w.epoch \in Nat
      BY <1>1
    <3>3. r \in ReadType
      BY <2>4, <2>5, <2>6, <3>2 DEF ReadType
    <3>4. n \in Nat /\ Len(w.inputs) \in Nat /\ w.epoch \in Nat
      BY <1>1, <2>1, LenProperties
    <3>5. Len(w.inputs) <= Len(w.inputs) + n /\ w.epoch <= w.epoch
      <4> DEFINE l == Len(w.inputs)
                 e == w.epoch
      <4>1. l \in Nat /\ n \in Nat /\ e \in Nat
        BY <3>4
      <4> HIDE DEF l, e
      <4>2. l <= l + n /\ e <= e
        BY <4>1
      <4> QED
        BY <4>2 DEF l, e
    <3> HIDE DEF r
    <3>6. Len(r.inputs) = Len(r.positions) /\ Len(w.inputs) <= Len(r.inputs) /\ w.epoch <= r.epoch
      BY <2>4, <2>5, <3>1, <3>5
    <3>7. \A k \in 1 .. Len(w.inputs) :
             r.inputs[k] = w.inputs[k] /\ r.positions[k] = w.positions[k]
      BY <2>4, <2>5, <3>1
    <3> QED
      BY <3>3, <3>6, <3>7 DEF r
<1>4. CASE ~(w.at < Num(c))
  BY <1>1, <1>2, <1>4 DEF ReadStep, ReadType
<1> QED
  BY <1>3, <1>4

\* The reads of a source, step by step.
LEMMA ReadsRun ==
    ASSUME NEW c
    PROVE  Reads(c)[0] = ReadInit /\ \A n \in Nat : Reads(c)[n + 1] = ReadStep(c, Reads(c)[n])
<1> DEFINE p == [what |-> "read", source |-> c]
<1>1. Runs(p, RunOf(p))
  BY RunExists
<1>2. p.what = "read" /\ p.source = c /\ RunOf(p) = Reads(c)
  BY DEF Reads
<1> HIDE DEF p
<1> QED
  BY <1>1, <1>2 DEF Runs, Start, Step

\* Every read has a position for every token.
LEMMA ReadsTyped ==
    ASSUME NEW c \in SourceType, NEW n \in Nat
    PROVE  Reads(c)[n] \in ReadType /\ Len(Reads(c)[n].inputs) = Len(Reads(c)[n].positions)
<1> DEFINE T == {k \in Nat : /\ Reads(c)[k] \in ReadType
                             /\ Len(Reads(c)[k].inputs) = Len(Reads(c)[k].positions)}
<1>1. 0 \in T
  <2>1. <<>> \in Seq(Token) /\ <<>> \in Seq(Int)
    BY EmptySeq
  <2>2. ReadInit \in ReadType /\ Len(ReadInit.inputs) = Len(ReadInit.positions)
    BY <2>1 DEF ReadInit, ReadType
  <2> QED
    BY <2>2, ReadsRun
<1>2. ASSUME NEW k \in Nat, k \in T
      PROVE  k + 1 \in T
  <2> DEFINE w == Reads(c)[k]
  <2>1. w \in ReadType /\ Len(w.inputs) = Len(w.positions)
    BY <1>2
  <2>2. Reads(c)[k + 1] = ReadStep(c, w)
    BY ReadsRun
  <2> HIDE DEF w
  <2>3. ReadStep(c, w) \in ReadType /\ Len(ReadStep(c, w).inputs) = Len(ReadStep(c, w).positions)
    BY <2>1, ReadTyped
  <2> QED
    BY <2>2, <2>3
<1> HIDE DEF T
<1>3. Nat \subseteq T
  BY <1>1, <1>2, NatInductionSet
<1> QED
  BY <1>3 DEF T

\* What has been read stays read.
LEMMA ReadsGrow ==
    ASSUME NEW c \in SourceType, NEW m \in Nat, NEW n \in Nat, m <= n
    PROVE  /\ Reads(c)[m].epoch <= Reads(c)[n].epoch
           /\ Len(Reads(c)[m].inputs) <= Len(Reads(c)[n].inputs)
           /\ \A k \in 1 .. Len(Reads(c)[m].inputs) :
                 /\ Reads(c)[n].inputs[k] = Reads(c)[m].inputs[k]
                 /\ Reads(c)[n].positions[k] = Reads(c)[m].positions[k]
<1> DEFINE w(k) == Reads(c)[k]
           Grown(k) == /\ w(m).epoch <= w(k).epoch
                       /\ Len(w(m).inputs) <= Len(w(k).inputs)
                       /\ \A j \in 1 .. Len(w(m).inputs) :
                             /\ w(k).inputs[j] = w(m).inputs[j]
                             /\ w(k).positions[j] = w(m).positions[j]
           T == {d \in Nat : Grown(m + d)}
<1>1. \A k \in Nat : /\ w(k) \in ReadType /\ Len(w(k).inputs) = Len(w(k).positions)
                     /\ w(k).epoch \in Nat /\ Len(w(k).inputs) \in Nat
  <2> SUFFICES ASSUME NEW k \in Nat
               PROVE  /\ w(k) \in ReadType /\ Len(w(k).inputs) = Len(w(k).positions)
                      /\ w(k).epoch \in Nat /\ Len(w(k).inputs) \in Nat
    OBVIOUS
  <2>1. w(k) \in ReadType /\ Len(w(k).inputs) = Len(w(k).positions)
    BY ReadsTyped
  <2> HIDE DEF w
  <2>2. w(k).epoch \in Nat /\ w(k).inputs \in Seq(Token)
    BY <2>1 DEF ReadType
  <2> QED
    BY <2>1, <2>2, LenProperties
<1>2. 0 \in T
  BY <1>1
<1>3. ASSUME NEW d \in Nat, d \in T
      PROVE  d + 1 \in T
  <2>1. m + d \in Nat /\ m + (d + 1) = (m + d) + 1 /\ (m + d) + 1 \in Nat
    OBVIOUS
  <2>2. w((m + d) + 1) = ReadStep(c, w(m + d))
    BY <2>1, ReadsRun
  <2>3. /\ w(m + d).epoch <= w((m + d) + 1).epoch
        /\ Len(w(m + d).inputs) <= Len(w((m + d) + 1).inputs)
        /\ \A j \in 1 .. Len(w(m + d).inputs) :
              /\ w((m + d) + 1).inputs[j] = w(m + d).inputs[j]
              /\ w((m + d) + 1).positions[j] = w(m + d).positions[j]
    <3> DEFINE u == w(m + d)
               v == w((m + d) + 1)
    <3>1. u \in ReadType /\ Len(u.inputs) = Len(u.positions) /\ v = ReadStep(c, u)
      BY <1>1, <2>1, <2>2
    <3> HIDE DEF u, v
    <3>2. /\ u.epoch <= v.epoch /\ Len(u.inputs) <= Len(v.inputs)
          /\ \A j \in 1 .. Len(u.inputs) :
                v.inputs[j] = u.inputs[j] /\ v.positions[j] = u.positions[j]
      BY <3>1, ReadTyped
    <3> QED
      BY <3>2 DEF u, v
  <2>4. Grown(m + d)
    BY <1>3
  <2> DEFINE x == w(m + d)
             y == w((m + d) + 1)
             z == w(m)
             p == Len(z.inputs)
             q == Len(x.inputs)
             r == Len(y.inputs)
  <2>5. /\ x.epoch \in Nat /\ y.epoch \in Nat /\ z.epoch \in Nat
        /\ p \in Nat /\ q \in Nat /\ r \in Nat
    BY <1>1, <2>1
  <2>6. /\ x.epoch <= y.epoch /\ q <= r
        /\ \A j \in 1 .. q : y.inputs[j] = x.inputs[j] /\ y.positions[j] = x.positions[j]
    BY <2>3
  <2>7. /\ z.epoch <= x.epoch /\ p <= q
        /\ \A j \in 1 .. p : x.inputs[j] = z.inputs[j] /\ x.positions[j] = z.positions[j]
    BY <2>4
  <2>8. /\ z.epoch <= y.epoch /\ p <= r
        /\ \A j \in 1 .. p : y.inputs[j] = z.inputs[j] /\ y.positions[j] = z.positions[j]
    <3> HIDE DEF p, q, r, x, y, z
    <3> QED
      BY <2>5, <2>6, <2>7
  <2>9. Grown((m + d) + 1)
    BY <2>8
  <2> QED
    BY <2>1, <2>9
<1> HIDE DEF T
<1>4. Nat \subseteq T
  BY <1>2, <1>3, NatInductionSet
<1>5. n - m \in T /\ m + (n - m) = n
  BY <1>4
<1> QED
  BY <1>5 DEF T

-----------------------------------------------------------------------------
(* The uninterrupted run only adds rows, and ends at most once.            *)

\* The run of the interleaver, step by step.
LEMMA TimelineRun ==
    ASSUME NEW p, p.what = "run"
    PROVE  /\ RunOf(p)[0] = Timeline0(p)
           /\ \A n \in Nat : RunOf(p)[n + 1] = TimelineStep(p, RunOf(p)[n])
<1>1. Runs(p, RunOf(p))
  BY RunExists
<1>2. p.what # "read" /\ p.what # "scan" /\ p.what # "pack"
  OBVIOUS
<1> QED
  BY <1>1, <1>2 DEF Runs, Start, Step

\* A step keeps the rows delivered, and does nothing after the end.
LEMMA StepGrows ==
    ASSUME NEW p, NEW t, t.count \in Nat
    PROVE  /\ TimelineStep(p, t).count \in Nat
           /\ t.count <= TimelineStep(p, t).count
           /\ \A k \in 1 .. t.count : TimelineStep(p, t).rows[k] = t.rows[k]
           /\ t.stopped => TimelineStep(p, t) = t
<1> DEFINE next == TimelineStep(p, t)
           row == RowOf(p, t.asked, t.src[t.asked])
<1>1. t.stopped => next = t
  BY DEF TimelineStep
<1>2. \/ next.count = t.count /\ next.rows = t.rows
      \/ next.count = t.count + 1 /\ next.rows = Longer(t, row)
  <2> DEFINE outcome == Outcome(p, t.asked, t.src[t.asked])
             after == [t.src EXCEPT ![t.asked] = After(p, t.asked, t.src[t.asked])]
             drawn == p.draws[t.rng + 1]
  <2>1. \/ next = t
        \/ \E s, r, e, a, b : next = Core(s, r, e, a, b, t.count, t.rows)
        \/ \E s, r, e, a, b : next = Core(s, r, e, a, b, t.count + 1, Longer(t, row))
    <3> HIDE DEF outcome, after, row
    <3>1. t.asked # 0 /\ ~t.stopped =>
            next = IF outcome = "go"
        THEN Core(after, t.rng, t.exhausted, t.asked, FALSE, t.count, t.rows)
        ELSE IF outcome = "row"
        THEN Core(after, t.rng, t.exhausted, 0, FALSE, t.count + 1, Longer(t, row))
        ELSE IF p.strategy = "on_first_exhausted"
        THEN Core(t.src, t.rng, t.exhausted, 0, TRUE, t.count, t.rows)
        ELSE IF t.exhausted \cup {t.asked} = DOMAIN p.config
        THEN Core(t.src, t.rng, t.exhausted \cup {t.asked}, 0, TRUE, t.count, t.rows)
        ELSE Core(after, t.rng, t.exhausted \cup {t.asked}, 0, FALSE, t.count, t.rows)
      BY DEF TimelineStep, outcome, after, row
    <3>2. t.asked = 0 \/ t.stopped =>
            next = t \/ next = Core(t.src, t.rng + 1, t.exhausted, drawn, FALSE, t.count, t.rows)
      BY DEF TimelineStep
    <3> HIDE DEF next, drawn
    <3> QED
      BY <3>1, <3>2, Zenon
  <2> HIDE DEF next, row
  <2> QED
    BY <2>1 DEF Core
<1> HIDE DEF next, row
<1>3. \A k \in 1 .. t.count : Longer(t, row)[k] = t.rows[k]
  BY DEF Longer
<1> QED
  BY <1>1, <1>2, <1>3 DEF next

\* The rows are counted by a natural number.
LEMMA CountTyped ==
    ASSUME NEW p, p.what = "run", NEW n \in Nat
    PROVE  RunOf(p)[n].count \in Nat
<1> DEFINE T == {k \in Nat : RunOf(p)[k].count \in Nat}
<1>1. 0 \in T
  <2>1. RunOf(p)[0] = Timeline0(p)
    BY TimelineRun
  <2>2. Timeline0(p).count = 0
    BY DEF Timeline0, Core
  <2> QED
    BY <2>1, <2>2
<1>2. ASSUME NEW k \in Nat, k \in T
      PROVE  k + 1 \in T
  <2>1. RunOf(p)[k].count \in Nat /\ RunOf(p)[k + 1] = TimelineStep(p, RunOf(p)[k])
    BY <1>2, TimelineRun
  <2>2. RunOf(p)[k + 1].count \in Nat
    BY <2>1, StepGrows
  <2> QED
    BY <2>2
<1> HIDE DEF T
<1>3. Nat \subseteq T
  BY <1>1, <1>2, NatInductionSet
<1> QED
  BY <1>3 DEF T

\* So does any number of steps.
LEMMA TimelineGrows ==
    ASSUME NEW p, p.what = "run", NEW m \in Nat, NEW n \in Nat, m <= n
    PROVE  /\ RunOf(p)[m].count <= RunOf(p)[n].count
           /\ \A k \in 1 .. RunOf(p)[m].count : RunOf(p)[n].rows[k] = RunOf(p)[m].rows[k]
           /\ RunOf(p)[m].stopped => RunOf(p)[n] = RunOf(p)[m]
<1> DEFINE t(k) == RunOf(p)[k]
           Grown(k) == /\ t(m).count <= t(k).count
                       /\ \A j \in 1 .. t(m).count : t(k).rows[j] = t(m).rows[j]
                       /\ t(m).stopped => t(k) = t(m)
           T == {d \in Nat : Grown(m + d)}
<1>1. \A k \in Nat : t(k).count \in Nat
  BY CountTyped
<1>2. 0 \in T
  BY <1>1
<1>3. ASSUME NEW d \in Nat, d \in T
      PROVE  d + 1 \in T
  <2>1. m + d \in Nat /\ m + (d + 1) = (m + d) + 1 /\ (m + d) + 1 \in Nat
    OBVIOUS
  <2>2. t((m + d) + 1) = TimelineStep(p, t(m + d))
    BY <2>1, TimelineRun
  <2>3. /\ t(m + d).count <= t((m + d) + 1).count
        /\ \A k \in 1 .. t(m + d).count : t((m + d) + 1).rows[k] = t(m + d).rows[k]
        /\ t(m + d).stopped => t((m + d) + 1) = t(m + d)
    BY <1>1, <2>1, <2>2, StepGrows
  <2>4. Grown(m + d)
    BY <1>3
  <2> HIDE DEF t
  <2>5. Grown((m + d) + 1)
    BY <1>1, <2>1, <2>3, <2>4
  <2> QED
    BY <2>1, <2>5
<1> HIDE DEF T
<1>4. Nat \subseteq T
  BY <1>2, <1>3, NatInductionSet
<1>5. n - m \in T /\ m + (n - m) = n
  BY <1>4
<1> QED
  BY <1>5 DEF T

-----------------------------------------------------------------------------
(* Text: a source may have read ahead of the uninterrupted run, which is   *)
(* known by the tokens it has delivered.                                   *)

\* a is what is left of b without its first t members.
Suffix(a, b, t) == t + Len(a) = Len(b) /\ \A k \in 1 .. Len(a) : a[k] = b[t + k]

\* What is added to a sequence and to its end alike keeps them alike.
LEMMA EndExtends ==
    ASSUME NEW S, NEW a \in Seq(S), NEW b \in Seq(S), NEW d \in Seq(S), NEW t \in Nat,
           Suffix(a, b, t)
    PROVE  /\ a \o d \in Seq(S)
           /\ Len(a \o d) = Len(a) + Len(d)
           /\ Suffix(a \o d, b \o d, t)
<1> DEFINE e == a \o d
           f == b \o d
<1>1. Len(a) \in Nat /\ Len(b) \in Nat /\ Len(d) \in Nat
  BY LenProperties
<1>2. /\ e \in Seq(S) /\ Len(e) = Len(a) + Len(d)
      /\ \A k \in 1 .. Len(a) : e[k] = a[k]
      /\ \A k \in 1 .. Len(d) : e[Len(a) + k] = d[k]
  BY ConcatKeeps
<1>3. /\ Len(f) = Len(b) + Len(d)
      /\ \A k \in 1 .. Len(b) : f[k] = b[k]
      /\ \A k \in 1 .. Len(d) : f[Len(b) + k] = d[k]
  BY ConcatKeeps
<1>4. t + Len(a) = Len(b) /\ \A k \in 1 .. Len(a) : a[k] = b[t + k]
  BY DEF Suffix
<1>5. t + Len(a) = Len(b) /\ Len(e) = Len(a) + Len(d) /\ Len(f) = Len(b) + Len(d)
  BY <1>2, <1>3, <1>4
<1> HIDE DEF e, f
<1>6. ASSUME NEW k \in 1 .. Len(e)
      PROVE  e[k] = f[t + k]
  <2>1. CASE k <= Len(a)
    <3>1. k \in 1 .. Len(a) /\ t + k \in 1 .. Len(b)
      BY <2>1, <1>1, <1>5
    <3> QED
      BY <3>1, <1>2, <1>3, <1>4
  <2>2. CASE ~(k <= Len(a))
    <3>1. PICK j \in 1 .. Len(d) : k = Len(a) + j
      <4>1. k - Len(a) \in 1 .. Len(d) /\ k = Len(a) + (k - Len(a))
        BY <2>2, <1>1, <1>5
      <4> QED
        BY <4>1
    <3>2. t + k = Len(b) + j
      BY <3>1, <1>1, <1>5
    <3>3. e[k] = d[j]
      BY <3>1, <1>2
    <3>4. f[t + k] = d[j]
      BY <3>2, <1>3
    <3> QED
      BY <3>3, <3>4
  <2> QED
    BY <2>1, <2>2
<1>7. t + Len(e) = Len(f)
  <2> DEFINE x == Len(a)
             y == Len(b)
             z == Len(d)
  <2>1. /\ x \in Nat /\ y \in Nat /\ z \in Nat
        /\ t + x = y /\ Len(e) = x + z /\ Len(f) = y + z
    BY <1>1, <1>5
  <2> HIDE DEF x, y, z
  <2>2. t + (x + z) = y + z
    BY <2>1
  <2> QED
    BY <2>1, <2>2
<1>8. Suffix(e, f, t)
  BY <1>6, <1>7 DEF Suffix
<1> QED
  BY <1>2, <1>8 DEF e, f

\* s has read as far as the m-th state, and delivered u.taken of these tokens.
ReadUpto(reads, s, u, m) ==
    /\ s.at = reads[m].at /\ s.epoch = reads[m].epoch
    /\ Suffix(s.inputs, reads[m].inputs, u.taken)
    /\ Suffix(s.positions, reads[m].positions, u.taken)

TextTyped(s) ==
    /\ s = [pc |-> s.pc, idx |-> s.at, at |-> s.at, epoch |-> s.epoch,
            inputs |-> s.inputs, positions |-> s.positions]
    /\ s.at \in Nat /\ s.epoch \in Nat
    /\ s.pc \in {"for", "chunk"}
    /\ s.inputs \in Seq(Token) /\ s.positions \in Seq(Int)
    /\ Len(s.positions) = Len(s.inputs)

TextMatch(c, s, u) ==
    /\ TextTyped(s)
    /\ u.taken \in Nat /\ u.ends \in Nat
    /\ \E m \in Nat : ReadUpto(Reads(c), s, u, m)
    /\ ~c.infinite => u.ends = s.epoch
    /\ s.pc = "chunk" => Text!RowTokens <= Len(s.inputs)
    /\ s.pc = "for" => Len(s.inputs) < Text!RowTokens \/ s.at < Num(c) \/ c.infinite

\* A fresh text source.
LEMMA TextStarts ==
    ASSUME NEW c \in SourceType
    PROVE  TextMatch(c, Text!Fresh, TextFresh)
<1> DEFINE s == Text!Fresh
<1>1. s = [pc |-> "for", idx |-> 0, at |-> 0, epoch |-> 0, inputs |-> <<>>, positions |-> <<>>]
  BY DEF Text!Fresh
<1>2. /\ s.pc = "for" /\ s.idx = 0 /\ s.at = 0 /\ s.epoch = 0
      /\ s.inputs = <<>> /\ s.positions = <<>>
  BY <1>1
<1> HIDE DEF s
<1>3. <<>> \in Seq(Token) /\ <<>> \in Seq(Int) /\ Len(<<>>) = 0
  BY EmptySeq
<1>4. TextTyped(s)
  BY <1>1, <1>2, <1>3 DEF TextTyped
<1>5. Reads(c)[0] = ReadInit
  BY ReadsRun
<1>6. Suffix(<<>>, <<>>, 0)
  BY <1>3 DEF Suffix
<1>7. ReadUpto(Reads(c), s, TextFresh, 0)
  BY <1>2, <1>5, <1>6 DEF ReadUpto, ReadInit, TextFresh
<1>8. Text!RowTokens \in Nat \ {0}
  BY DatasetAssumption DEF Text!RowTokens
<1>9. TextMatch(c, s, TextFresh)
  BY <1>2, <1>3, <1>4, <1>7, <1>8 DEF TextMatch, TextFresh
<1> QED
  BY <1>9 DEF s

\* ReadSample.
TextRead(c, s) ==
    LET n == SampleAt(c, s).length
        full == s.inputs \o TokensAt(c, s, n)
    IN  [pc |-> Text!Loop(full), idx |-> s.at + 1, at |-> s.at + 1, epoch |-> s.epoch,
         inputs |-> full, positions |-> s.positions \o Range0(n)]

\* Reading a sample keeps a text source where the uninterrupted one is.
LEMMA TextReads ==
    ASSUME NEW c \in SourceType, NEW s, NEW u, TextMatch(c, s, u), s.pc = "for", s.at < Num(c)
    PROVE  TextMatch(c, TextRead(c, s), u)
<1>1. PICK m \in Nat : ReadUpto(Reads(c), s, u, m)
  BY DEF TextMatch
<1> DEFINE w == Reads(c)[m]
           w2 == Reads(c)[m + 1]
           n == SampleAt(c, s).length
           more == TokensAt(c, s, n)
           upto == Range0(n)
           full == s.inputs \o more
           pos == s.positions \o upto
           s2 == TextRead(c, s)
<1>2. /\ s.at \in Nat /\ s.epoch \in Nat /\ s.inputs \in Seq(Token) /\ s.positions \in Seq(Int)
      /\ Len(s.positions) = Len(s.inputs) /\ u.taken \in Nat /\ u.ends \in Nat
  BY DEF TextMatch, TextTyped
<1>3. w.at = s.at /\ w.epoch = s.epoch
  BY <1>1 DEF ReadUpto
<1>4. TokensAt(c, w, n) = more /\ SampleAt(c, w).length = n
  BY <1>3 DEF TokensAt, SampleAt, IdAt
<1>5. w2 = [at |-> s.at + 1, epoch |-> s.epoch, inputs |-> w.inputs \o more,
            positions |-> w.positions \o upto]
  <2>1. w2 = ReadStep(c, w)
    BY ReadsRun
  <2> QED
    BY <2>1, <1>3, <1>4 DEF ReadStep
<1>6. n \in Nat
  BY <1>2, SampleTyped
<1>7. more \in Seq(Token) /\ Len(more) = n
  <2> HIDE DEF n
  <2>0. n \in Int /\ s.at \in Nat /\ s.epoch \in Nat
    BY <1>2, <1>6
  <2>1. /\ TokensAt(c, s, n) \in Seq(Token)
        /\ Len(TokensAt(c, s, n)) = IF n > 0 THEN n ELSE 0
    BY <2>0, TokensTyped, Zenon
  <2> QED
    BY <2>1, <1>6
<1>8. upto \in Seq(Int) /\ Len(upto) = n
  BY <1>6, RangeTyped
<1>9. w.inputs \in Seq(Token) /\ w.positions \in Seq(Int)
  BY ReadsTyped DEF ReadType
<1>10. Suffix(s.inputs, w.inputs, u.taken) /\ Suffix(s.positions, w.positions, u.taken)
  BY <1>1 DEF ReadUpto
<1>11. s2 = [pc |-> Text!Loop(full), idx |-> s.at + 1, at |-> s.at + 1, epoch |-> s.epoch,
             inputs |-> full, positions |-> pos]
  BY DEF TextRead
<1> HIDE DEF w, w2, n, more, upto, s2
<1>12. /\ full \in Seq(Token) /\ Len(full) = Len(s.inputs) + n
       /\ Suffix(full, w.inputs \o more, u.taken)
  <2> DEFINE a == s.inputs
             b == w.inputs
             t == u.taken
  <2>1. /\ a \in Seq(Token) /\ b \in Seq(Token) /\ more \in Seq(Token)
        /\ t \in Nat /\ Suffix(a, b, t)
    BY <1>2, <1>7, <1>9, <1>10
  <2> HIDE DEF a, b, t
  <2>2. /\ a \o more \in Seq(Token) /\ Len(a \o more) = Len(a) + Len(more)
        /\ Suffix(a \o more, b \o more, t)
    BY <2>1, EndExtends
  <2> QED
    BY <2>2, <1>7 DEF a, b, t
<1>13. /\ pos \in Seq(Int) /\ Len(pos) = Len(s.positions) + n
       /\ Suffix(pos, w.positions \o upto, u.taken)
  <2>1. /\ s.positions \o upto \in Seq(Int)
        /\ Len(s.positions \o upto) = Len(s.positions) + Len(upto)
        /\ Suffix(s.positions \o upto, w.positions \o upto, u.taken)
    BY <1>2, <1>8, <1>9, <1>10, EndExtends, Zenon
  <2> QED
    BY <2>1, <1>8
<1> HIDE DEF full, pos
<1>14. /\ s2.at = s.at + 1 /\ s2.idx = s.at + 1 /\ s2.epoch = s.epoch
       /\ s2.inputs = full /\ s2.positions = pos /\ s2.pc = Text!Loop(full)
  BY <1>11
<1>15. ReadUpto(Reads(c), s2, u, m + 1)
  BY <1>5, <1>12, <1>13, <1>14 DEF ReadUpto, w2
<1>16. s2.pc = (IF Len(full) >= Text!RowTokens THEN "chunk" ELSE "for")
  BY <1>14 DEF Text!Loop
<1>17. Text!RowTokens \in Nat /\ Len(full) \in Nat
  <2>1. Text!RowTokens \in Nat
    BY DatasetAssumption DEF Text!RowTokens
  <2> QED
    BY <2>1, <1>12, LenProperties
<1>18. TextTyped(s2)
  <2>1. s2.pc \in {"for", "chunk"}
    BY <1>16
  <2>2. s2.inputs \in Seq(Token) /\ s2.positions \in Seq(Int) /\ Len(s2.positions) = Len(s2.inputs)
    BY <1>2, <1>12, <1>13, <1>14
  <2>3. s2.at \in Nat /\ s2.epoch \in Nat
    BY <1>2, <1>14
  <2>4. s2 = [pc |-> s2.pc, idx |-> s2.at, at |-> s2.at, epoch |-> s2.epoch,
              inputs |-> s2.inputs, positions |-> s2.positions]
    BY <1>11, <1>14
  <2> QED
    BY <2>1, <2>2, <2>3, <2>4 DEF TextTyped
<1>19. ~c.infinite => u.ends = s2.epoch
  BY <1>14 DEF TextMatch
<1>20. /\ s2.pc = "chunk" => Text!RowTokens <= Len(s2.inputs)
       /\ s2.pc = "for" => Len(s2.inputs) < Text!RowTokens
  <2> DEFINE a == Len(full)
             b == Text!RowTokens
  <2>1. a \in Nat /\ b \in Nat /\ s2.pc = IF a >= b THEN "chunk" ELSE "for"
    BY <1>16, <1>17
  <2>2. Len(s2.inputs) = a
    BY <1>14
  <2> HIDE DEF a, b
  <2>3. (s2.pc = "chunk" => b <= a) /\ (s2.pc = "for" => a < b)
    BY <2>1
  <2> QED
    BY <2>2, <2>3 DEF b
<1>21. m + 1 \in Nat
  OBVIOUS
<1>22. TextMatch(c, s2, u)
  BY <1>2, <1>15, <1>18, <1>19, <1>20, <1>21 DEF TextMatch
<1> QED
  BY <1>22 DEF s2

\* A row taken off the front of a sequence, and what it leaves.
LEMMA FrontTaken ==
    ASSUME NEW S, NEW a \in Seq(S), NEW b \in Seq(S), NEW t \in Nat, NEW r \in Nat,
           r <= Len(a), Suffix(a, b, t)
    PROVE  /\ SubSeq(a, 1, r) = [k \in 1 .. r |-> b[t + k]]
           /\ SubSeq(a, r + 1, Len(a)) \in Seq(S)
           /\ Len(SubSeq(a, r + 1, Len(a))) = Len(a) - r
           /\ Suffix(SubSeq(a, r + 1, Len(a)), b, t + r)
<1> DEFINE rest == SubSeq(a, r + 1, Len(a))
           front == SubSeq(a, 1, r)
<1>1. Len(a) \in Nat /\ Len(b) \in Nat
  BY LenProperties
<1>2. /\ t + Len(a) = Len(b)
      /\ \A k \in 1 .. Len(a) : a[k] = b[t + k]
  BY DEF Suffix
<1>3. \A k \in 1 .. Len(a) : a[k] \in S
  BY ElementOfSeq
<1>4. front = [k \in 1 .. r |-> a[k]]
  <2>1. front = [k \in 1 .. (r - 1) + 1 |-> a[(1 + k) - 1]]
    BY <1>1
  <2>2. 1 .. (r - 1) + 1 = 1 .. r /\ \A k \in 1 .. r : (1 + k) - 1 = k
    BY <1>1
  <2> HIDE DEF front
  <2> QED
    BY <2>1, <2>2
<1>5. rest \in Seq(S) /\ Len(rest) = Len(a) - r /\ \A k \in 1 .. Len(a) - r : rest[k] = a[r + k]
  <2> DEFINE d == Len(a) - r
  <2>1. d \in Nat /\ Len(a) = r + d
    BY <1>1
  <2>2. rest = [k \in 1 .. d |-> a[r + k]]
    <3>1. rest = [k \in 1 .. (Len(a) - (r + 1)) + 1 |-> a[((r + 1) + k) - 1]]
      BY <1>1
    <3>2. 1 .. (Len(a) - (r + 1)) + 1 = 1 .. d /\ \A k \in 1 .. d : ((r + 1) + k) - 1 = r + k
      BY <1>1, <2>1
    <3> HIDE DEF rest, d
    <3> QED
      BY <3>1, <3>2
  <2>3. \A k \in 1 .. d : a[r + k] \in S
    <3> TAKE k \in 1 .. d
    <3>1. r + k \in 1 .. Len(a)
      BY <2>1
    <3> QED
      BY <3>1, <1>3
  <2> HIDE DEF rest, d
  <2>4. rest \in Seq(S) /\ Len(rest) = d
    BY <2>1, <2>2, <2>3
  <2>5. \A k \in 1 .. d : rest[k] = a[r + k]
    BY <2>2
  <2> QED
    BY <2>4, <2>5 DEF d
<1>6. front = [k \in 1 .. r |-> b[t + k]]
  <2> HIDE DEF front
  <2>1. \A k \in 1 .. r : k \in 1 .. Len(a)
    BY <1>1
  <2>2. \A k \in 1 .. r : a[k] = b[t + k]
    BY <2>1, <1>2
  <2>3. [k \in 1 .. r |-> a[k]] = [k \in 1 .. r |-> b[t + k]]
    <3>1. \A k \in 1 .. r : [j \in 1 .. r |-> a[j]][k] = [j \in 1 .. r |-> b[t + j]][k]
      BY <2>2
    <3> QED
      BY <2>2, Zenon
  <2> QED
    BY <2>3, <1>4, Zenon
<1>7. Suffix(rest, b, t + r)
  <2> HIDE DEF rest
  <2>1. (t + r) + Len(rest) = Len(b)
    <3>1. t + Len(a) = Len(b) /\ Len(rest) = Len(a) - r
      BY <1>2, <1>5
    <3> DEFINE la == Len(a)
               lb == Len(b)
               lr == Len(rest)
    <3>2. la \in Nat /\ lb \in Nat /\ t + la = lb /\ lr = la - r
      BY <1>1, <3>1
    <3> HIDE DEF la, lb, lr
    <3>3. (t + r) + lr = lb
      BY <3>2
    <3> QED
      BY <3>3 DEF lr, lb
  <2>2. ASSUME NEW k \in 1 .. Len(rest)
        PROVE  rest[k] = b[(t + r) + k]
    <3>1. k \in 1 .. Len(a) - r
      BY <1>5
    <3>2. r + k \in 1 .. Len(a) /\ t + (r + k) = (t + r) + k
      BY <3>1, <1>1
    <3>3. rest[k] = a[r + k]
      BY <3>1, <1>5
    <3>4. a[r + k] = b[t + (r + k)]
      BY <3>2, <1>2
    <3> QED
      BY <3>2, <3>3, <3>4
  <2> QED
    BY <2>1, <2>2 DEF Suffix
<1> QED
  BY <1>5, <1>6, <1>7

\* The tokens of a row do not depend on how far ahead one has read.
LEMMA SliceFixed ==
    ASSUME NEW c \in SourceType, NEW m \in Nat, NEW n \in Nat, NEW t \in Nat,
           t + Text!RowTokens <= Len(Reads(c)[m].inputs),
           t + Text!RowTokens <= Len(Reads(c)[n].inputs)
    PROVE  /\ Slice(Reads(c)[m].inputs, t) = Slice(Reads(c)[n].inputs, t)
           /\ Slice(Reads(c)[m].positions, t) = Slice(Reads(c)[n].positions, t)
<1>1. Text!RowTokens \in Nat
  BY DatasetAssumption DEF Text!RowTokens
<1> DEFINE r == Text!RowTokens
           Same(x, y) == /\ Slice(Reads(c)[x].inputs, t) = Slice(Reads(c)[y].inputs, t)
                         /\ Slice(Reads(c)[x].positions, t) = Slice(Reads(c)[y].positions, t)
<1>2. ASSUME NEW x \in Nat, NEW y \in Nat, x <= y, t + r <= Len(Reads(c)[x].inputs)
      PROVE  Same(x, y)
  <2> DEFINE v == Reads(c)[x]
             w == Reads(c)[y]
  <2>1. \A k \in 1 .. Len(v.inputs) : w.inputs[k] = v.inputs[k] /\ w.positions[k] = v.positions[k]
    BY <1>2, ReadsGrow
  <2>2. v.inputs \in Seq(Token)
    BY ReadsTyped DEF ReadType
  <2>3. Len(v.inputs) \in Nat
    BY <2>2, LenProperties
  <2> HIDE DEF v, w, r
  <2>4. \A k \in 1 .. r : t + k \in 1 .. Len(v.inputs)
    BY <1>1, <1>2, <2>3 DEF r, v
  <2>5. \A k \in 1 .. r : w.inputs[t + k] = v.inputs[t + k] /\ w.positions[t + k] = v.positions[t + k]
    BY <2>1, <2>4
  <2>6. /\ [k \in 1 .. r |-> w.inputs[t + k]] = [k \in 1 .. r |-> v.inputs[t + k]]
        /\ [k \in 1 .. r |-> w.positions[t + k]] = [k \in 1 .. r |-> v.positions[t + k]]
    BY <2>5
  <2> QED
    BY <2>6 DEF Slice, r, v, w
<1>3. Same(m, n) \/ Same(n, m)
  <2> HIDE DEF Same
  <2>1. CASE m <= n
    BY <2>1, <1>2
  <2>2. CASE n <= m
    BY <2>2, <1>2
  <2> QED
    BY <2>1, <2>2
<1> QED
  BY <1>3

\* Yield.
TextYielded(s) ==
    LET rest == SubSeq(s.inputs, Text!RowTokens + 1, Len(s.inputs))
    IN  [pc |-> Text!Loop(rest), idx |-> s.at, at |-> s.at, epoch |-> s.epoch, inputs |-> rest,
         positions |-> SubSeq(s.positions, Text!RowTokens + 1, Len(s.positions))]

TextRow0(i, s) ==
    LET x == SubSeq(s.inputs, 1, Text!RowTokens)
        pos == Text!NormalizePositions(SubSeq(s.positions, 1, Text!RowTokens))
    IN  [source |-> i, input |-> Text!Front(x), label |-> Tail(x), positions |-> Text!Front(pos)]

\* The row it cuts is the next one of the uninterrupted run.
LEMMA TextYields ==
    ASSUME NEW c \in SourceType, NEW s, NEW u, TextMatch(c, s, u), s.pc = "chunk", NEW i
    PROVE  /\ TextOutcome(c, Reads(c), u) = "row"
           /\ TextRowOf(i, Reads(c), u) = TextRow0(i, s)
           /\ TextMatch(c, TextYielded(s), TextAfter(c, Reads(c), u))
<1>1. PICK m \in Nat : ReadUpto(Reads(c), s, u, m)
  BY DEF TextMatch
<1> DEFINE w == Reads(c)[m]
           r == Text!RowTokens
           a == s.inputs
           b == w.inputs
           pa == s.positions
           pb == w.positions
           t == u.taken
           s2 == TextYielded(s)
<1>2. /\ s.at \in Nat /\ s.epoch \in Nat /\ a \in Seq(Token) /\ pa \in Seq(Int)
      /\ Len(pa) = Len(a) /\ t \in Nat /\ u.ends \in Nat
  BY DEF TextMatch, TextTyped
<1>3. b \in Seq(Token) /\ pb \in Seq(Int)
  BY ReadsTyped DEF ReadType
<1>4. w.at = s.at /\ w.epoch = s.epoch /\ Suffix(a, b, t) /\ Suffix(pa, pb, t)
  BY <1>1 DEF ReadUpto
<1>5. r \in Nat
  BY DatasetAssumption DEF Text!RowTokens
<1>6. r <= Len(a) /\ Len(a) \in Nat
  <2>1. r <= Len(a)
    BY DEF TextMatch
  <2> QED
    BY <2>1, <1>2, LenProperties
<1>7. s2 = [pc |-> Text!Loop(SubSeq(a, r + 1, Len(a))), idx |-> s.at, at |-> s.at,
            epoch |-> s.epoch, inputs |-> SubSeq(a, r + 1, Len(a)),
            positions |-> SubSeq(pa, r + 1, Len(pa))]
  BY DEF TextYielded
<1>8. t + Len(a) = Len(b)
  BY <1>4 DEF Suffix
<1> HIDE DEF a, b, pa, pb, t, r, s2
<1>9. /\ SubSeq(a, 1, r) = [k \in 1 .. r |-> b[t + k]]
      /\ SubSeq(a, r + 1, Len(a)) \in Seq(Token)
      /\ Len(SubSeq(a, r + 1, Len(a))) = Len(a) - r
      /\ Suffix(SubSeq(a, r + 1, Len(a)), b, t + r)
  BY <1>2, <1>3, <1>4, <1>5, <1>6, FrontTaken
<1>10. /\ SubSeq(pa, 1, r) = [k \in 1 .. r |-> pb[t + k]]
       /\ SubSeq(pa, r + 1, Len(pa)) \in Seq(Int)
       /\ Len(SubSeq(pa, r + 1, Len(pa))) = Len(pa) - r
       /\ Suffix(SubSeq(pa, r + 1, Len(pa)), pb, t + r)
  <2>1. r <= Len(pa)
    BY <1>2, <1>6
  <2> QED
    BY <2>1, <1>2, <1>3, <1>4, <1>5, FrontTaken
<1>11. t + r <= Len(b)
  BY <1>2, <1>5, <1>6, <1>8
<1>12. HasRow(c, Reads(c), u)
  <2>1. CASE c.infinite
    BY <2>1 DEF HasRow
  <2>2. CASE ~c.infinite
    <3>1. u.ends = s.epoch
      BY <2>2 DEF TextMatch
    <3>2. w.epoch <= u.ends /\ u.taken + Text!RowTokens <= Len(w.inputs)
      BY <1>2, <1>4, <1>11, <3>1 DEF t, r, b
    <3> QED
      BY <3>2 DEF HasRow, w
  <2> QED
    BY <2>1, <2>2
<1>13. TextRowOf(i, Reads(c), u) = TextRow0(i, s)
  <2> DEFINE n == CHOOSE n \in Nat : u.taken + Text!RowTokens <= Len(Reads(c)[n].inputs)
  <2>1. n \in Nat /\ u.taken + Text!RowTokens <= Len(Reads(c)[n].inputs)
    BY <1>11 DEF t, r, b, w
  <2>2. TextRowOf(i, Reads(c), u) =
          [source |-> i, input |-> Text!Front(Slice(Reads(c)[n].inputs, u.taken)),
           label |-> Tail(Slice(Reads(c)[n].inputs, u.taken)),
           positions |-> Text!Front(Text!NormalizePositions(Slice(Reads(c)[n].positions, u.taken)))]
    BY DEF TextRowOf
  <2> HIDE DEF n
  <2>3. /\ Slice(Reads(c)[n].inputs, u.taken) = Slice(Reads(c)[m].inputs, u.taken)
        /\ Slice(Reads(c)[n].positions, u.taken) = Slice(Reads(c)[m].positions, u.taken)
    <3>1. u.taken \in Nat /\ u.taken + Text!RowTokens <= Len(Reads(c)[m].inputs)
      BY <1>2, <1>11 DEF t, r, b, w
    <3> QED
      BY <3>1, <2>1, SliceFixed
  <2>4. /\ Slice(Reads(c)[m].inputs, u.taken) = SubSeq(s.inputs, 1, Text!RowTokens)
        /\ Slice(Reads(c)[m].positions, u.taken) = SubSeq(s.positions, 1, Text!RowTokens)
    BY <1>9, <1>10 DEF Slice, a, b, pa, pb, r, t, w
  <2>5. TextRow0(i, s) =
          [source |-> i, input |-> Text!Front(SubSeq(s.inputs, 1, Text!RowTokens)),
           label |-> Tail(SubSeq(s.inputs, 1, Text!RowTokens)),
           positions |->
              Text!Front(Text!NormalizePositions(SubSeq(s.positions, 1, Text!RowTokens)))]
    BY DEF TextRow0
  <2> QED
    BY <2>2, <2>3, <2>4, <2>5, Zenon
<1> DEFINE rest == SubSeq(a, r + 1, Len(a))
           prest == SubSeq(pa, r + 1, Len(pa))
<1>14. /\ s2.pc = Text!Loop(rest) /\ s2.idx = s.at /\ s2.at = s.at /\ s2.epoch = s.epoch
       /\ s2.inputs = rest /\ s2.positions = prest
  BY <1>7
<1>15. s2 = [pc |-> s2.pc, idx |-> s2.at, at |-> s2.at, epoch |-> s2.epoch,
             inputs |-> s2.inputs, positions |-> s2.positions]
  BY <1>7, <1>14
<1> HIDE DEF rest, prest
<1>16. s2.pc = (IF Len(rest) >= r THEN "chunk" ELSE "for")
  BY <1>14 DEF Text!Loop, r
<1>17. rest \in Seq(Token) /\ prest \in Seq(Int) /\ Len(rest) = Len(prest) /\ Len(rest) \in Nat
  <2>1. rest \in Seq(Token) /\ Len(rest) = Len(a) - r
    BY <1>9 DEF rest
  <2>2. prest \in Seq(Int) /\ Len(prest) = Len(pa) - r
    BY <1>10 DEF prest
  <2> QED
    BY <2>1, <2>2, <1>2, LenProperties
<1>18. TextAfter(c, Reads(c), u) = [taken |-> t + r, ends |-> u.ends]
  BY <1>12 DEF TextAfter, t, r
<1>19. TextTyped(s2)
  <2>1. s2.pc \in {"for", "chunk"}
    BY <1>16
  <2>2. s2.inputs \in Seq(Token) /\ s2.positions \in Seq(Int) /\ Len(s2.positions) = Len(s2.inputs)
    BY <1>14, <1>17
  <2>3. s2.at \in Nat /\ s2.epoch \in Nat
    BY <1>2, <1>14
  <2> QED
    BY <2>1, <2>2, <2>3, <1>15 DEF TextTyped
<1>20. ReadUpto(Reads(c), s2, [taken |-> t + r, ends |-> u.ends], m)
  <2>1. Suffix(rest, b, t + r) /\ Suffix(prest, pb, t + r)
    BY <1>9, <1>10 DEF rest, prest
  <2> QED
    BY <2>1, <1>4, <1>14 DEF ReadUpto, w, b, pb
<1>21. /\ s2.pc = "chunk" => Text!RowTokens <= Len(s2.inputs)
       /\ s2.pc = "for" => Len(s2.inputs) < Text!RowTokens
  <2>1. (s2.pc = "chunk" => r <= Len(rest)) /\ (s2.pc = "for" => Len(rest) < r)
    BY <1>5, <1>16, <1>17
  <2> QED
    BY <2>1, <1>14 DEF r
<1>22. ~c.infinite => u.ends = s2.epoch
  BY <1>14 DEF TextMatch
<1>23. t + r \in Nat
  BY <1>2, <1>5
<1>24. TextMatch(c, s2, [taken |-> t + r, ends |-> u.ends])
  BY <1>2, <1>19, <1>20, <1>21, <1>22, <1>23 DEF TextMatch
<1>25. TextOutcome(c, Reads(c), u) = "row"
  BY <1>12 DEF TextOutcome
<1> QED
  BY <1>13, <1>18, <1>24, <1>25 DEF s2

\* The state that begins the next epoch.
LEMMA TextTurns ==
    ASSUME NEW c \in SourceType, NEW s, NEW u, NEW m \in Nat, NEW ends,
           TextTyped(s), u.taken \in Nat, ReadUpto(Reads(c), s, u, m),
           s.pc = "for", ~(s.at < Num(c))
    PROVE  /\ TextTyped(Relooped(s))
           /\ ReadUpto(Reads(c), Relooped(s), [taken |-> u.taken, ends |-> ends], m + 1)
           /\ Relooped(s).pc = "for" /\ Relooped(s).epoch = s.epoch + 1
           /\ Relooped(s).inputs = s.inputs
           /\ Reads(c)[m + 1].epoch = s.epoch + 1
<1> DEFINE w == Reads(c)[m]
           w2 == Reads(c)[m + 1]
           s2 == Relooped(s)
<1>1. s = [pc |-> s.pc, idx |-> s.at, at |-> s.at, epoch |-> s.epoch,
           inputs |-> s.inputs, positions |-> s.positions]
  BY DEF TextTyped
<1>2. s2 = [pc |-> s.pc, idx |-> 0, at |-> 0, epoch |-> s.epoch + 1,
            inputs |-> s.inputs, positions |-> s.positions]
  <2> DEFINE p == s.pc
             a == s.at
             e == s.epoch
             x == s.inputs
             y == s.positions
  <2>1. s = [pc |-> p, idx |-> a, at |-> a, epoch |-> e, inputs |-> x, positions |-> y]
    BY <1>1
  <2> HIDE DEF p, a, e, x, y
  <2>2. s2 = [pc |-> p, idx |-> 0, at |-> 0, epoch |-> e + 1, inputs |-> x, positions |-> y]
    <3>1. Relooped(s) = [s EXCEPT !.idx = 0, !.at = 0, !.epoch = s.epoch + 1]
      BY DEF Relooped
    <3>2. DOMAIN s = {"pc", "idx", "at", "epoch", "inputs", "positions"} /\ s.epoch = e
      BY <2>1
    <3> QED
      BY <2>1, <3>1, <3>2 DEF s2
  <2> QED
    BY <2>2 DEF p, a, e, x, y
<1>3. w2 = ReadStep(c, w)
  BY ReadsRun
<1>4. w.at = s.at /\ w.epoch = s.epoch
  BY DEF ReadUpto
<1>5. w2 = [at |-> 0, epoch |-> s.epoch + 1, inputs |-> w.inputs, positions |-> w.positions]
  BY <1>3, <1>4 DEF ReadStep
<1>6. Suffix(s.inputs, w.inputs, u.taken) /\ Suffix(s.positions, w.positions, u.taken)
  BY DEF ReadUpto
<1>7. /\ s.epoch \in Nat /\ s.inputs \in Seq(Token) /\ s.positions \in Seq(Int)
      /\ Len(s.positions) = Len(s.inputs) /\ s.pc \in {"for", "chunk"}
  BY DEF TextTyped
<1> HIDE DEF s2, w
<1>8. /\ s2.pc = s.pc /\ s2.idx = 0 /\ s2.at = 0 /\ s2.epoch = s.epoch + 1
      /\ s2.inputs = s.inputs /\ s2.positions = s.positions
  BY <1>2
<1>9. TextTyped(s2)
  <2>1. s2 = [pc |-> s2.pc, idx |-> s2.at, at |-> s2.at, epoch |-> s2.epoch,
              inputs |-> s2.inputs, positions |-> s2.positions]
    BY <1>2, <1>8
  <2>2. s2.at \in Nat /\ s2.epoch \in Nat
    BY <1>7, <1>8
  <2>3. /\ s2.inputs \in Seq(Token) /\ s2.positions \in Seq(Int)
        /\ Len(s2.positions) = Len(s2.inputs) /\ s2.pc \in {"for", "chunk"}
    BY <1>7, <1>8
  <2> QED
    BY <2>1, <2>2, <2>3 DEF TextTyped
<1>10. /\ w2.at = 0 /\ w2.epoch = s.epoch + 1
       /\ w2.inputs = w.inputs /\ w2.positions = w.positions
  BY <1>5
<1>11. ReadUpto(Reads(c), s2, [taken |-> u.taken, ends |-> ends], m + 1)
  BY <1>6, <1>8, <1>10 DEF ReadUpto
<1> QED
  BY <1>8, <1>9, <1>10, <1>11 DEF s2

\* EndOfData.
LEMMA TextEndsEpoch ==
    ASSUME NEW c \in SourceType, NEW s, NEW u, TextMatch(c, s, u), s.pc = "for",
           ~(s.at < Num(c)), c.infinite
    PROVE  TextMatch(c, Relooped(s), u)
<1>1. PICK m \in Nat : ReadUpto(Reads(c), s, u, m)
  BY DEF TextMatch
<1>2. TextTyped(s) /\ u.taken \in Nat /\ u.ends \in Nat
  BY DEF TextMatch
<1> DEFINE s2 == Relooped(s)
           v == [taken |-> u.taken, ends |-> u.ends]
<1>3. TextTyped(s2) /\ ReadUpto(Reads(c), s2, v, m + 1) /\ s2.pc = "for"
  BY <1>1, <1>2, TextTurns
<1> HIDE DEF s2
<1>4. ReadUpto(Reads(c), s2, u, m + 1)
  BY <1>3 DEF ReadUpto
<1>5. TextMatch(c, s2, u)
  BY <1>2, <1>3, <1>4 DEF TextMatch
<1> QED
  BY <1>5 DEF s2

\* StopIteration: no row is left among the epochs ended so far.
LEMMA TextStops ==
    ASSUME NEW c \in SourceType, NEW s, NEW u, TextMatch(c, s, u), s.pc = "for",
           ~(s.at < Num(c)), ~c.infinite
    PROVE  /\ TextOutcome(c, Reads(c), u) = "stop"
           /\ TextMatch(c, Relooped(s), TextAfter(c, Reads(c), u))
<1>1. PICK m \in Nat : ReadUpto(Reads(c), s, u, m)
  BY DEF TextMatch
<1>2. TextTyped(s) /\ u.taken \in Nat /\ u.ends \in Nat /\ u.ends = s.epoch
  BY DEF TextMatch
<1>3. Text!RowTokens \in Nat
  BY DatasetAssumption DEF Text!RowTokens
<1>4. Len(s.inputs) < Text!RowTokens /\ Len(s.inputs) \in Nat
  <2>1. s.inputs \in Seq(Token)
    BY <1>2 DEF TextTyped
  <2> QED
    BY <2>1, LenProperties DEF TextMatch
<1> DEFINE s2 == Relooped(s)
           r == Text!RowTokens
           v == [taken |-> u.taken, ends |-> u.ends + 1]
<1>5. /\ TextTyped(s2) /\ ReadUpto(Reads(c), s2, v, m + 1) /\ s2.pc = "for"
      /\ s2.epoch = s.epoch + 1 /\ s2.inputs = s.inputs
      /\ Reads(c)[m + 1].epoch = s.epoch + 1
  BY <1>1, <1>2, TextTurns
<1> HIDE DEF s2, v, r
<1>6. ASSUME NEW n \in Nat
      PROVE  ~(Reads(c)[n].epoch <= u.ends /\ u.taken + r <= Len(Reads(c)[n].inputs))
  <2> DEFINE e(k) == Reads(c)[k].epoch
             len(k) == Len(Reads(c)[k].inputs)
  <2>1. \A k \in Nat : e(k) \in Nat /\ len(k) \in Nat
    <3> TAKE k \in Nat
    <3>1. Reads(c)[k].epoch \in Nat /\ Reads(c)[k].inputs \in Seq(Token)
      BY ReadsTyped DEF ReadType
    <3> QED
      BY <3>1, LenProperties
  <2>2. u.taken + Len(s.inputs) = len(m)
    <3>1. Suffix(s.inputs, Reads(c)[m].inputs, u.taken)
      BY <1>1 DEF ReadUpto
    <3> QED
      BY <3>1 DEF Suffix
  <2>3. n <= m => len(n) <= len(m)
    BY ReadsGrow
  <2>4. m + 1 <= n => e(m + 1) <= e(n)
    <3>1. m + 1 \in Nat
      OBVIOUS
    <3> QED
      BY <3>1, ReadsGrow
  <2>5. e(m + 1) = u.ends + 1
    BY <1>2, <1>5
  <2> HIDE DEF e, len
  <2>6. CASE n <= m
    <3> DEFINE x == len(n)
               y == len(m)
               l == Len(s.inputs)
               t == u.taken
    <3>1. x <= y /\ t + l = y /\ l < r /\ x \in Nat /\ y \in Nat /\ l \in Nat /\ t \in Nat /\ r \in Nat
      BY <2>1, <2>2, <2>3, <2>6, <1>2, <1>3, <1>4 DEF r
    <3> HIDE DEF x, y, l, t
    <3>2. ~(t + r <= x)
      BY <3>1
    <3> QED
      BY <3>2 DEF x, t, len
  <2>7. CASE m + 1 <= n
    <3> DEFINE x == e(n)
               y == u.ends
    <3>1. x \in Nat /\ y \in Nat /\ y + 1 <= x
      BY <2>1, <2>4, <2>5, <2>7, <1>2
    <3> HIDE DEF x, y
    <3>2. ~(x <= y)
      BY <3>1
    <3>3. ~(e(n) <= u.ends)
      BY <3>2 DEF x, y
    <3> QED
      BY <3>3 DEF e
  <2> QED
    BY <2>6, <2>7
<1>7. ~HasRow(c, Reads(c), u)
  BY <1>6 DEF HasRow, r
<1>8. TextOutcome(c, Reads(c), u) = "stop" /\ TextAfter(c, Reads(c), u) = v
  BY <1>7 DEF TextOutcome, TextAfter, v
<1>9. v.taken \in Nat /\ v.ends \in Nat /\ v.ends = s2.epoch
  BY <1>2, <1>5 DEF v
<1>10. TextMatch(c, s2, v)
  BY <1>4, <1>5, <1>9 DEF TextMatch
<1> QED
  BY <1>8, <1>10 DEF s2

\* A state dict and what is restored from it.
TextRestored(s) ==
    [pc |-> "for", idx |-> s.at, at |-> s.at, epoch |-> s.epoch, inputs |-> s.inputs,
     positions |-> s.positions]

\* A text source that still has something to read for, once restored.
LEMMA TextRestores ==
    ASSUME NEW c \in SourceType, NEW s, NEW u, TextMatch(c, s, u),
           ~(s.pc = "chunk" /\ ~(s.at < Num(c)) /\ ~c.infinite)
    PROVE  TextMatch(c, TextRestored(s), u)
<1>1. PICK m \in Nat : ReadUpto(Reads(c), s, u, m)
  BY DEF TextMatch
<1>2. /\ s.at \in Nat /\ s.epoch \in Nat /\ s.inputs \in Seq(Token) /\ s.positions \in Seq(Int)
      /\ Len(s.positions) = Len(s.inputs) /\ u.taken \in Nat /\ u.ends \in Nat
      /\ s.pc \in {"for", "chunk"}
  BY DEF TextMatch, TextTyped
<1> DEFINE s2 == TextRestored(s)
<1>3. s2 = [pc |-> "for", idx |-> s.at, at |-> s.at, epoch |-> s.epoch, inputs |-> s.inputs,
            positions |-> s.positions]
  BY DEF TextRestored
<1> HIDE DEF s2
<1>4. /\ s2.pc = "for" /\ s2.idx = s.at /\ s2.at = s.at /\ s2.epoch = s.epoch
      /\ s2.inputs = s.inputs /\ s2.positions = s.positions
  BY <1>3
<1>5. TextTyped(s2)
  BY <1>2, <1>3, <1>4 DEF TextTyped
<1>6. ReadUpto(Reads(c), s2, u, m)
  BY <1>1, <1>4 DEF ReadUpto
<1>7. Len(s2.inputs) < Text!RowTokens \/ s2.at < Num(c) \/ c.infinite
  BY <1>2, <1>4 DEF TextMatch
<1>8. ~c.infinite => u.ends = s2.epoch
  BY <1>4 DEF TextMatch
<1>9. TextMatch(c, s2, u)
  BY <1>2, <1>4, <1>5, <1>6, <1>7, <1>8 DEF TextMatch
<1> QED
  BY <1>9 DEF s2

-----------------------------------------------------------------------------
(* Chat: a source is where the uninterrupted run has it, but for a pending *)
(* sample that a restored generator has yet to add.                        *)

ChatState(pc, idx, at, epoch, inputs, labels, positions, pending, pendingLabels) ==
    [pc |-> pc, idx |-> idx, at |-> at, epoch |-> epoch,
     inputs |-> inputs, labels |-> labels, positions |-> positions,
     pendingInputs |-> pending, pendingLabels |-> pendingLabels]

IsChat(s) == s = ChatState(s.pc, s.idx, s.at, s.epoch, s.inputs, s.labels, s.positions,
                           s.pendingInputs, s.pendingLabels)

\* A function of the fields of a chat dataset is the record of their values.
LEMMA ChatIs ==
    ASSUME NEW r, r = [f \in DOMAIN r |-> r[f]],
           DOMAIN r = {"pc", "idx", "at", "epoch", "inputs", "labels", "positions",
                       "pendingInputs", "pendingLabels"}
    PROVE  r = ChatState(r.pc, r.idx, r.at, r.epoch, r.inputs, r.labels, r.positions,
                         r.pendingInputs, r.pendingLabels)
<1> DEFINE t == ChatState(r.pc, r.idx, r.at, r.epoch, r.inputs, r.labels, r.positions,
                          r.pendingInputs, r.pendingLabels)
<1>1. DOMAIN t = DOMAIN r /\ t = [f \in DOMAIN t |-> t[f]]
  BY DEF ChatState
<1>2. \A f \in DOMAIN r : t[f] = r[f]
  BY DEF ChatState
<1> HIDE DEF t
<1>3. [f \in DOMAIN r |-> r[f]] = [f \in DOMAIN t |-> t[f]]
  BY <1>1, <1>2
<1>4. t = r
  BY <1>1, <1>3
<1> QED
  BY <1>4 DEF t

LEMMA ChatFields ==
    ASSUME NEW s, IsChat(s)
    PROVE  DOMAIN s = {"pc", "idx", "at", "epoch", "inputs", "labels", "positions",
                       "pendingInputs", "pendingLabels"}
BY DEF IsChat, ChatState

LEMMA ChatStateFields ==
    ASSUME NEW pc, NEW idx, NEW at, NEW epoch, NEW inputs, NEW labels, NEW positions,
           NEW pending, NEW pendingLabels, NEW s,
           s = ChatState(pc, idx, at, epoch, inputs, labels, positions, pending, pendingLabels)
    PROVE  /\ IsChat(s)
           /\ s.pc = pc /\ s.idx = idx /\ s.at = at /\ s.epoch = epoch
           /\ s.inputs = inputs /\ s.labels = labels /\ s.positions = positions
           /\ s.pendingInputs = pending /\ s.pendingLabels = pendingLabels
BY DEF IsChat, ChatState

\* The updates the code makes of it.
LEMMA ChatForms ==
    ASSUME NEW s, IsChat(s)
    PROVE  /\ [s EXCEPT !.at = @ + 1] =
                ChatState(s.pc, s.idx, s.at + 1, s.epoch, s.inputs, s.labels, s.positions,
                          s.pendingInputs, s.pendingLabels)
           /\ [s EXCEPT !.idx = @ + 1] =
                ChatState(s.pc, s.idx + 1, s.at, s.epoch, s.inputs, s.labels, s.positions,
                          s.pendingInputs, s.pendingLabels)
           /\ [s EXCEPT !.pendingInputs = <<>>, !.pendingLabels = <<>>] =
                ChatState(s.pc, s.idx, s.at, s.epoch, s.inputs, s.labels, s.positions, <<>>,
                          <<>>)
           /\ Relooped(s) =
                ChatState(s.pc, 0, 0, s.epoch + 1, s.inputs, s.labels, s.positions,
                          s.pendingInputs, s.pendingLabels)
<1>0. DOMAIN s = {"pc", "idx", "at", "epoch", "inputs", "labels", "positions",
                  "pendingInputs", "pendingLabels"}
  BY ChatFields
<1>1. [s EXCEPT !.at = @ + 1] =
        ChatState(s.pc, s.idx, s.at + 1, s.epoch, s.inputs, s.labels, s.positions,
                  s.pendingInputs, s.pendingLabels)
  <2> DEFINE r == [s EXCEPT !.at = @ + 1]
  <2>1. r = [f \in DOMAIN r |-> r[f]] /\ DOMAIN r = DOMAIN s
    BY <1>0
  <2>2. /\ r.pc = s.pc
        /\ r.idx = s.idx
        /\ r.at = s.at + 1
        /\ r.epoch = s.epoch
        /\ r.inputs = s.inputs
        /\ r.labels = s.labels
        /\ r.positions = s.positions
        /\ r.pendingInputs = s.pendingInputs
        /\ r.pendingLabels = s.pendingLabels
    BY <1>0
  <2> HIDE DEF r
  <2>3. r = ChatState(r.pc, r.idx, r.at, r.epoch, r.inputs, r.labels, r.positions,
                      r.pendingInputs, r.pendingLabels)
    BY <1>0, <2>1, ChatIs
  <2> QED
    BY <2>2, <2>3 DEF r
<1>2. [s EXCEPT !.idx = @ + 1] =
        ChatState(s.pc, s.idx + 1, s.at, s.epoch, s.inputs, s.labels, s.positions,
                  s.pendingInputs, s.pendingLabels)
  <2> DEFINE r == [s EXCEPT !.idx = @ + 1]
  <2>1. r = [f \in DOMAIN r |-> r[f]] /\ DOMAIN r = DOMAIN s
    BY <1>0
  <2>2. /\ r.pc = s.pc
        /\ r.idx = s.idx + 1
        /\ r.at = s.at
        /\ r.epoch = s.epoch
        /\ r.inputs = s.inputs
        /\ r.labels = s.labels
        /\ r.positions = s.positions
        /\ r.pendingInputs = s.pendingInputs
        /\ r.pendingLabels = s.pendingLabels
    BY <1>0
  <2> HIDE DEF r
  <2>3. r = ChatState(r.pc, r.idx, r.at, r.epoch, r.inputs, r.labels, r.positions,
                      r.pendingInputs, r.pendingLabels)
    BY <1>0, <2>1, ChatIs
  <2> QED
    BY <2>2, <2>3 DEF r
<1>3. [s EXCEPT !.pendingInputs = <<>>, !.pendingLabels = <<>>] =
        ChatState(s.pc, s.idx, s.at, s.epoch, s.inputs, s.labels, s.positions, <<>>, <<>>)
  <2> DEFINE r == [s EXCEPT !.pendingInputs = <<>>, !.pendingLabels = <<>>]
  <2>1. r = [f \in DOMAIN r |-> r[f]] /\ DOMAIN r = DOMAIN s
    BY <1>0
  <2>2. /\ r.pc = s.pc
        /\ r.idx = s.idx
        /\ r.at = s.at
        /\ r.epoch = s.epoch
        /\ r.inputs = s.inputs
        /\ r.labels = s.labels
        /\ r.positions = s.positions
        /\ r.pendingInputs = <<>>
        /\ r.pendingLabels = <<>>
    BY <1>0
  <2> HIDE DEF r
  <2>3. r = ChatState(r.pc, r.idx, r.at, r.epoch, r.inputs, r.labels, r.positions,
                      r.pendingInputs, r.pendingLabels)
    BY <1>0, <2>1, ChatIs
  <2> QED
    BY <2>2, <2>3 DEF r
<1>4. Relooped(s) =
        ChatState(s.pc, 0, 0, s.epoch + 1, s.inputs, s.labels, s.positions, s.pendingInputs,
                  s.pendingLabels)
  <2> DEFINE r == Relooped(s)
  <2>1. r = [f \in DOMAIN r |-> r[f]] /\ DOMAIN r = DOMAIN s
    BY <1>0 DEF Relooped
  <2>2. /\ r.pc = s.pc
        /\ r.idx = 0
        /\ r.at = 0
        /\ r.epoch = s.epoch + 1
        /\ r.inputs = s.inputs
        /\ r.labels = s.labels
        /\ r.positions = s.positions
        /\ r.pendingInputs = s.pendingInputs
        /\ r.pendingLabels = s.pendingLabels
    BY <1>0 DEF Relooped
  <2> HIDE DEF r
  <2>3. r = ChatState(r.pc, r.idx, r.at, r.epoch, r.inputs, r.labels, r.positions,
                      r.pendingInputs, r.pendingLabels)
    BY <1>0, <2>1, ChatIs
  <2> QED
    BY <2>2, <2>3 DEF r
<1> QED
  BY <1>1, <1>2, <1>3, <1>4

Padding(inputs) == [k \in 1 .. SeqLen - Len(inputs) |-> Chat!Pad]
LabelPadding(inputs) == [k \in 1 .. SeqLen - Len(inputs) |-> Chat!Ignored]

\* A chat dataset with its iterator moved.
LEMMA ChatMoves ==
    ASSUME NEW s, IsChat(s), NEW a
    PROVE  [s EXCEPT !.at = a] =
                ChatState(s.pc, s.idx, a, s.epoch, s.inputs, s.labels, s.positions,
                          s.pendingInputs, s.pendingLabels)
<1>0. DOMAIN s = {"pc", "idx", "at", "epoch", "inputs", "labels", "positions",
                  "pendingInputs", "pendingLabels"}
  BY ChatFields
<1> DEFINE r == [s EXCEPT !.at = a]
<1>1. r = [f \in DOMAIN r |-> r[f]] /\ DOMAIN r = DOMAIN s
  BY <1>0
<1>2. /\ r.pc = s.pc
      /\ r.idx = s.idx
      /\ r.at = a
      /\ r.epoch = s.epoch
      /\ r.inputs = s.inputs
      /\ r.labels = s.labels
      /\ r.positions = s.positions
      /\ r.pendingInputs = s.pendingInputs
      /\ r.pendingLabels = s.pendingLabels
  BY <1>0
<1> HIDE DEF r
<1>3. r = ChatState(r.pc, r.idx, r.at, r.epoch, r.inputs, r.labels, r.positions,
                    r.pendingInputs, r.pendingLabels)
  BY <1>0, <1>1, ChatIs
<1> QED
  BY <1>2, <1>3 DEF r

\* A chat dataset with its iterator moved and its place in the code changed.
LEMMA ChatTops ==
    ASSUME NEW s, IsChat(s), NEW a, NEW b
    PROVE  [s EXCEPT !.pc = a, !.at = b] =
                ChatState(a, s.idx, b, s.epoch, s.inputs, s.labels, s.positions,
                          s.pendingInputs, s.pendingLabels)
<1>0. DOMAIN s = {"pc", "idx", "at", "epoch", "inputs", "labels", "positions",
                  "pendingInputs", "pendingLabels"}
  BY ChatFields
<1> DEFINE r == [s EXCEPT !.pc = a, !.at = b]
<1>1. r = [f \in DOMAIN r |-> r[f]] /\ DOMAIN r = DOMAIN s
  BY <1>0
<1>2. /\ r.pc = a
      /\ r.idx = s.idx
      /\ r.at = b
      /\ r.epoch = s.epoch
      /\ r.inputs = s.inputs
      /\ r.labels = s.labels
      /\ r.positions = s.positions
      /\ r.pendingInputs = s.pendingInputs
      /\ r.pendingLabels = s.pendingLabels
  BY <1>0
<1> HIDE DEF r
<1>3. r = ChatState(r.pc, r.idx, r.at, r.epoch, r.inputs, r.labels, r.positions,
                    r.pendingInputs, r.pendingLabels)
  BY <1>0, <1>1, ChatIs
<1> QED
  BY <1>2, <1>3 DEF r

\* A chat dataset with a sample added to its row.
LEMMA ChatExtended ==
    ASSUME NEW s, IsChat(s), NEW a, NEW b
    PROVE  Chat!Extended(s, a, b) =
                ChatState(IF Len(s.inputs \o a) = SeqLen THEN "yield" ELSE "for", s.idx + 1,
                          s.at, s.epoch, s.inputs \o a, s.labels \o b,
                          s.positions \o Range0(Len(a)), s.pendingInputs, s.pendingLabels)
<1>0. DOMAIN s = {"pc", "idx", "at", "epoch", "inputs", "labels", "positions",
                  "pendingInputs", "pendingLabels"}
  BY ChatFields
<1> DEFINE r == Chat!Extended(s, a, b)
<1>1. r = [f \in DOMAIN r |-> r[f]] /\ DOMAIN r = DOMAIN s
  BY <1>0 DEF Chat!Extended, Chat!Range0, Range0
<1>2. /\ r.pc = IF Len(s.inputs \o a) = SeqLen THEN "yield" ELSE "for"
      /\ r.idx = s.idx + 1
      /\ r.at = s.at
      /\ r.epoch = s.epoch
      /\ r.inputs = s.inputs \o a
      /\ r.labels = s.labels \o b
      /\ r.positions = s.positions \o Range0(Len(a))
      /\ r.pendingInputs = s.pendingInputs
      /\ r.pendingLabels = s.pendingLabels
  <2>1. r.pc = IF Len(s.inputs \o a) = SeqLen THEN "yield" ELSE "for"
    BY <1>0 DEF Chat!Extended, Chat!Range0, Range0
  <2>2. r.idx = s.idx + 1
    BY <1>0 DEF Chat!Extended, Chat!Range0, Range0
  <2>3. r.at = s.at
    BY <1>0 DEF Chat!Extended, Chat!Range0, Range0
  <2>4. r.epoch = s.epoch
    BY <1>0 DEF Chat!Extended, Chat!Range0, Range0
  <2>5. r.inputs = s.inputs \o a
    BY <1>0 DEF Chat!Extended, Chat!Range0, Range0
  <2>6. r.labels = s.labels \o b
    BY <1>0 DEF Chat!Extended, Chat!Range0, Range0
  <2>7. r.positions = s.positions \o Range0(Len(a))
    BY <1>0 DEF Chat!Extended, Chat!Range0, Range0
  <2>8. r.pendingInputs = s.pendingInputs
    BY <1>0 DEF Chat!Extended, Chat!Range0, Range0
  <2>9. r.pendingLabels = s.pendingLabels
    BY <1>0 DEF Chat!Extended, Chat!Range0, Range0
  <2> HIDE DEF r
  <2> QED
    BY <2>1, <2>2, <2>3, <2>4, <2>5, <2>6, <2>7, <2>8, <2>9
<1> HIDE DEF r
<1>3. r = ChatState(r.pc, r.idx, r.at, r.epoch, r.inputs, r.labels, r.positions,
                    r.pendingInputs, r.pendingLabels)
  BY <1>0, <1>1, ChatIs
<1> QED
  BY <1>2, <1>3 DEF r

\* The updates the code makes of a chat source, as records.
LEMMA ChatExtends ==
    ASSUME NEW s, IsChat(s), NEW a, NEW b
    PROVE  /\ [s EXCEPT !.pc = a, !.at = b] =
                ChatState(a, s.idx, b, s.epoch, s.inputs, s.labels, s.positions,
                          s.pendingInputs, s.pendingLabels)
           /\ [s EXCEPT !.at = a] =
                ChatState(s.pc, s.idx, a, s.epoch, s.inputs, s.labels, s.positions,
                          s.pendingInputs, s.pendingLabels)
           /\ [s EXCEPT !.inputs = <<>>, !.labels = <<>>, !.positions = <<>>, !.pc = a] =
                ChatState(a, s.idx, s.at, s.epoch, <<>>, <<>>, <<>>, s.pendingInputs,
                          s.pendingLabels)
           /\ Chat!Extended(s, a, b) =
                ChatState(IF Len(s.inputs \o a) = SeqLen THEN "yield" ELSE "for", s.idx + 1,
                          s.at, s.epoch, s.inputs \o a, s.labels \o b,
                                    s.positions \o Range0(Len(a)), s.pendingInputs,
                                              s.pendingLabels)
           /\ Chat!Padded(s) =
                ChatState("yield", s.idx, s.at, s.epoch, s.inputs \o Padding(s.inputs),
                          s.labels \o LabelPadding(s.inputs),
                                    s.positions \o Range0(SeqLen - Len(s.inputs)),
                                              s.pendingInputs, s.pendingLabels)
<1>0. DOMAIN s = {"pc", "idx", "at", "epoch", "inputs", "labels", "positions",
                  "pendingInputs", "pendingLabels"}
  BY ChatFields
<1>1. [s EXCEPT !.pc = a, !.at = b] =
        ChatState(a, s.idx, b, s.epoch, s.inputs, s.labels, s.positions, s.pendingInputs,
                  s.pendingLabels)
  BY ChatTops
<1>2. [s EXCEPT !.at = a] =
        ChatState(s.pc, s.idx, a, s.epoch, s.inputs, s.labels, s.positions, s.pendingInputs,
                  s.pendingLabels)
  BY ChatMoves
<1>3. [s EXCEPT !.inputs = <<>>, !.labels = <<>>, !.positions = <<>>, !.pc = a] =
        ChatState(a, s.idx, s.at, s.epoch, <<>>, <<>>, <<>>, s.pendingInputs, s.pendingLabels)
  <2> DEFINE r == [s EXCEPT !.inputs = <<>>, !.labels = <<>>, !.positions = <<>>, !.pc = a]
  <2>1. r = [f \in DOMAIN r |-> r[f]] /\ DOMAIN r = DOMAIN s
    BY <1>0
  <2>2. /\ r.pc = a
        /\ r.idx = s.idx
        /\ r.at = s.at
        /\ r.epoch = s.epoch
        /\ r.inputs = <<>>
        /\ r.labels = <<>>
        /\ r.positions = <<>>
        /\ r.pendingInputs = s.pendingInputs
        /\ r.pendingLabels = s.pendingLabels
    BY <1>0
  <2> HIDE DEF r
  <2>3. r = ChatState(r.pc, r.idx, r.at, r.epoch, r.inputs, r.labels, r.positions,
                      r.pendingInputs, r.pendingLabels)
    BY <1>0, <2>1, ChatIs
  <2> QED
    BY <2>2, <2>3 DEF r
<1>4. Chat!Extended(s, a, b) =
        ChatState(IF Len(s.inputs \o a) = SeqLen THEN "yield" ELSE "for", s.idx + 1, s.at,
                  s.epoch, s.inputs \o a, s.labels \o b, s.positions \o Range0(Len(a)),
                            s.pendingInputs, s.pendingLabels)
  BY ChatExtended
<1>5. Chat!Padded(s) =
        ChatState("yield", s.idx, s.at, s.epoch, s.inputs \o Padding(s.inputs),
                  s.labels \o LabelPadding(s.inputs),
                            s.positions \o Range0(SeqLen - Len(s.inputs)), s.pendingInputs,
                                      s.pendingLabels)
  <2> DEFINE r == Chat!Padded(s)
  <2>1. r = [f \in DOMAIN r |-> r[f]] /\ DOMAIN r = DOMAIN s
    BY <1>0 DEF Chat!Padded, Padding, LabelPadding, Chat!Range0, Range0
  <2>2. /\ r.pc = "yield"
        /\ r.idx = s.idx
        /\ r.at = s.at
        /\ r.epoch = s.epoch
        /\ r.inputs = s.inputs \o Padding(s.inputs)
        /\ r.labels = s.labels \o LabelPadding(s.inputs)
        /\ r.positions = s.positions \o Range0(SeqLen - Len(s.inputs))
        /\ r.pendingInputs = s.pendingInputs
        /\ r.pendingLabels = s.pendingLabels
    <3>1. r.pc = "yield"
      BY <1>0 DEF Chat!Padded, Padding, LabelPadding, Chat!Range0, Range0
    <3>2. r.idx = s.idx
      BY <1>0 DEF Chat!Padded, Padding, LabelPadding, Chat!Range0, Range0
    <3>3. r.at = s.at
      BY <1>0 DEF Chat!Padded, Padding, LabelPadding, Chat!Range0, Range0
    <3>4. r.epoch = s.epoch
      BY <1>0 DEF Chat!Padded, Padding, LabelPadding, Chat!Range0, Range0
    <3>5. r.inputs = s.inputs \o Padding(s.inputs)
      BY <1>0 DEF Chat!Padded, Padding, LabelPadding, Chat!Range0, Range0
    <3>6. r.labels = s.labels \o LabelPadding(s.inputs)
      BY <1>0 DEF Chat!Padded, Padding, LabelPadding, Chat!Range0, Range0
    <3>7. r.positions = s.positions \o Range0(SeqLen - Len(s.inputs))
      BY <1>0 DEF Chat!Padded, Padding, LabelPadding, Chat!Range0, Range0
    <3>8. r.pendingInputs = s.pendingInputs
      BY <1>0 DEF Chat!Padded, Padding, LabelPadding, Chat!Range0, Range0
    <3>9. r.pendingLabels = s.pendingLabels
      BY <1>0 DEF Chat!Padded, Padding, LabelPadding, Chat!Range0, Range0
    <3> HIDE DEF r
    <3> QED
      BY <3>1, <3>2, <3>3, <3>4, <3>5, <3>6, <3>7, <3>8, <3>9
  <2> HIDE DEF r
  <2>3. r = ChatState(r.pc, r.idx, r.at, r.epoch, r.inputs, r.labels, r.positions,
                      r.pendingInputs, r.pendingLabels)
    BY <1>0, <2>1, ChatIs
  <2> QED
    BY <2>2, <2>3 DEF r
<1> QED
  BY <1>1, <1>2, <1>3, <1>4, <1>5

LEMMA ChatPends ==
    ASSUME NEW s, IsChat(s), NEW a, NEW b
    PROVE  [s EXCEPT !.pendingInputs = a, !.pendingLabels = b] =
              ChatState(s.pc, s.idx, s.at, s.epoch, s.inputs, s.labels, s.positions, a, b)
<1>1. DOMAIN s = {"pc", "idx", "at", "epoch", "inputs", "labels", "positions",
                  "pendingInputs", "pendingLabels"}
  BY ChatFields
<1> DEFINE r == [s EXCEPT !.pendingInputs = a, !.pendingLabels = b]
<1>2. r = [f \in DOMAIN r |-> r[f]] /\ DOMAIN r = DOMAIN s
  BY <1>1
<1>3. /\ r.pc = s.pc /\ r.idx = s.idx /\ r.at = s.at /\ r.epoch = s.epoch
      /\ r.inputs = s.inputs /\ r.labels = s.labels /\ r.positions = s.positions
      /\ r.pendingInputs = a /\ r.pendingLabels = b
  BY <1>1
<1> HIDE DEF r
<1>4. r = ChatState(r.pc, r.idx, r.at, r.epoch, r.inputs, r.labels, r.positions,
                    r.pendingInputs, r.pendingLabels)
  BY <1>1, <1>2, ChatIs
<1> QED
  BY <1>3, <1>4 DEF r

ChatToken == Token \cup {Chat!Pad}

ChatOk(u) ==
    /\ IsChat(u)
    /\ u.idx \in Nat /\ u.at \in Nat /\ u.epoch \in Nat
    /\ u.inputs \in Seq(ChatToken) /\ Len(u.inputs) <= SeqLen
    /\ u.pendingInputs \in Seq(ChatToken) /\ Len(u.pendingInputs) <= SeqLen
    /\ u.pc \in {"for", "yield", "held"}
    /\ u.pc = "held" => u.pendingInputs # <<>> /\ u.inputs = <<>>
    /\ u.pc = "for" => u.pendingInputs = <<>>
    /\ u.at = IF u.pendingInputs = <<>> THEN u.idx ELSE u.idx + 1

LEMMA ChatOkIntro ==
    ASSUME NEW pc, NEW idx, NEW at, NEW epoch, NEW inputs, NEW labels, NEW positions,
           NEW pending, NEW pendingLabels,
           idx \in Nat, at \in Nat, epoch \in Nat,
           inputs \in Seq(ChatToken), Len(inputs) <= SeqLen,
           pending \in Seq(ChatToken), Len(pending) <= SeqLen,
           pc \in {"for", "yield", "held"},
           pc = "held" => pending # <<>> /\ inputs = <<>>,
           pc = "for" => pending = <<>>,
           at = IF pending = <<>> THEN idx ELSE idx + 1
    PROVE  ChatOk(ChatState(pc, idx, at, epoch, inputs, labels, positions, pending,
                            pendingLabels))
<1> DEFINE s == ChatState(pc, idx, at, epoch, inputs, labels, positions, pending, pendingLabels)
<1>1. /\ IsChat(s)
      /\ s.pc = pc /\ s.idx = idx /\ s.at = at /\ s.epoch = epoch
      /\ s.inputs = inputs /\ s.pendingInputs = pending
  BY ChatStateFields
<1> HIDE DEF s
<1>2. ChatOk(s)
  BY <1>1 DEF ChatOk
<1> QED
  BY <1>2 DEF s

LEMMA EmptyChat == <<>> \in Seq(ChatToken) /\ Len(<<>>) = 0 /\ Len(<<>>) <= SeqLen
<1>1. SeqLen \in Nat
  BY DatasetAssumption
<1> QED
  BY <1>1, EmptySeq

\* A reader between two samples, with nothing pending.
LEMMA BetweenSamples ==
    ASSUME NEW idx \in Nat, NEW epoch \in Nat, NEW inputs \in Seq(ChatToken),
           Len(inputs) <= SeqLen, NEW labels, NEW positions, NEW pendingLabels
    PROVE  ChatOk(ChatState("for", idx, idx, epoch, inputs, labels, positions, <<>>,
                            pendingLabels))
<1> DEFINE s == ChatState("for", idx, idx, epoch, inputs, labels, positions, <<>>, pendingLabels)
<1>1. /\ IsChat(s)
      /\ s.pc = "for" /\ s.idx = idx /\ s.at = idx /\ s.epoch = epoch
      /\ s.inputs = inputs /\ s.pendingInputs = <<>>
  BY ChatStateFields
<1> HIDE DEF s
<1>2. ChatOk(s)
  BY <1>1, EmptyChat DEF ChatOk
<1> QED
  BY <1>2 DEF s

\* A fresh chat source.
LEMMA ChatStarts == ChatOk(Chat!Fresh)
<1>1. Chat!Fresh = ChatState("for", 0, 0, 0, <<>>, <<>>, <<>>, <<>>, <<>>)
  BY DEF Chat!Fresh, ChatState
<1>2. 0 \in Nat /\ "for" \in {"for", "yield", "held"} /\ "for" # "held"
  OBVIOUS
<1>3. 0 = IF <<>> = <<>> THEN 0 ELSE 0 + 1
  OBVIOUS
<1> DEFINE pc == "for"
           z == 0
           e == <<>>
<1>4. /\ z \in Nat /\ pc \in {"for", "yield", "held"} /\ pc # "held"
      /\ e \in Seq(ChatToken) /\ Len(e) <= SeqLen /\ e = <<>>
      /\ z = IF e = <<>> THEN z ELSE z + 1
  BY <1>2, <1>3, EmptyChat
<1> HIDE DEF pc, z, e
<1>5. ChatOk(ChatState(pc, z, z, z, e, e, e, e, e))
  BY <1>4, ChatOkIntro
<1> QED
  BY <1>1, <1>5 DEF pc, z, e

\* What is added to a row.
LEMMA PaddingFills ==
    ASSUME NEW a \in Seq(ChatToken), Len(a) <= SeqLen
    PROVE  a \o Padding(a) \in Seq(ChatToken) /\ Len(a \o Padding(a)) = SeqLen
<1> DEFINE n == SeqLen - Len(a)
           d == Padding(a)
<1>1. SeqLen \in Nat /\ Len(a) \in Nat
  BY DatasetAssumption, LenProperties
<1>2. n \in Nat /\ Len(a) + n = SeqLen
  BY <1>1
<1>3. d = [k \in 1 .. n |-> Chat!Pad]
  BY DEF Padding
<1>4. Chat!Pad \in ChatToken
  BY DEF ChatToken
<1> HIDE DEF n, d
<1>5. d \in Seq(ChatToken) /\ Len(d) = n
  BY <1>2, <1>3, <1>4
<1>6. a \o d \in Seq(ChatToken) /\ Len(a \o d) = Len(a) + Len(d)
  BY <1>5, ConcatKeeps
<1> QED
  BY <1>2, <1>5, <1>6 DEF d

\* The tokens of a conversation.
LEMMA ChatTokensTyped ==
    ASSUME NEW c \in SourceType, NEW w, w.at \in Nat, w.epoch \in Nat, w.at < Num(c),
           NEW count \in Int
    PROVE  /\ TokensAt(c, w, count) \in Seq(ChatToken)
           /\ Len(TokensAt(c, w, count)) = IF count > 0 THEN count ELSE 0
<1>1. /\ TokensAt(c, w, count) \in Seq(Token)
      /\ Len(TokensAt(c, w, count)) = IF count > 0 THEN count ELSE 0
  BY TokensTyped
<1> DEFINE t == TokensAt(c, w, count)
<1> HIDE DEF t
<1>2. t \in Seq(Token) => t \in Seq(ChatToken)
  BY DEF ChatToken
<1> QED
  BY <1>1, <1>2 DEF t

\* A row to which something is added that fits.
LEMMA ChatAdds ==
    ASSUME NEW s, IsChat(s), NEW more, NEW moreLabels,
           s.idx \in Nat, s.at \in Nat, s.epoch \in Nat,
           s.inputs \in Seq(ChatToken), more \in Seq(ChatToken),
           Len(s.inputs) + Len(more) <= SeqLen, s.at = s.idx + 1,
           s.pendingInputs = <<>>
    PROVE  ChatOk(Chat!Extended(s, more, moreLabels))
<1> DEFINE full == s.inputs \o more
           pc == IF Len(full) = SeqLen THEN "yield" ELSE "for"
           l == s.labels \o moreLabels
           p == s.positions \o Range0(Len(more))
<1>1. Chat!Extended(s, more, moreLabels) =
        ChatState(pc, s.idx + 1, s.at, s.epoch, full, l, p, <<>>, s.pendingLabels)
  <2>1. Chat!Extended(s, more, moreLabels) =
          ChatState(pc, s.idx + 1, s.at, s.epoch, full, l, p, s.pendingInputs, s.pendingLabels)
    BY ChatExtended, Zenon
  <2> HIDE DEF pc, full, l, p
  <2> QED
    BY <2>1
<1>2. full \in Seq(ChatToken) /\ Len(full) = Len(s.inputs) + Len(more)
  BY ConcatKeeps
<1> HIDE DEF full, l, p
<1>3. pc \in {"for", "yield", "held"} /\ pc # "held" /\ Len(full) <= SeqLen
  BY <1>2
<1>4. s.idx + 1 \in Nat /\ s.at = s.idx + 1
  OBVIOUS
<1> HIDE DEF pc
<1> QED
  BY <1>1, <1>2, <1>3, <1>4, EmptyChat, ChatOkIntro

\* Reading a conversation keeps the row within SeqLen.
LEMMA ChatReads ==
    ASSUME NEW c \in SourceType, NEW u, ChatOk(u), u.pc = "for", u.at < Num(c)
    PROVE  ChatOk(ChatRead(c, u))
<1> DEFINE sample == SampleAt(c, u)
           n == sample.length
           more == TokensAt(c, u, n - 1)
           labels == ChatLabels(c, u, sample)
           read == [u EXCEPT !.at = @ + 1]
<1>1. /\ IsChat(u) /\ u.idx \in Nat /\ u.at = u.idx /\ u.epoch \in Nat /\ u.at \in Nat
      /\ u.inputs \in Seq(ChatToken) /\ Len(u.inputs) <= SeqLen
      /\ u.pendingInputs = <<>>
  BY DEF ChatOk
<1>2. read = ChatState(u.pc, u.idx, u.at + 1, u.epoch, u.inputs, u.labels, u.positions,
                       u.pendingInputs, u.pendingLabels)
  BY <1>1, ChatForms
<1>3. n \in Nat
  BY <1>1, SampleTyped
<1>4. more \in Seq(ChatToken) /\ Len(more) = IF n - 1 > 0 THEN n - 1 ELSE 0
  <2>1. n - 1 \in Int
    BY <1>3
  <2> HIDE DEF n
  <2> QED
    BY <2>1, <1>1, ChatTokensTyped
<1>5. ChatRead(c, u) =
        IF Chat!Dropped(sample)
        THEN [read EXCEPT !.idx = @ + 1]
        ELSE IF Len(more) > SeqLen - Len(u.inputs) /\ u.inputs # <<>>
        THEN [Chat!Padded(read) EXCEPT !.pendingInputs = more, !.pendingLabels = labels]
        ELSE Chat!Extended(read, more, labels)
  BY DEF ChatRead
<1>6. Chat!Dropped(sample) <=> n - 1 > SeqLen
  BY DEF Chat!Dropped
<1>7. SeqLen \in Nat /\ Len(u.inputs) \in Nat
  BY <1>1, DatasetAssumption, LenProperties
<1> HIDE DEF sample, n, more, labels, read
<1>8. /\ IsChat(read) /\ read.pc = "for" /\ read.idx = u.idx /\ read.at = u.at + 1
      /\ read.epoch = u.epoch /\ read.inputs = u.inputs
      /\ read.pendingInputs = <<>>
  BY <1>1, <1>2, ChatStateFields
<1>9. u.idx + 1 \in Nat /\ u.at + 1 = u.idx + 1
  BY <1>1
<1>10. CASE Chat!Dropped(sample)
  <2>1. [read EXCEPT !.idx = @ + 1] =
          ChatState(read.pc, read.idx + 1, read.at, read.epoch, read.inputs, read.labels,
                    read.positions, read.pendingInputs, read.pendingLabels)
    BY <1>8, ChatForms
  <2>2. ChatRead(c, u) =
          ChatState("for", u.idx + 1, u.at + 1, u.epoch, u.inputs, read.labels,
                    read.positions, <<>>, read.pendingLabels)
    BY <1>5, <1>8, <1>10, <2>1
  <2> DEFINE i == u.idx + 1
  <2>3. ChatRead(c, u) =
          ChatState("for", i, i, u.epoch, u.inputs, read.labels, read.positions, <<>>,
                    read.pendingLabels)
    BY <2>2, <1>9
  <2>4. i \in Nat
    BY <1>9
  <2> HIDE DEF i
  <2> QED
    BY <2>3, <2>4, <1>1, BetweenSamples
<1>11. CASE ~Chat!Dropped(sample) /\ Len(more) > SeqLen - Len(u.inputs) /\ u.inputs # <<>>
  <2> DEFINE row == Chat!Padded(read)
             full == u.inputs \o Padding(u.inputs)
             l == read.labels \o LabelPadding(read.inputs)
             p == read.positions \o Range0(SeqLen - Len(read.inputs))
             x == read.inputs \o Padding(read.inputs)
  <2>1. row = ChatState("yield", read.idx, read.at, read.epoch, x, l, p,
                        read.pendingInputs, read.pendingLabels)
    BY <1>8, ChatExtends
  <2> HIDE DEF row, l, p, x
  <2>2. /\ IsChat(row) /\ row.pc = "yield" /\ row.idx = read.idx /\ row.at = read.at
        /\ row.epoch = read.epoch /\ row.inputs = x
    BY <2>1, ChatStateFields
  <2>3. ChatRead(c, u) =
          ChatState("yield", u.idx, u.at + 1, u.epoch, full, row.labels, row.positions,
                    more, labels)
    <3>1. ChatRead(c, u) = [row EXCEPT !.pendingInputs = more, !.pendingLabels = labels]
      BY <1>5, <1>11 DEF row
    <3>2. [row EXCEPT !.pendingInputs = more, !.pendingLabels = labels] =
            ChatState(row.pc, row.idx, row.at, row.epoch, row.inputs, row.labels,
                      row.positions, more, labels)
      <4>1. IsChat(row)
        BY <2>2
      <4> HIDE DEF row
      <4> QED
        BY <4>1, ChatPends
    <3>3. x = full
      BY <1>8 DEF x
    <3> QED
      BY <3>1, <3>2, <3>3, <2>2, <1>8
  <2>4. full \in Seq(ChatToken) /\ Len(full) = SeqLen
    BY <1>1, PaddingFills
  <2>5. Len(more) <= SeqLen /\ Len(more) > 0
    BY <1>3, <1>4, <1>6, <1>7, <1>11, <1>1
  <2>6. more # <<>>
    BY <2>5, EmptyChat
  <2>7. Len(full) <= SeqLen
    BY <2>4, <1>7
  <2> HIDE DEF full
  <2> QED
    BY <2>3, <2>4, <2>5, <2>6, <2>7, <1>1, <1>4, <1>9, ChatOkIntro
<1>12. CASE ~Chat!Dropped(sample) /\ ~(Len(more) > SeqLen - Len(u.inputs) /\ u.inputs # <<>>)
  <2>1. Len(more) <= SeqLen /\ Len(more) \in Nat
    BY <1>3, <1>4, <1>6, <1>7, <1>12
  <2>2. Len(u.inputs) + Len(more) <= SeqLen
    <3>1. CASE u.inputs = <<>>
      BY <3>1, <2>1, EmptyChat
    <3>2. CASE u.inputs # <<>>
      BY <3>2, <2>1, <1>7, <1>12
    <3> QED
      BY <3>1, <3>2
  <2>3. ChatRead(c, u) = Chat!Extended(read, more, labels)
    BY <1>5, <1>12
  <2>4. ChatOk(Chat!Extended(read, more, labels))
    BY <1>1, <1>4, <1>8, <1>9, <2>2, ChatAdds
  <2> QED
    BY <2>3, <2>4
<1> QED
  BY <1>10, <1>11, <1>12

\* Every step does, and after a row or the end none is about to be yielded.
LEMMA ChatSteps ==
    ASSUME NEW c \in SourceType, NEW u, ChatOk(u)
    PROVE  /\ ChatOk(ChatAfter(c, u))
           /\ ChatOutcome(c, u) # "go" => ChatAfter(c, u).pc # "yield"
<1>1. /\ IsChat(u) /\ u.idx \in Nat /\ u.epoch \in Nat /\ u.at \in Nat
      /\ u.inputs \in Seq(ChatToken) /\ Len(u.inputs) <= SeqLen
      /\ u.pendingInputs \in Seq(ChatToken) /\ Len(u.pendingInputs) <= SeqLen
      /\ u.pc \in {"for", "yield", "held"}
      /\ u.pc = "held" => u.pendingInputs # <<>> /\ u.inputs = <<>>
      /\ u.pc = "for" => u.pendingInputs = <<>>
      /\ u.at = IF u.pendingInputs = <<>> THEN u.idx ELSE u.idx + 1
  BY DEF ChatOk
<1>2. CASE u.pc = "yield"
  <2> DEFINE pc == IF u.pendingInputs # <<>> THEN "held" ELSE "for"
  <2>1. ChatAfter(c, u) =
          ChatState(pc, u.idx, u.at, u.epoch, <<>>, <<>>, <<>>, u.pendingInputs, u.pendingLabels)
    BY <1>1, <1>2, ChatExtends DEF ChatAfter
  <2>2. /\ pc \in {"for", "yield", "held"} /\ pc # "yield"
        /\ pc = "held" => u.pendingInputs # <<>>
        /\ pc = "for" => u.pendingInputs = <<>>
    OBVIOUS
  <2> HIDE DEF pc
  <2>3. ChatOk(ChatState(pc, u.idx, u.at, u.epoch, <<>>, <<>>, <<>>, u.pendingInputs,
                         u.pendingLabels))
    BY <1>1, <2>2, EmptyChat, ChatOkIntro
  <2>4. ChatAfter(c, u).pc = pc
    BY <2>1, ChatStateFields
  <2> QED
    BY <2>1, <2>2, <2>3, <2>4
<1>3. CASE u.pc = "held"
  <2> DEFINE s == [u EXCEPT !.pendingInputs = <<>>, !.pendingLabels = <<>>]
  <2>1. ChatAfter(c, u) = Chat!Extended(s, u.pendingInputs, u.pendingLabels)
    BY <1>3 DEF ChatAfter
  <2>2. s = ChatState(u.pc, u.idx, u.at, u.epoch, u.inputs, u.labels, u.positions, <<>>, <<>>)
    BY <1>1, ChatForms
  <2> HIDE DEF s
  <2>3. /\ IsChat(s) /\ s.idx = u.idx /\ s.at = u.idx + 1 /\ s.epoch = u.epoch
        /\ s.inputs = <<>> /\ s.pendingInputs = <<>>
    BY <2>2, <1>1, <1>3, ChatStateFields
  <2>4. Len(u.pendingInputs) \in Nat /\ u.idx + 1 \in Nat
    BY <1>1, LenProperties
  <2>5. Len(s.inputs) + Len(u.pendingInputs) <= SeqLen
    BY <2>3, <2>4, <1>1, EmptyChat
  <2>6. ChatOk(Chat!Extended(s, u.pendingInputs, u.pendingLabels))
    BY <2>3, <2>4, <2>5, <1>1, EmptyChat, ChatAdds
  <2>7. ChatOutcome(c, u) = "go"
    BY <1>3 DEF ChatOutcome
  <2> QED
    BY <2>1, <2>6, <2>7
<1>4. CASE u.pc = "for" /\ u.at < Num(c)
  <2>1. ChatAfter(c, u) = ChatRead(c, u) /\ ChatOutcome(c, u) = "go"
    BY <1>4 DEF ChatAfter, ChatOutcome
  <2> QED
    BY <2>1, <1>4, ChatReads
<1>5. CASE u.pc = "for" /\ ~(u.at < Num(c)) /\ u.inputs # <<>>
  <2> DEFINE full == u.inputs \o Padding(u.inputs)
             l == u.labels \o LabelPadding(u.inputs)
             p == u.positions \o Range0(SeqLen - Len(u.inputs))
  <2>1. ChatAfter(c, u) = Chat!Padded(u) /\ ChatOutcome(c, u) = "go"
    BY <1>5 DEF ChatAfter, ChatOutcome
  <2>2. Chat!Padded(u) = ChatState("yield", u.idx, u.at, u.epoch, full, l, p,
                                   u.pendingInputs, u.pendingLabels)
    BY <1>1, ChatExtends
  <2>3. full \in Seq(ChatToken) /\ Len(full) = SeqLen
    BY <1>1, PaddingFills
  <2> HIDE DEF full, l, p
  <2>4. Len(full) <= SeqLen
    BY <2>3, DatasetAssumption
  <2>5. ChatOk(ChatState("yield", u.idx, u.at, u.epoch, full, l, p,
                         u.pendingInputs, u.pendingLabels))
    BY <1>1, <2>3, <2>4, ChatOkIntro
  <2> QED
    BY <2>1, <2>2, <2>5
<1>6. CASE u.pc = "for" /\ ~(u.at < Num(c)) /\ u.inputs = <<>>
  <2>1. ChatAfter(c, u) = Relooped(u)
    BY <1>6 DEF ChatAfter
  <2>2. Relooped(u) = ChatState(u.pc, 0, 0, u.epoch + 1, u.inputs, u.labels, u.positions,
                                u.pendingInputs, u.pendingLabels)
    BY <1>1, ChatForms
  <2>3. u.epoch + 1 \in Nat
    BY <1>1
  <2>4. ChatOk(ChatState(u.pc, 0, 0, u.epoch + 1, u.inputs, u.labels, u.positions,
                         u.pendingInputs, u.pendingLabels))
    BY <1>1, <1>6, <2>3, ChatOkIntro
  <2>5. ChatAfter(c, u).pc = "for"
    BY <2>1, <2>2, <1>6, ChatStateFields
  <2> QED
    BY <2>1, <2>2, <2>4, <2>5
<1> QED
  BY <1>1, <1>2, <1>3, <1>4, <1>5, <1>6

\* A restored generator that still holds the pending sample asks for the data
\* iterator only when it has added it.
Topped(u, at) == [u EXCEPT !.pc = "top", !.at = at]

ChatMatch(c, s, u) ==
    /\ ChatOk(u)
    /\ \/ s = u
       \/ /\ u.pc = "held"
          /\ \E at : s = Topped(u, at) /\ (c.streaming => at = u.at)

LEMMA ToppedFields ==
    ASSUME NEW u, IsChat(u), NEW at
    PROVE  /\ IsChat(Topped(u, at))
           /\ Topped(u, at).pc = "top" /\ Topped(u, at).idx = u.idx /\ Topped(u, at).at = at
           /\ Topped(u, at).epoch = u.epoch /\ Topped(u, at).inputs = u.inputs
           /\ Topped(u, at).labels = u.labels /\ Topped(u, at).positions = u.positions
           /\ Topped(u, at).pendingInputs = u.pendingInputs
           /\ Topped(u, at).pendingLabels = u.pendingLabels
<1> DEFINE s == Topped(u, at)
<1>1. s = ChatState("top", u.idx, at, u.epoch, u.inputs, u.labels, u.positions,
                    u.pendingInputs, u.pendingLabels)
  BY ChatTops DEF Topped
<1> HIDE DEF s
<1>2. /\ IsChat(s)
      /\ s.pc = "top" /\ s.idx = u.idx /\ s.at = at /\ s.epoch = u.epoch
      /\ s.inputs = u.inputs /\ s.labels = u.labels /\ s.positions = u.positions
      /\ s.pendingInputs = u.pendingInputs /\ s.pendingLabels = u.pendingLabels
  BY <1>1, ChatStateFields
<1> QED
  BY <1>2 DEF s

\* The operators of the module, of a source that is where u is.
LEMMA ChatReading ==
    ASSUME NEW i, NEW u, src[i] = u
    PROVE  /\ Chat!HasSample(i) <=> u.at < Num(config[i])
           /\ Chat!NextSample(i) = SampleAt(config[i], u)
           /\ \A count : Chat!Tokens(i, count) = TokensAt(config[i], u, count)
           /\ \A sample : Chat!Labels(i, sample) = ChatLabels(config[i], u, sample)
<1>1. Chat!HasSample(i) <=> u.at < Num(config[i])
  BY DEF Chat!HasSample, Chat!NumSamples, Num
<1>2. Chat!NextId(i) = IdAt(config[i], u)
  BY DEF Chat!NextId, Chat!SampleId, Chat!NumSamples, IdAt, Num
<1>3. Chat!NextSample(i) = SampleAt(config[i], u)
  BY <1>2 DEF Chat!NextSample, SampleAt
<1>4. \A count : Chat!Tokens(i, count) = TokensAt(config[i], u, count)
  BY <1>2 DEF Chat!Tokens, TokensAt
<1>5. \A sample : Chat!Labels(i, sample) = ChatLabels(config[i], u, sample)
  BY <1>4, Zenon DEF Chat!Labels, ChatLabels
<1> QED
  BY <1>1, <1>3, <1>4, <1>5

\* A step inside next() is the step of the uninterrupted source.
LEMMA ChatInner ==
    ASSUME NEW i, config[i] \in SourceType, NEW u, ChatMatch(config[i], src[i], u),
           Chat!ReadSample(i) \/ Chat!AddPending(i) \/ Chat!EndOfData(i)
    PROVE  /\ ChatOutcome(config[i], u) = "go"
           /\ src' = [src EXCEPT ![i] = ChatAfter(config[i], u)]
<1> DEFINE c == config[i]
           s == src[i]
<1>1. /\ IsChat(u) /\ u.idx \in Nat /\ u.at \in Nat
      /\ u.pc \in {"for", "yield", "held"}
      /\ u.pc = "held" => u.pendingInputs # <<>>
      /\ u.at = IF u.pendingInputs = <<>> THEN u.idx ELSE u.idx + 1
  BY DEF ChatMatch, ChatOk
<1>2. s.pc # "top" => s = u
  BY <1>1, ToppedFields DEF ChatMatch
<1>3. CASE Chat!ReadSample(i)
  <2>1. s.pc = "for" /\ s = u
    BY <1>2, <1>3 DEF Chat!ReadSample
  <2> DEFINE sample == SampleAt(c, u)
             more == TokensAt(c, u, sample.length - 1)
             labels == ChatLabels(c, u, sample)
             read == [u EXCEPT !.at = @ + 1]
  <2>2. /\ Chat!HasSample(i) <=> u.at < Num(c)
        /\ Chat!NextSample(i) = sample
        /\ Chat!Tokens(i, sample.length - 1) = more
        /\ Chat!Labels(i, sample) = labels
    BY <2>1, ChatReading
  <2>3. read.inputs = u.inputs
    <3>1. IsChat(u)
      BY <1>1
    <3>2. DOMAIN u = {"pc", "idx", "at", "epoch", "inputs", "labels", "positions",
                      "pendingInputs", "pendingLabels"}
      BY <3>1, ChatFields
    <3> QED
      BY <3>2
  <2>4. /\ Chat!HasSample(i)
        /\ \/ /\ Chat!Dropped(sample)
              /\ src' = [src EXCEPT ![i] = [read EXCEPT !.idx = @ + 1]]
           \/ /\ ~Chat!Dropped(sample)
              /\ Len(more) > SeqLen - Len(read.inputs) /\ read.inputs # <<>>
              /\ src' = [src EXCEPT ![i] =
                     [Chat!Padded(read) EXCEPT !.pendingInputs = more,
                                               !.pendingLabels = labels]]
           \/ /\ ~Chat!Dropped(sample)
              /\ Len(more) <= SeqLen - Len(read.inputs) \/ read.inputs = <<>>
              /\ src' = [src EXCEPT ![i] = Chat!Extended(read, more, labels)]
    BY <1>3, <2>1, <2>2, Zenon DEF Chat!ReadSample
  <2>5. ChatRead(c, u) =
          IF Chat!Dropped(sample)
          THEN [read EXCEPT !.idx = @ + 1]
          ELSE IF Len(more) > SeqLen - Len(u.inputs) /\ u.inputs # <<>>
          THEN [Chat!Padded(read) EXCEPT !.pendingInputs = more, !.pendingLabels = labels]
          ELSE Chat!Extended(read, more, labels)
    BY DEF ChatRead
  <2> DEFINE x == [read EXCEPT !.idx = @ + 1]
             y == [Chat!Padded(read) EXCEPT !.pendingInputs = more, !.pendingLabels = labels]
             z == Chat!Extended(read, more, labels)
             d == Chat!Dropped(sample)
             fits == Len(more) <= SeqLen - Len(u.inputs)
  <2>6. Len(more) > SeqLen - Len(u.inputs) <=> ~fits
    <3>1. u.inputs \in Seq(ChatToken) /\ u.epoch \in Nat
      BY DEF ChatMatch, ChatOk
    <3>2. sample.length - 1 \in Int
      <4>1. sample \in [length : Nat, prompt : Nat]
        BY <1>1, <2>2, <2>4, <3>1, SampleTyped
      <4> HIDE DEF sample
      <4> QED
        BY <4>1
    <3>3. more \in Seq(ChatToken)
      <4> HIDE DEF sample
      <4> QED
        BY <1>1, <2>2, <2>4, <3>1, <3>2, ChatTokensTyped
    <3> HIDE DEF more
    <3>4. SeqLen \in Nat /\ Len(more) \in Nat /\ Len(u.inputs) \in Nat
      BY <3>1, <3>3, DatasetAssumption, LenProperties
    <3> QED
      BY <3>4
  <2> HIDE DEF x, y, z, sample, more, labels, read, d, fits
  <2>7. src' = [src EXCEPT ![i] = ChatRead(c, u)]
    BY <2>3, <2>4, <2>5, <2>6 DEF x, y, z, d, fits
  <2>8. u.at < Num(c) /\ u.pc = "for"
    BY <2>1, <2>2, <2>4
  <2> QED
    BY <2>7, <2>8 DEF ChatAfter, ChatOutcome
<1>4. CASE Chat!AddPending(i)
  <2> DEFINE cleared(w) == [w EXCEPT !.pendingInputs = <<>>, !.pendingLabels = <<>>]
             added(w) == Chat!Extended(cleared(w), w.pendingInputs, w.pendingLabels)
             next == IF s.pc = "top" THEN Chat!ResumePosition(i, added(s)) ELSE added(s).at
  <2>1. /\ s.pc \in {"held", "top"}
        /\ src' = [src EXCEPT ![i] = [added(s) EXCEPT !.at = next]]
    BY <1>4, Zenon DEF Chat!AddPending
  <2>2. u.pc = "held" /\ (s = u \/ \E at : s = Topped(u, at) /\ (c.streaming => at = u.at))
    <3>1. s.pc \in {"held", "top"}
      BY <2>1
    <3>2. s = u \/ (u.pc = "held" /\ \E at : s = Topped(u, at) /\ (c.streaming => at = u.at))
      BY DEF ChatMatch
    <3>3. CASE s = u
      <4>1. u.pc = "held"
        BY <1>1, <3>1, <3>3
      <4> QED
        BY <3>3, <4>1
    <3>4. CASE s # u
      BY <3>2, <3>4
    <3> QED
      BY <3>3, <3>4
  <2>3. ASSUME NEW w, IsChat(w)
        PROVE  /\ IsChat(added(w))
               /\ \A at : [added(w) EXCEPT !.at = at] =
                    ChatState(IF Len(w.inputs \o w.pendingInputs) = SeqLen THEN "yield" ELSE "for",
                              w.idx + 1, at, w.epoch, w.inputs \o w.pendingInputs,
                              w.labels \o w.pendingLabels,
                              w.positions \o Range0(Len(w.pendingInputs)), <<>>, <<>>)
               /\ added(w) =
                    ChatState(IF Len(w.inputs \o w.pendingInputs) = SeqLen THEN "yield" ELSE "for",
                              w.idx + 1, w.at, w.epoch, w.inputs \o w.pendingInputs,
                              w.labels \o w.pendingLabels,
                              w.positions \o Range0(Len(w.pendingInputs)), <<>>, <<>>)
               /\ added(w).at = w.at /\ added(w).idx = w.idx + 1
    <3> DEFINE v == cleared(w)
               pc == IF Len(w.inputs \o w.pendingInputs) = SeqLen THEN "yield" ELSE "for"
               full == w.inputs \o w.pendingInputs
               l == w.labels \o w.pendingLabels
               p == w.positions \o Range0(Len(w.pendingInputs))
               x == added(w)
    <3>1. v = ChatState(w.pc, w.idx, w.at, w.epoch, w.inputs, w.labels, w.positions, <<>>, <<>>)
      BY <2>3, ChatForms
    <3> HIDE DEF v
    <3>2. /\ IsChat(v) /\ v.idx = w.idx /\ v.at = w.at /\ v.epoch = w.epoch
          /\ v.inputs = w.inputs /\ v.labels = w.labels /\ v.positions = w.positions
          /\ v.pendingInputs = <<>> /\ v.pendingLabels = <<>>
      BY <3>1, ChatStateFields
    <3>3. x = Chat!Extended(v, w.pendingInputs, w.pendingLabels)
      BY DEF v
    <3> HIDE DEF x
    <3>4. x = ChatState(IF Len(v.inputs \o w.pendingInputs) = SeqLen THEN "yield" ELSE "for",
                        v.idx + 1, v.at, v.epoch, v.inputs \o w.pendingInputs,
                        v.labels \o w.pendingLabels,
                        v.positions \o Range0(Len(w.pendingInputs)),
                        v.pendingInputs, v.pendingLabels)
      <4>1. IsChat(v)
        BY <3>2
      <4> QED
        BY <3>3, <4>1, ChatExtended
    <3>5. x = ChatState(pc, w.idx + 1, w.at, w.epoch, full, l, p, <<>>, <<>>)
      BY <3>2, <3>4
    <3> HIDE DEF pc, full, l, p
    <3>6. /\ IsChat(x) /\ x.pc = pc /\ x.idx = w.idx + 1 /\ x.at = w.at /\ x.epoch = w.epoch
          /\ x.inputs = full /\ x.labels = l /\ x.positions = p
          /\ x.pendingInputs = <<>> /\ x.pendingLabels = <<>>
      BY <3>5, ChatStateFields
    <3>7. ASSUME NEW at
          PROVE  [x EXCEPT !.at = at] =
                    ChatState(pc, w.idx + 1, at, w.epoch, full, l, p, <<>>, <<>>)
      <4>1. [x EXCEPT !.at = at] =
              ChatState(x.pc, x.idx, at, x.epoch, x.inputs, x.labels, x.positions,
                        x.pendingInputs, x.pendingLabels)
        BY <3>6, ChatMoves
      <4> QED
        BY <3>6, <4>1
    <3> QED
      BY <3>5, <3>6, <3>7 DEF pc, full, l, p, x
  <2> HIDE DEF added
  <2>4. IsChat(s) /\ next = u.at /\ s.idx = u.idx /\ s.epoch = u.epoch /\ s.inputs = u.inputs
        /\ s.labels = u.labels /\ s.positions = u.positions
        /\ s.pendingInputs = u.pendingInputs /\ s.pendingLabels = u.pendingLabels
    <3>1. CASE s = u
      <4>1. s.pc = "held" /\ added(s).at = u.at
        BY <1>1, <2>2, <2>3, <3>1
      <4> QED
        BY <1>1, <3>1, <4>1
    <3>2. CASE \E at : s = Topped(u, at) /\ (c.streaming => at = u.at)
      <4>1. PICK at : s = Topped(u, at) /\ (c.streaming => at = u.at)
        BY <3>2
      <4>2. /\ IsChat(s) /\ s.pc = "top" /\ s.idx = u.idx /\ s.at = at
            /\ s.epoch = u.epoch /\ s.inputs = u.inputs
            /\ s.labels = u.labels /\ s.positions = u.positions
            /\ s.pendingInputs = u.pendingInputs /\ s.pendingLabels = u.pendingLabels
        BY <1>1, <4>1, ToppedFields
      <4>3. added(s).at = at /\ added(s).idx = u.idx + 1
        <5>1. IsChat(s)
          BY <4>2
        <5>2. added(s).at = s.at /\ added(s).idx = s.idx + 1
          BY <2>3, <5>1, Zenon
        <5> QED
          BY <4>2, <5>2
      <4>4. u.at = u.idx + 1
        BY <1>1, <2>2
      <4>5. next = IF c.streaming THEN added(s).at ELSE added(s).idx
        BY <4>2 DEF Chat!ResumePosition
      <4>6. next = u.at
        BY <4>1, <4>3, <4>4, <4>5
      <4> QED
        BY <4>2, <4>6
    <3> QED
      BY <2>2, <3>1, <3>2
  <2> HIDE DEF next
  <2>5. [added(s) EXCEPT !.at = next] = added(u)
    <3>1. [added(s) EXCEPT !.at = next] =
                    ChatState(IF Len(s.inputs \o s.pendingInputs) = SeqLen THEN "yield" ELSE "for",
                              s.idx + 1, next, s.epoch, s.inputs \o s.pendingInputs,
                              s.labels \o s.pendingLabels,
                              s.positions \o Range0(Len(s.pendingInputs)), <<>>, <<>>)
      BY <2>3, <2>4
    <3>2. added(u) =
                    ChatState(IF Len(u.inputs \o u.pendingInputs) = SeqLen THEN "yield" ELSE "for",
                              u.idx + 1, u.at, u.epoch, u.inputs \o u.pendingInputs,
                              u.labels \o u.pendingLabels,
                              u.positions \o Range0(Len(u.pendingInputs)), <<>>, <<>>)
      BY <2>3, <1>1
    <3> QED
      BY <3>1, <3>2, <2>4, Zenon
  <2>6. ChatAfter(c, u) = added(u) /\ ChatOutcome(c, u) = "go"
    BY <2>2 DEF ChatAfter, ChatOutcome, added
  <2> QED
    BY <2>1, <2>5, <2>6
<1>5. CASE Chat!EndOfData(i)
  <2>1. s = u /\ s.pc = "for"
    BY <1>2, <1>5 DEF Chat!EndOfData, Chat!AtEnd
  <2>2. Chat!HasSample(i) <=> u.at < Num(c)
    BY <2>1, ChatReading
  <2>3. Chat!Relooped(u) = Relooped(u)
    BY Zenon DEF Chat!Relooped, Relooped
  <2>4. /\ ~(u.at < Num(c))
        /\ \/ u.inputs # <<>> /\ src' = [src EXCEPT ![i] = Chat!Padded(u)]
           \/ u.inputs = <<>> /\ c.infinite /\ src' = [src EXCEPT ![i] = Relooped(u)]
    BY <1>5, <2>1, <2>2, <2>3, Zenon DEF Chat!EndOfData, Chat!AtEnd
  <2> QED
    BY <2>1, <2>4, Zenon DEF ChatAfter, ChatOutcome
<1> QED
  BY <1>3, <1>4, <1>5

\* So is a row, ...
LEMMA ChatYields ==
    ASSUME NEW i, NEW u, ChatMatch(config[i], src[i], u), Chat!Yield(i)
    PROVE  /\ ChatOutcome(config[i], u) = "row"
           /\ Chat!Row(i) = ChatRowOf(i, u)
           /\ src' = [src EXCEPT ![i] = ChatAfter(config[i], u)]
<1>1. IsChat(u)
  BY DEF ChatMatch, ChatOk
<1>2. src[i].pc = "yield"
  BY DEF Chat!Yield
<1>3. src[i] = u /\ u.pc = "yield"
  BY <1>1, <1>2, ToppedFields DEF ChatMatch
<1>4. ChatOutcome(config[i], u) = "row"
  BY <1>3 DEF ChatOutcome
<1>5. Chat!Row(i) = ChatRowOf(i, u)
  BY <1>3, Zenon DEF Chat!Row, ChatRowOf
<1>6. src' = [src EXCEPT ![i] = ChatAfter(config[i], u)]
  BY <1>3, Zenon DEF Chat!Yield, ChatAfter
<1> QED
  BY <1>4, <1>5, <1>6

\* ... and the end.
LEMMA ChatStops ==
    ASSUME NEW i, NEW u, ChatMatch(config[i], src[i], u), Chat!StopsIteration(i)
    PROVE  /\ ChatOutcome(config[i], u) = "stop"
           /\ Relooped(src[i]) = ChatAfter(config[i], u)
<1>1. IsChat(u)
  BY DEF ChatMatch, ChatOk
<1>2. src[i].pc = "for" /\ src[i].inputs = <<>> /\ ~Chat!HasSample(i) /\ ~config[i].infinite
  BY DEF Chat!StopsIteration, Chat!AtEnd
<1>3. src[i] = u /\ u.pc = "for"
  BY <1>1, <1>2, ToppedFields DEF ChatMatch
<1>4. ~(u.at < Num(config[i]))
  BY <1>2, <1>3, ChatReading
<1>5. ChatOutcome(config[i], u) = "stop"
  BY <1>2, <1>3, <1>4 DEF ChatOutcome
<1>6. ChatAfter(config[i], u) = Relooped(u)
  BY <1>2, <1>3, <1>4 DEF ChatAfter
<1> QED
  BY <1>3, <1>5, <1>6

\* A chat source between two of its rows, once restored.
LEMMA ChatRestores ==
    ASSUME NEW i, NEW u, ChatMatch(config[i], src[i], u), u.pc # "yield"
    PROVE  ChatMatch(config[i], Chat!Restored(i, Chat!StateDict(i)), u)
<1> DEFINE c == config[i]
           s == src[i]
           d == Chat!StateDict(i)
           r == Chat!Restored(i, d)
           at == Chat!ResumePosition(i, d)
           pc == IF u.pendingInputs # <<>> THEN "top" ELSE "for"
<1>1. /\ IsChat(u)
      /\ u.pc \in {"for", "yield", "held"}
      /\ u.pc = "held" => u.pendingInputs # <<>>
      /\ u.pc = "for" => u.pendingInputs = <<>>
      /\ u.at = IF u.pendingInputs = <<>> THEN u.idx ELSE u.idx + 1
  BY DEF ChatMatch, ChatOk
<1>2. /\ IsChat(s) /\ s.idx = u.idx /\ s.epoch = u.epoch /\ s.inputs = u.inputs
      /\ s.labels = u.labels /\ s.positions = u.positions
      /\ s.pendingInputs = u.pendingInputs /\ s.pendingLabels = u.pendingLabels
      /\ c.streaming => s.at = u.at
  <2>1. CASE s = u
    BY <2>1, <1>1
  <2>2. CASE \E a : s = Topped(u, a) /\ (c.streaming => a = u.at)
    <3>1. PICK a : s = Topped(u, a) /\ (c.streaming => a = u.at)
      BY <2>2
    <3> QED
      BY <3>1, <1>1, ToppedFields
  <2> QED
    BY <2>1, <2>2 DEF ChatMatch
<1>3. /\ d.idx = s.idx /\ d.at = s.at /\ d.epoch = s.epoch /\ d.inputs = s.inputs
      /\ d.labels = s.labels /\ d.positions = s.positions
      /\ d.pendingInputs = s.pendingInputs /\ d.pendingLabels = s.pendingLabels
  <2>1. DOMAIN s = {"pc", "idx", "at", "epoch", "inputs", "labels", "positions",
                    "pendingInputs", "pendingLabels"}
    BY <1>2, ChatFields
  <2> QED
    BY <2>1 DEF Chat!StateDict
<1> HIDE DEF d
<1>4. r = ChatState(IF d.pendingInputs # <<>> THEN "top" ELSE "for", d.idx, at, d.epoch, d.inputs,
                    d.labels, d.positions, d.pendingInputs, d.pendingLabels)
  BY Zenon DEF Chat!Restored, ChatState
<1> HIDE DEF r, at
<1>5. r = ChatState(pc, u.idx, at, u.epoch, u.inputs, u.labels, u.positions,
                    u.pendingInputs, u.pendingLabels)
  BY <1>2, <1>3, <1>4, Zenon
<1>6. at = IF c.streaming THEN d.at ELSE d.idx
  BY DEF at, Chat!ResumePosition
<1>7. CASE u.pc = "for"
  <2>1. pc = "for" /\ at = u.at
    BY <1>1, <1>2, <1>3, <1>6, <1>7
  <2>2. u = ChatState(u.pc, u.idx, u.at, u.epoch, u.inputs, u.labels, u.positions,
                      u.pendingInputs, u.pendingLabels)
    BY <1>1 DEF IsChat
  <2>3. r = u
    BY <1>5, <1>7, <2>1, <2>2, Zenon
  <2> QED
    BY <2>3 DEF ChatMatch, r, d
<1>8. CASE u.pc = "held"
  <2>1. pc = "top"
    BY <1>1, <1>8
  <2>2. Topped(u, at) = ChatState("top", u.idx, at, u.epoch, u.inputs, u.labels, u.positions,
                                  u.pendingInputs, u.pendingLabels)
    BY <1>1, ChatTops DEF Topped
  <2>3. r = Topped(u, at)
    BY <1>5, <2>1, <2>2, Zenon
  <2>4. c.streaming => at = u.at
    BY <1>2, <1>3, <1>6
  <2> HIDE DEF pc
  <2> QED
    BY <1>8, <2>3, <2>4 DEF ChatMatch, r, d
<1> QED
  BY <1>1, <1>7, <1>8

-----------------------------------------------------------------------------
(* Multimodal: a source is where the uninterrupted run has it, but for the *)
(* phase in which a restored generator has yet to find the data exhausted. *)

Doc == {d \in Seq(Token) : Len(d) <= SeqLen}

MMState(pc, idx, at, epoch, buffer, packed, batch) ==
    [pc |-> pc, idx |-> idx, at |-> at, epoch |-> epoch, buffer |-> buffer, packed |-> packed,
     batch |-> batch]

IsMM(s) == s = MMState(s.pc, s.idx, s.at, s.epoch, s.buffer, s.packed, s.batch)

\* The scan as a recurrence.
LEMMA ScanRuns ==
    ASSUME NEW buffer, Len(buffer) \in Nat
    PROVE  \E f : /\ MM!Scan(buffer) = f[Len(buffer)]
                  /\ f[0] = ScanInit
                  /\ \A n \in 1 .. Len(buffer) : f[n] = ScanStep(f[n - 1], buffer[n])
<1> DEFINE p == [what |-> "scan", source |-> buffer]
           h == RunOf(p)
           last == Len(buffer)
           Scans(f) == f = [n \in 0 .. Len(buffer) |->
                            IF n = 0 THEN [picked |-> <<>>, length |-> 0, rest |-> <<>>]
                            ELSE LET s == f[n - 1]
                                     doc == buffer[n]
                                 IN  IF s.length + Len(doc) <= SeqLen
                                     THEN [s EXCEPT !.picked = Append(@, doc),
                                                    !.length = @ + Len(doc)]
                                     ELSE [s EXCEPT !.rest = Append(@, doc)]]
           Recurs(f) == f = [n \in 0 .. last |->
                             IF n = 0 THEN ScanInit ELSE ScanStep(f[n - 1], buffer[n])]
           scan == CHOOSE f : Scans(f)
<1>1. MM!Scan(buffer) = scan[Len(buffer)]
  BY Zenon DEF MM!Scan
<1>2. \A f : Scans(f) <=> Recurs(f)
  BY Zenon DEF ScanInit, ScanStep
<1>3. h[0] = Start(p) /\ \A n \in Nat : h[n + 1] = Step(p, h[n])
  BY RunExists DEF Runs
<1>4. p.what = "scan" /\ p.source = buffer
  OBVIOUS
<1> HIDE DEF p, h
<1>5. h[0] = [at |-> 0, value |-> ScanInit]
  BY <1>3, <1>4 DEF Start
<1>6. \A n \in Nat : h[n + 1] = [at |-> h[n].at + 1,
                                 value |-> ScanStep(h[n].value, buffer[h[n].at + 1])]
  BY <1>3, <1>4 DEF Step
<1>7. \A n \in Nat : h[n].at = n
  <2> DEFINE T == {n \in Nat : h[n].at = n}
  <2>1. 0 \in T
    BY <1>5
  <2>2. ASSUME NEW n \in Nat, n \in T
        PROVE  n + 1 \in T
    <3>1. h[n].at = n /\ n + 1 \in Nat
      BY <2>2
    <3>2. h[n + 1].at = n + 1
      <4> DEFINE x == h[n].at
                 y == h[n + 1]
      <4>1. y = [at |-> x + 1, value |-> ScanStep(h[n].value, buffer[x + 1])] /\ x = n
        BY <1>6, <3>1
      <4> HIDE DEF x, y
      <4>2. y.at = n + 1
        BY <4>1
      <4> QED
        BY <4>2 DEF y
    <3> QED
      BY <3>1, <3>2
  <2> HIDE DEF T
  <2>3. Nat \subseteq T
    BY <2>1, <2>2, NatInductionSet
  <2> QED
    BY <2>3 DEF T
<1> DEFINE g == [n \in 0 .. last |-> h[n].value]
<1> HIDE DEF scan
<1>8. Recurs(g)
  <2>1. g[0] = ScanInit
    BY <1>5
  <2>2. ASSUME NEW n \in 0 .. last, n # 0
        PROVE  g[n] = ScanStep(g[n - 1], buffer[n])
    <3>1. n - 1 \in Nat /\ n - 1 \in 0 .. last /\ (n - 1) + 1 = n
      BY <2>2
    <3>2. h[n].value = ScanStep(h[n - 1].value, buffer[n])
      <4> DEFINE m == n - 1
      <4>1. m \in Nat /\ m + 1 = n
        BY <3>1
      <4> HIDE DEF m
      <4>2. h[m + 1].value = ScanStep(h[m].value, buffer[h[m].at + 1])
        <5> DEFINE y == h[m + 1]
                   v == ScanStep(h[m].value, buffer[h[m].at + 1])
        <5>1. y = [at |-> h[m].at + 1, value |-> v]
          BY <1>6, <4>1
        <5> HIDE DEF y, v
        <5>2. y.value = v
          BY <5>1
        <5> QED
          BY <5>2 DEF y, v
      <4>3. h[m].at = m
        BY <1>7, <4>1
      <4> QED
        BY <4>1, <4>2, <4>3 DEF m
    <3> QED
      BY <3>1, <3>2
  <2>3. \A n \in 0 .. last : g[n] = IF n = 0 THEN ScanInit ELSE ScanStep(g[n - 1], buffer[n])
    BY <2>1, <2>2
  <2>4. g = [n \in 0 .. last |-> g[n]]
    OBVIOUS
  <2> HIDE DEF g
  <2>5. [n \in 0 .. last |-> g[n]] =
          [n \in 0 .. last |-> IF n = 0 THEN ScanInit ELSE ScanStep(g[n - 1], buffer[n])]
    BY <2>3
  <2> QED
    BY <2>4, <2>5
<1> HIDE DEF g, Recurs, Scans
<1>9. Scans(scan)
  BY <1>2, <1>8 DEF scan
<1>10. Recurs(scan)
  BY <1>2, <1>9
<1>11. /\ scan[0] = ScanInit
       /\ \A n \in 1 .. Len(buffer) : scan[n] = ScanStep(scan[n - 1], buffer[n])
  <2>1. \A n \in 0 .. last : scan[n] = IF n = 0 THEN ScanInit ELSE ScanStep(scan[n - 1], buffer[n])
    BY <1>10 DEF Recurs
  <2>2. 0 \in 0 .. last /\ \A n \in 1 .. last : n \in 0 .. last /\ n # 0
    OBVIOUS
  <2> QED
    BY <2>1, <2>2
<1> QED
  BY <1>1, <1>11

\* What a scan leaves in the buffer is less: the first document always fits.
LEMMA ScanShrinks ==
    ASSUME NEW buffer \in Seq(Doc), buffer # <<>>
    PROVE  /\ MM!Scan(buffer).rest \in Seq(Doc)
           /\ Len(MM!Scan(buffer).rest) <= Len(buffer) - 1
<1>1. Len(buffer) \in Nat /\ Len(buffer) # 0 /\ SeqLen \in Nat
  BY DatasetAssumption, LenProperties, EmptySeq
<1>2. PICK f : /\ MM!Scan(buffer) = f[Len(buffer)]
               /\ f[0] = ScanInit
               /\ \A n \in 1 .. Len(buffer) : f[n] = ScanStep(f[n - 1], buffer[n])
  BY <1>1, ScanRuns
<1> DEFINE Good(s, n) == /\ DOMAIN s = {"picked", "length", "rest"}
                         /\ s.length \in Nat
                         /\ s.rest \in Seq(Doc)
                         /\ n = 0 => s.length = 0 /\ Len(s.rest) = 0
                         /\ n # 0 => Len(s.rest) <= n - 1
           T == {n \in Nat : n <= Len(buffer) => Good(f[n], n)}
<1>3. 0 \in T
  <2>1. DOMAIN ScanInit = {"picked", "length", "rest"} /\ ScanInit.length = 0
        /\ ScanInit.rest = <<>>
    BY DEF ScanInit
  <2>2. <<>> \in Seq(Doc) /\ Len(<<>>) = 0
    BY EmptySeq
  <2>3. Good(ScanInit, 0)
    BY <2>1, <2>2
  <2> QED
    BY <1>2, <2>3
<1>4. ASSUME NEW n \in Nat, n \in T
      PROVE  n + 1 \in T
  <2> SUFFICES ASSUME n + 1 <= Len(buffer)
               PROVE  Good(f[n + 1], n + 1)
    OBVIOUS
  <2> DEFINE m == n + 1
             s == f[n]
             doc == buffer[m]
  <2>1. m \in 1 .. Len(buffer) /\ m - 1 = n /\ n <= Len(buffer) /\ m # 0
    BY <1>1
  <2>2. Good(s, n)
    BY <1>4, <2>1
  <2>3. doc \in Doc
    BY <2>1, ElementOfSeq
  <2>4. doc \in Seq(Token) /\ Len(doc) <= SeqLen /\ Len(doc) \in Nat
    BY <2>3, LenProperties DEF Doc
  <2>5. f[m] = ScanStep(s, doc)
    BY <1>2, <2>1
  <2> HIDE DEF m, s, doc
  <2>6. Len(s.rest) \in Nat
    BY <2>2, LenProperties
  <2>7. CASE s.length + Len(doc) <= SeqLen
    <3> DEFINE picked == Append(s.picked, doc)
               length == s.length + Len(doc)
    <3>1. f[m] = [s EXCEPT !.picked = picked, !.length = length]
      BY <2>5, <2>7 DEF ScanStep
    <3>2. length \in Nat
      BY <2>2, <2>4
    <3> HIDE DEF picked, length
    <3>3. DOMAIN f[m] = {"picked", "length", "rest"} /\ f[m].length = length
          /\ f[m].rest = s.rest
      BY <2>2, <3>1
    <3>4. Len(s.rest) <= m - 1
      BY <2>1, <2>2, <2>6
    <3>5. Good(f[m], m)
      BY <2>1, <2>2, <3>2, <3>3, <3>4
    <3> QED
      BY <3>5 DEF m
  <2>8. CASE ~(s.length + Len(doc) <= SeqLen)
    <3> DEFINE rest == Append(s.rest, doc)
    <3>1. f[m] = [s EXCEPT !.rest = rest]
      BY <2>5, <2>8 DEF ScanStep
    <3>2. rest \in Seq(Doc) /\ Len(rest) = Len(s.rest) + 1
      BY <2>2, <2>3, AppendProperties
    <3> HIDE DEF rest
    <3>3. DOMAIN f[m] = {"picked", "length", "rest"} /\ f[m].length = s.length
          /\ f[m].rest = rest
      BY <2>2, <3>1
    <3>4. n # 0
      BY <2>2, <2>4, <2>8, <1>1
    <3>5. Len(rest) <= m - 1
      BY <2>1, <2>2, <2>6, <3>2, <3>4
    <3>6. Good(f[m], m)
      BY <2>1, <2>2, <3>2, <3>3, <3>5
    <3> QED
      BY <3>6 DEF m
  <2> QED
    BY <2>7, <2>8
<1> HIDE DEF T
<1>5. Nat \subseteq T
  BY <1>3, <1>4, NatInductionSet
<1>6. Len(buffer) \in T
  BY <1>1, <1>5
<1>7. Good(f[Len(buffer)], Len(buffer))
  BY <1>6, <1>1 DEF T
<1> QED
  BY <1>1, <1>2, <1>7

\* The packing as a recurrence.
LEMMA PackRuns ==
    ASSUME NEW s, NEW flush, Len(s.buffer) \in Nat
    PROVE  \E f : /\ MM!Packed(s, flush) = f[Len(s.buffer)]
                  /\ f[0] = s
                  /\ \A n \in 1 .. Len(s.buffer) : f[n] = PackStep(f[n - 1], flush)
<1> DEFINE p == [what |-> "pack", source |-> s, flush |-> flush]
           h == RunOf(p)
           last == Len(s.buffer)
           Packs(f) == f = [n \in 0 .. Len(s.buffer) |->
                            IF n = 0 THEN s
                            ELSE LET r == f[n - 1]
                                     row == MM!Scan(r.buffer)
                                 IN  IF r.buffer # <<>> /\ (flush \/ row.length = SeqLen)
                                     THEN [r EXCEPT !.buffer = row.rest,
                                                    !.packed = Append(@, row.picked)]
                                     ELSE r]
           Recurs(f) == f = [n \in 0 .. last |->
                             IF n = 0 THEN s ELSE PackStep(f[n - 1], flush)]
           pack == CHOOSE f : Packs(f)
<1>1. MM!Packed(s, flush) = pack[Len(s.buffer)]
  BY Zenon DEF MM!Packed
<1>2. \A f : Packs(f) <=> Recurs(f)
  BY Zenon DEF PackStep
<1>3. h[0] = Start(p) /\ \A n \in Nat : h[n + 1] = Step(p, h[n])
  BY RunExists DEF Runs
<1>4. p.what = "pack" /\ p.source = s /\ p.flush = flush
  OBVIOUS
<1> HIDE DEF p, h
<1>5. h[0] = s /\ \A n \in Nat : h[n + 1] = PackStep(h[n], flush)
  BY <1>3, <1>4 DEF Start, Step
<1> DEFINE g == [n \in 0 .. last |-> h[n]]
<1> HIDE DEF pack
<1>6. Recurs(g)
  <2>1. g[0] = s
    BY <1>5
  <2>2. ASSUME NEW n \in 0 .. last, n # 0
        PROVE  g[n] = PackStep(g[n - 1], flush)
    <3> DEFINE m == n - 1
    <3>1. m \in Nat /\ m \in 0 .. last /\ m + 1 = n
      BY <2>2
    <3> HIDE DEF m
    <3>2. g[n] = h[n] /\ g[m] = h[m] /\ h[m + 1] = PackStep(h[m], flush)
      BY <1>5, <3>1
    <3>3. g[n] = PackStep(g[m], flush)
      BY <3>1, <3>2
    <3> QED
      BY <3>3 DEF m
  <2>3. \A n \in 0 .. last : g[n] = IF n = 0 THEN s ELSE PackStep(g[n - 1], flush)
    BY <2>1, <2>2
  <2>4. g = [n \in 0 .. last |-> g[n]]
    OBVIOUS
  <2> HIDE DEF g
  <2>5. [n \in 0 .. last |-> g[n]] =
          [n \in 0 .. last |-> IF n = 0 THEN s ELSE PackStep(g[n - 1], flush)]
    BY <2>3
  <2> QED
    BY <2>4, <2>5
<1> HIDE DEF g, Recurs, Packs
<1>7. Packs(pack)
  BY <1>2, <1>6 DEF pack
<1>8. Recurs(pack)
  BY <1>2, <1>7
<1>9. /\ pack[0] = s
      /\ \A n \in 1 .. Len(s.buffer) : pack[n] = PackStep(pack[n - 1], flush)
  <2>1. \A n \in 0 .. last : pack[n] = IF n = 0 THEN s ELSE PackStep(pack[n - 1], flush)
    BY <1>8 DEF Recurs
  <2>2. 0 \in 0 .. last /\ \A n \in 1 .. last : n \in 0 .. last /\ n # 0
    OBVIOUS
  <2> QED
    BY <2>1, <2>2
<1> QED
  BY <1>1, <1>9

\* A function of the fields of a multimodal dataset is the record of their values.
LEMMA MMIs ==
    ASSUME NEW r, r = [f \in DOMAIN r |-> r[f]],
           DOMAIN r = {"pc", "idx", "at", "epoch", "buffer", "packed", "batch"}
    PROVE  r = MMState(r.pc, r.idx, r.at, r.epoch, r.buffer, r.packed, r.batch)
<1> DEFINE t == MMState(r.pc, r.idx, r.at, r.epoch, r.buffer, r.packed, r.batch)
<1>1. DOMAIN t = DOMAIN r /\ t = [f \in DOMAIN t |-> t[f]]
  BY DEF MMState
<1>2. \A f \in DOMAIN r : t[f] = r[f]
  BY DEF MMState
<1> HIDE DEF t
<1>3. [f \in DOMAIN r |-> r[f]] = [f \in DOMAIN t |-> t[f]]
  BY <1>1, <1>2
<1>4. t = r
  BY <1>1, <1>3
<1> QED
  BY <1>4 DEF t

LEMMA MMFields ==
    ASSUME NEW s, IsMM(s)
    PROVE  DOMAIN s = {"pc", "idx", "at", "epoch", "buffer", "packed", "batch"}
BY DEF IsMM, MMState

LEMMA MMStateFields ==
    ASSUME NEW pc, NEW idx, NEW at, NEW epoch, NEW buffer, NEW packed, NEW batch, NEW s,
           s = MMState(pc, idx, at, epoch, buffer, packed, batch)
    PROVE  /\ IsMM(s)
           /\ s.pc = pc /\ s.idx = idx /\ s.at = at /\ s.epoch = epoch
           /\ s.buffer = buffer /\ s.packed = packed /\ s.batch = batch
BY DEF IsMM, MMState

\* The updates the code makes of it.
LEMMA MMAdvanced ==
    ASSUME NEW s, IsMM(s)
    PROVE  [s EXCEPT !.at = @ + 1, !.idx = @ + 1] =
             MMState(s.pc, s.idx + 1, s.at + 1, s.epoch, s.buffer, s.packed, s.batch)
<1>0. DOMAIN s = {"pc", "idx", "at", "epoch", "buffer", "packed", "batch"}
  BY MMFields
<1> DEFINE r == [s EXCEPT !.at = @ + 1, !.idx = @ + 1]
<1>1. r = [f \in DOMAIN r |-> r[f]] /\ DOMAIN r = DOMAIN s
  BY <1>0
<1>2. /\ r.pc = s.pc
      /\ r.idx = s.idx + 1
      /\ r.at = s.at + 1
      /\ r.epoch = s.epoch
      /\ r.buffer = s.buffer
      /\ r.packed = s.packed
      /\ r.batch = s.batch
  BY <1>0
<1> HIDE DEF r
<1>3. r = MMState(r.pc, r.idx, r.at, r.epoch, r.buffer, r.packed, r.batch)
  BY <1>0, <1>1, MMIs
<1> QED
  BY <1>2, <1>3 DEF r

LEMMA MMReset ==
    ASSUME NEW s, IsMM(s)
    PROVE  [s EXCEPT !.idx = 0, !.at = 0, !.pc = "for"] =
             MMState("for", 0, 0, s.epoch, s.buffer, s.packed, s.batch)
<1>0. DOMAIN s = {"pc", "idx", "at", "epoch", "buffer", "packed", "batch"}
  BY MMFields
<1> DEFINE r == [s EXCEPT !.idx = 0, !.at = 0, !.pc = "for"]
<1>1. r = [f \in DOMAIN r |-> r[f]] /\ DOMAIN r = DOMAIN s
  BY <1>0
<1>2. /\ r.pc = "for"
      /\ r.idx = 0
      /\ r.at = 0
      /\ r.epoch = s.epoch
      /\ r.buffer = s.buffer
      /\ r.packed = s.packed
      /\ r.batch = s.batch
  BY <1>0
<1> HIDE DEF r
<1>3. r = MMState(r.pc, r.idx, r.at, r.epoch, r.buffer, r.packed, r.batch)
  BY <1>0, <1>1, MMIs
<1> QED
  BY <1>2, <1>3 DEF r

LEMMA MMTurned ==
    ASSUME NEW s, IsMM(s), NEW a
    PROVE  [s EXCEPT !.pc = a] =
             MMState(a, s.idx, s.at, s.epoch, s.buffer, s.packed, s.batch)
<1>0. DOMAIN s = {"pc", "idx", "at", "epoch", "buffer", "packed", "batch"}
  BY MMFields
<1> DEFINE r == [s EXCEPT !.pc = a]
<1>1. r = [f \in DOMAIN r |-> r[f]] /\ DOMAIN r = DOMAIN s
  BY <1>0
<1>2. /\ r.pc = a
      /\ r.idx = s.idx
      /\ r.at = s.at
      /\ r.epoch = s.epoch
      /\ r.buffer = s.buffer
      /\ r.packed = s.packed
      /\ r.batch = s.batch
  BY <1>0
<1> HIDE DEF r
<1>3. r = MMState(r.pc, r.idx, r.at, r.epoch, r.buffer, r.packed, r.batch)
  BY <1>0, <1>1, MMIs
<1> QED
  BY <1>2, <1>3 DEF r

LEMMA MMBuffered ==
    ASSUME NEW s, IsMM(s), NEW a
    PROVE  [s EXCEPT !.buffer = a] =
             MMState(s.pc, s.idx, s.at, s.epoch, a, s.packed, s.batch)
<1>0. DOMAIN s = {"pc", "idx", "at", "epoch", "buffer", "packed", "batch"}
  BY MMFields
<1> DEFINE r == [s EXCEPT !.buffer = a]
<1>1. r = [f \in DOMAIN r |-> r[f]] /\ DOMAIN r = DOMAIN s
  BY <1>0
<1>2. /\ r.pc = s.pc
      /\ r.idx = s.idx
      /\ r.at = s.at
      /\ r.epoch = s.epoch
      /\ r.buffer = a
      /\ r.packed = s.packed
      /\ r.batch = s.batch
  BY <1>0
<1> HIDE DEF r
<1>3. r = MMState(r.pc, r.idx, r.at, r.epoch, r.buffer, r.packed, r.batch)
  BY <1>0, <1>1, MMIs
<1> QED
  BY <1>2, <1>3 DEF r

LEMMA MMBatched ==
    ASSUME NEW s, IsMM(s), NEW a
    PROVE  [s EXCEPT !.batch = a] =
             MMState(s.pc, s.idx, s.at, s.epoch, s.buffer, s.packed, a)
<1>0. DOMAIN s = {"pc", "idx", "at", "epoch", "buffer", "packed", "batch"}
  BY MMFields
<1> DEFINE r == [s EXCEPT !.batch = a]
<1>1. r = [f \in DOMAIN r |-> r[f]] /\ DOMAIN r = DOMAIN s
  BY <1>0
<1>2. /\ r.pc = s.pc
      /\ r.idx = s.idx
      /\ r.at = s.at
      /\ r.epoch = s.epoch
      /\ r.buffer = s.buffer
      /\ r.packed = s.packed
      /\ r.batch = a
  BY <1>0
<1> HIDE DEF r
<1>3. r = MMState(r.pc, r.idx, r.at, r.epoch, r.buffer, r.packed, r.batch)
  BY <1>0, <1>1, MMIs
<1> QED
  BY <1>2, <1>3 DEF r

LEMMA MMRepacked ==
    ASSUME NEW s, IsMM(s), NEW a, NEW b
    PROVE  [s EXCEPT !.buffer = a, !.packed = b] =
             MMState(s.pc, s.idx, s.at, s.epoch, a, b, s.batch)
<1>0. DOMAIN s = {"pc", "idx", "at", "epoch", "buffer", "packed", "batch"}
  BY MMFields
<1> DEFINE r == [s EXCEPT !.buffer = a, !.packed = b]
<1>1. r = [f \in DOMAIN r |-> r[f]] /\ DOMAIN r = DOMAIN s
  BY <1>0
<1>2. /\ r.pc = s.pc
      /\ r.idx = s.idx
      /\ r.at = s.at
      /\ r.epoch = s.epoch
      /\ r.buffer = a
      /\ r.packed = b
      /\ r.batch = s.batch
  BY <1>0
<1> HIDE DEF r
<1>3. r = MMState(r.pc, r.idx, r.at, r.epoch, r.buffer, r.packed, r.batch)
  BY <1>0, <1>1, MMIs
<1> QED
  BY <1>2, <1>3 DEF r

LEMMA MMHanded ==
    ASSUME NEW s, IsMM(s), NEW a, NEW b
    PROVE  [s EXCEPT !.batch = a, !.packed = b] =
             MMState(s.pc, s.idx, s.at, s.epoch, s.buffer, b, a)
<1>0. DOMAIN s = {"pc", "idx", "at", "epoch", "buffer", "packed", "batch"}
  BY MMFields
<1> DEFINE r == [s EXCEPT !.batch = a, !.packed = b]
<1>1. r = [f \in DOMAIN r |-> r[f]] /\ DOMAIN r = DOMAIN s
  BY <1>0
<1>2. /\ r.pc = s.pc
      /\ r.idx = s.idx
      /\ r.at = s.at
      /\ r.epoch = s.epoch
      /\ r.buffer = s.buffer
      /\ r.packed = b
      /\ r.batch = a
  BY <1>0
<1> HIDE DEF r
<1>3. r = MMState(r.pc, r.idx, r.at, r.epoch, r.buffer, r.packed, r.batch)
  BY <1>0, <1>1, MMIs
<1> QED
  BY <1>2, <1>3 DEF r

\* What packing does not touch.
Keeps(s, r) ==
    /\ IsMM(r)
    /\ r.pc = s.pc /\ r.idx = s.idx /\ r.at = s.at /\ r.epoch = s.epoch /\ r.batch = s.batch
    /\ r.buffer \in Seq(Doc)

\* One round of packing takes documents out of the buffer.
LEMMA PackStepKeeps ==
    ASSUME NEW s, IsMM(s), s.buffer \in Seq(Doc), NEW flush
    PROVE  /\ Keeps(s, PackStep(s, flush))
           /\ Len(PackStep(s, flush).buffer) <= Len(s.buffer)
           /\ flush /\ s.buffer # <<>> => Len(PackStep(s, flush).buffer) <= Len(s.buffer) - 1
           /\ s.buffer = <<>> => PackStep(s, flush) = s
<1> DEFINE row == MM!Scan(s.buffer)
           rest == row.rest
           packed == Append(s.packed, row.picked)
           more == flush \/ row.length = SeqLen
           r == PackStep(s, flush)
<1>1. Len(s.buffer) \in Nat
  BY LenProperties
<1>2. s.buffer # <<>> => rest \in Seq(Doc) /\ Len(rest) <= Len(s.buffer) - 1
  BY ScanShrinks
<1>3. IF s.buffer # <<>> /\ more THEN r = [s EXCEPT !.buffer = rest, !.packed = packed] ELSE r = s
  BY Zenon DEF PackStep
<1>4. flush => more
  OBVIOUS
<1> HIDE DEF row, rest, packed, r, more
<1>5. [s EXCEPT !.buffer = rest, !.packed = packed] =
        MMState(s.pc, s.idx, s.at, s.epoch, rest, packed, s.batch)
  BY MMRepacked
<1>6. CASE s.buffer # <<>> /\ more
  <2>1. r = MMState(s.pc, s.idx, s.at, s.epoch, rest, packed, s.batch)
    BY <1>3, <1>5, <1>6
  <2>2. /\ IsMM(r) /\ r.pc = s.pc /\ r.idx = s.idx /\ r.at = s.at /\ r.epoch = s.epoch
        /\ r.buffer = rest /\ r.batch = s.batch
    BY <2>1, MMStateFields
  <2>3. rest \in Seq(Doc) /\ Len(rest) <= Len(s.buffer) - 1
    BY <1>2, <1>6
  <2>4. Len(rest) \in Nat
    BY <2>3, LenProperties
  <2>5. Keeps(s, r)
    BY <2>2, <2>3 DEF Keeps
  <2>6. Len(r.buffer) <= Len(s.buffer) /\ Len(r.buffer) <= Len(s.buffer) - 1
    BY <2>2, <2>3, <2>4, <1>1
  <2> QED
    BY <2>5, <2>6, <1>6 DEF r
<1>7. CASE ~(s.buffer # <<>> /\ more)
  <2>1. r = s
    BY <1>3, <1>7
  <2>2. Keeps(s, r)
    BY <2>1 DEF Keeps
  <2>3. Len(r.buffer) <= Len(s.buffer)
    BY <2>1, <1>1
  <2> QED
    BY <2>1, <2>2, <2>3, <1>4, <1>7 DEF r
<1> QED
  BY <1>6, <1>7

\* A flush empties the buffer; packing what is empty changes nothing.
LEMMA PackedKeeps ==
    ASSUME NEW s, IsMM(s), s.buffer \in Seq(Doc), NEW flush
    PROVE  /\ Keeps(s, MM!Packed(s, flush))
           /\ flush => MM!Packed(s, flush).buffer = <<>>
           /\ s.buffer = <<>> => MM!Packed(s, flush) = s
<1> DEFINE last == Len(s.buffer)
<1>1. last \in Nat
  BY LenProperties
<1>2. PICK f : /\ MM!Packed(s, flush) = f[last]
               /\ f[0] = s
               /\ \A n \in 1 .. last : f[n] = PackStep(f[n - 1], flush)
  BY <1>1, PackRuns
<1> DEFINE Good(r, n) == /\ Keeps(s, r)
                         /\ Len(r.buffer) <= last
                         /\ flush => Len(r.buffer) <= last - n
           T == {n \in Nat : n <= last => Good(f[n], n)}
<1> HIDE DEF last
<1>3. 0 \in T
  <2>1. Keeps(s, s)
    BY DEF Keeps
  <2>2. Good(s, 0)
    BY <2>1, <1>1 DEF last
  <2> QED
    BY <2>2, <1>2
<1>4. ASSUME NEW n \in Nat, n \in T
      PROVE  n + 1 \in T
  <2> SUFFICES ASSUME n + 1 <= last
               PROVE  Good(f[n + 1], n + 1)
    OBVIOUS
  <2> DEFINE m == n + 1
             r == f[n]
             r2 == PackStep(r, flush)
  <2>1. m \in 1 .. last /\ m - 1 = n /\ n <= last
    BY <1>1
  <2>2. Good(r, n)
    BY <1>4, <2>1
  <2>3. f[m] = r2
    BY <1>2, <2>1
  <2> HIDE DEF r
  <2>4. IsMM(r) /\ r.buffer \in Seq(Doc) /\ Keeps(s, r)
    BY <2>2 DEF Keeps
  <2>5. Len(r.buffer) \in Nat
    BY <2>4, LenProperties
  <2>6. /\ Keeps(r, r2)
        /\ Len(r2.buffer) <= Len(r.buffer)
        /\ flush /\ r.buffer # <<>> => Len(r2.buffer) <= Len(r.buffer) - 1
        /\ r.buffer = <<>> => r2 = r
    BY <2>4, PackStepKeeps
  <2> HIDE DEF r2, m
  <2>7. Keeps(s, r2)
    BY <2>4, <2>6 DEF Keeps
  <2>8. Len(r2.buffer) \in Nat
    <3>1. r2.buffer \in Seq(Doc)
      BY <2>7 DEF Keeps
    <3> QED
      BY <3>1, LenProperties
  <2>9. Len(r2.buffer) <= last
    BY <2>2, <2>5, <2>6, <2>8, <1>1
  <2>10. flush => Len(r2.buffer) <= last - m
    <3> HAVE flush
    <3>1. CASE r.buffer # <<>>
      BY <3>1, <2>1, <2>2, <2>5, <2>6, <2>8, <1>1
    <3>2. CASE r.buffer = <<>>
      <4>1. Len(r2.buffer) = 0
        BY <3>2, <2>6, EmptySeq
      <4> QED
        BY <4>1, <2>1, <1>1
    <3> QED
      BY <3>1, <3>2
  <2>11. Good(f[m], m)
    BY <2>3, <2>7, <2>9, <2>10
  <2> QED
    BY <2>11 DEF m
<1> HIDE DEF T
<1>5. Nat \subseteq T
  BY <1>3, <1>4, NatInductionSet
<1>6. last \in T
  BY <1>1, <1>5
<1>7. Good(f[last], last)
  BY <1>6, <1>1 DEF T
<1>8. ASSUME flush
      PROVE  f[last].buffer = <<>>
  <2>1. f[last].buffer \in Seq(Doc) /\ Len(f[last].buffer) <= 0
    BY <1>1, <1>7, <1>8 DEF Keeps
  <2>2. Len(f[last].buffer) = 0
    BY <2>1, LenProperties
  <2> QED
    BY <2>1, <2>2, EmptySeq
<1>9. ASSUME s.buffer = <<>>
      PROVE  f[last] = s
  <2>1. last = 0
    BY <1>9, EmptySeq DEF last
  <2> QED
    BY <2>1, <1>2
<1> QED
  BY <1>2, <1>7, <1>8, <1>9

\* The states of a multimodal source of the uninterrupted run.
MMOk(c, u) ==
    /\ IsMM(u)
    /\ u.idx \in Nat /\ u.at = u.idx /\ u.epoch = 0
    /\ u.buffer \in Seq(Doc)
    /\ ~MM!EnablePacking => u.buffer = <<>>
    /\ u.pc \in {"for", "flush"}
    /\ u.pc = "flush" => u.buffer = <<>> /\ ~(u.at < Num(c))

LEMMA MMOkIntro ==
    ASSUME NEW c, NEW pc, NEW idx, NEW at, NEW epoch, NEW buffer, NEW packed, NEW batch,
           idx \in Nat, at = idx, epoch = 0, buffer \in Seq(Doc),
           ~MM!EnablePacking => buffer = <<>>,
           pc \in {"for", "flush"},
           pc = "flush" => buffer = <<>> /\ ~(at < Num(c))
    PROVE  MMOk(c, MMState(pc, idx, at, epoch, buffer, packed, batch))
<1> DEFINE s == MMState(pc, idx, at, epoch, buffer, packed, batch)
<1>1. /\ IsMM(s) /\ s.pc = pc /\ s.idx = idx /\ s.at = at /\ s.epoch = epoch /\ s.buffer = buffer
  BY MMStateFields
<1> HIDE DEF s
<1>2. MMOk(c, s)
  BY <1>1 DEF MMOk
<1> QED
  BY <1>2 DEF s

\* A fresh multimodal source.
LEMMA MMStarts ==
    ASSUME NEW c
    PROVE  MMOk(c, MM!Fresh)
<1>1. MM!Fresh = MMState("for", 0, 0, 0, <<>>, <<>>, <<>>)
  BY DEF MM!Fresh, MMState
<1>2. <<>> \in Seq(Doc)
  BY EmptySeq
<1>3. MMOk(c, MMState("for", 0, 0, 0, <<>>, <<>>, <<>>))
  BY <1>2, MMOkIntro
<1> QED
  BY <1>1, <1>3

LEMMA MMAdds ==
    ASSUME NEW s, IsMM(s), s.buffer \in Seq(Doc), NEW doc \in Doc
    PROVE  Keeps(s, MM!Added(s, doc))
<1> DEFINE buffer == Append(s.buffer, doc)
           grown == [s EXCEPT !.buffer = buffer]
<1>1. buffer \in Seq(Doc)
  BY AppendProperties
<1> HIDE DEF buffer
<1>2. grown = MMState(s.pc, s.idx, s.at, s.epoch, buffer, s.packed, s.batch)
  BY MMBuffered
<1>3. MM!Added(s, doc) = IF Len(grown.buffer) >= PackingBufferSize
                         THEN MM!Packed(grown, FALSE) ELSE grown
  BY Zenon DEF MM!Added, buffer
<1> HIDE DEF grown
<1>4. /\ IsMM(grown) /\ grown.pc = s.pc /\ grown.idx = s.idx /\ grown.at = s.at
      /\ grown.epoch = s.epoch /\ grown.buffer = buffer /\ grown.batch = s.batch
  BY <1>2, MMStateFields
<1> DEFINE r == MM!Packed(grown, FALSE)
<1>5. Keeps(grown, r)
  BY <1>1, <1>4, PackedKeeps
<1> HIDE DEF r
<1>6. Keeps(s, r) /\ Keeps(s, grown)
  BY <1>1, <1>4, <1>5 DEF Keeps
<1> QED
  BY <1>3, <1>6 DEF r

LEMMA BatchTakenKeeps ==
    ASSUME NEW s, IsMM(s)
    PROVE  \E a, b : MM!BatchTaken(s) = MMState(s.pc, s.idx, s.at, s.epoch, s.buffer, a, b)
<1> DEFINE a == SubSeq(s.packed, BatchSize + 1, Len(s.packed))
           b == SubSeq(s.packed, 1, BatchSize)
<1>1. MM!BatchTaken(s) = [s EXCEPT !.batch = b, !.packed = a]
  <2>1. DOMAIN s = {"pc", "idx", "at", "epoch", "buffer", "packed", "batch"}
    BY MMFields
  <2> QED
    BY <2>1, Zenon DEF MM!BatchTaken
<1> HIDE DEF a, b
<1>2. [s EXCEPT !.batch = b, !.packed = a] =
        MMState(s.pc, s.idx, s.at, s.epoch, s.buffer, a, b)
  BY MMHanded
<1> QED
  BY <1>1, <1>2

\* Reading a sample, ...
LEMMA MMReads ==
    ASSUME NEW c \in SourceType, NEW u, MMOk(c, u), u.pc = "for", u.at < Num(c)
    PROVE  MMOk(c, MMRead(c, u))
<1> DEFINE read == [u EXCEPT !.at = @ + 1, !.idx = @ + 1]
           length == SampleAt(c, u).length
           doc == TokensAt(c, u, length)
           grown == MM!Added(read, doc)
           single == << <<doc>> >>
<1>1. /\ IsMM(u) /\ u.idx \in Nat /\ u.at = u.idx /\ u.epoch = 0 /\ u.buffer \in Seq(Doc)
      /\ ~MM!EnablePacking => u.buffer = <<>>
  BY DEF MMOk
<1>2. MMRead(c, u) =
        IF length = 0 \/ length > SeqLen THEN read
        ELSE IF ~MM!EnablePacking THEN [read EXCEPT !.batch = single]
        ELSE IF MM!HasBatchReady(grown) THEN MM!BatchTaken(grown)
        ELSE grown
  BY DEF MMRead
<1>3. read = MMState(u.pc, u.idx + 1, u.at + 1, u.epoch, u.buffer, u.packed, u.batch)
  BY <1>1, MMAdvanced
<1>4. length \in Nat
  BY <1>1, SampleTyped
<1>5. doc \in Seq(Token) /\ Len(doc) = length
  <2> HIDE DEF length
  <2>1. /\ doc \in Seq(Token)
        /\ Len(doc) = IF length > 0 THEN length ELSE 0
    BY <1>1, <1>4, TokensTyped
  <2> QED
    BY <2>1, <1>4
<1>6. u.idx + 1 \in Nat /\ u.at + 1 = u.idx + 1
  BY <1>1
<1> HIDE DEF read, length, doc, single
<1>7. /\ IsMM(read) /\ read.pc = "for" /\ read.idx = u.idx + 1 /\ read.at = u.at + 1
      /\ read.epoch = 0 /\ read.buffer = u.buffer /\ read.batch = u.batch
  BY <1>1, <1>3, MMStateFields
<1>8. MMOk(c, read)
  BY <1>1, <1>6, <1>7 DEF MMOk
<1>9. CASE ~(length = 0 \/ length > SeqLen) /\ ~MM!EnablePacking
  <2>1. [read EXCEPT !.batch = single] =
          MMState(read.pc, read.idx, read.at, read.epoch, read.buffer, read.packed, single)
    BY <1>7, MMBatched
  <2>2. MMOk(c, MMState(read.pc, read.idx, read.at, read.epoch, read.buffer, read.packed, single))
    BY <1>8, MMOkIntro DEF MMOk
  <2> QED
    BY <1>2, <1>9, <2>1, <2>2
<1>10. CASE ~(length = 0 \/ length > SeqLen) /\ MM!EnablePacking
  <2>1. doc \in Doc
    BY <1>4, <1>5, <1>10, DatasetAssumption DEF Doc
  <2>2. Keeps(read, grown)
    BY <1>1, <1>7, <2>1, MMAdds
  <2> HIDE DEF grown
  <2>3. MMOk(c, grown)
    BY <1>6, <1>7, <1>10, <2>2 DEF MMOk, Keeps
  <2>4. MMOk(c, MM!BatchTaken(grown))
    <3>1. IsMM(grown)
      BY <2>3 DEF MMOk
    <3>2. PICK a, b : MM!BatchTaken(grown) =
                        MMState(grown.pc, grown.idx, grown.at, grown.epoch, grown.buffer, a, b)
      BY <3>1, BatchTakenKeeps
    <3>3. MMOk(c, MMState(grown.pc, grown.idx, grown.at, grown.epoch, grown.buffer, a, b))
      BY <2>3, MMOkIntro DEF MMOk
    <3> QED
      BY <3>2, <3>3
  <2> QED
    BY <1>2, <1>10, <2>3, <2>4
<1> QED
  BY <1>2, <1>8, <1>9, <1>10

\* ... and every other step that is not the end, keeps the packer well-formed.
LEMMA MMSteps ==
    ASSUME NEW c \in SourceType, NEW u, MMOk(c, u), MMOutcome(c, u) # "stop"
    PROVE  MMOk(c, MMAfter(c, u))
<1>1. /\ IsMM(u) /\ u.idx \in Nat /\ u.at = u.idx /\ u.epoch = 0 /\ u.buffer \in Seq(Doc)
      /\ ~MM!EnablePacking => u.buffer = <<>>
      /\ u.pc \in {"for", "flush"}
      /\ u.pc = "flush" => u.buffer = <<>> /\ ~(u.at < Num(c))
  BY DEF MMOk
<1>2. ASSUME NEW a, NEW b
      PROVE  MMOk(c, MMState(u.pc, u.idx, u.at, u.epoch, u.buffer, a, b))
  BY <1>1, MMOkIntro
<1>3. CASE u.batch # <<>>
  <2> DEFINE batch == Tail(u.batch)
  <2>1. MMAfter(c, u) = [u EXCEPT !.batch = batch]
    BY <1>3, Zenon DEF MMAfter
  <2> HIDE DEF batch
  <2>2. [u EXCEPT !.batch = batch] =
          MMState(u.pc, u.idx, u.at, u.epoch, u.buffer, u.packed, batch)
    BY <1>1, MMBatched
  <2> QED
    BY <1>2, <2>1, <2>2
<1>4. CASE u.batch = <<>> /\ u.pc = "for" /\ u.at < Num(c)
  <2>1. MMAfter(c, u) = MMRead(c, u)
    BY <1>4 DEF MMAfter
  <2> QED
    BY <1>4, <2>1, MMReads
<1>5. CASE u.batch = <<>> /\ u.pc = "for" /\ ~(u.at < Num(c))
  <2> DEFINE r == IF MM!EnablePacking THEN MM!Packed(u, TRUE) ELSE u
  <2>1. MMAfter(c, u) = [r EXCEPT !.pc = "flush"]
    BY <1>5 DEF MMAfter
  <2>2. Keeps(u, r) /\ r.buffer = <<>>
    <3>1. Keeps(u, MM!Packed(u, TRUE)) /\ MM!Packed(u, TRUE).buffer = <<>>
      BY <1>1, PackedKeeps
    <3>2. Keeps(u, u)
      BY <1>1 DEF Keeps
    <3> QED
      BY <1>1, <3>1, <3>2
  <2> HIDE DEF r
  <2>3. /\ IsMM(r) /\ r.idx = u.idx /\ r.at = u.at /\ r.epoch = 0 /\ r.buffer \in Seq(Doc)
        /\ r.buffer = <<>>
    BY <1>1, <2>2 DEF Keeps
  <2>4. [r EXCEPT !.pc = "flush"] =
          MMState("flush", r.idx, r.at, r.epoch, r.buffer, r.packed, r.batch)
    BY <2>3, MMTurned
  <2>5. MMOk(c, MMState("flush", r.idx, r.at, r.epoch, r.buffer, r.packed, r.batch))
    BY <1>1, <1>5, <2>3, MMOkIntro
  <2> QED
    BY <2>1, <2>4, <2>5
<1>6. CASE u.batch = <<>> /\ u.pc = "flush" /\ u.packed # <<>>
  <2> DEFINE a == << Head(u.packed) >>
             b == Tail(u.packed)
  <2>1. \/ MMAfter(c, u) = MM!BatchTaken(u)
        \/ MMAfter(c, u) = [u EXCEPT !.batch = a, !.packed = b]
    BY <1>6, Zenon DEF MMAfter
  <2> HIDE DEF a, b
  <2>2. [u EXCEPT !.batch = a, !.packed = b] =
          MMState(u.pc, u.idx, u.at, u.epoch, u.buffer, b, a)
    BY <1>1, MMHanded
  <2>3. MMOk(c, [u EXCEPT !.batch = a, !.packed = b])
    BY <1>2, <2>2
  <2>4. MMOk(c, MM!BatchTaken(u))
    <3>1. PICK x, y : MM!BatchTaken(u) = MMState(u.pc, u.idx, u.at, u.epoch, u.buffer, x, y)
      BY <1>1, BatchTakenKeeps
    <3> QED
      BY <1>2, <3>1
  <2> QED
    BY <2>1, <2>3, <2>4
<1>7. CASE u.batch = <<>> /\ u.pc = "flush" /\ u.packed = <<>>
  <2>1. MMAfter(c, u) = [u EXCEPT !.idx = 0, !.at = 0, !.pc = "for"]
    BY <1>7 DEF MMAfter
  <2>2. [u EXCEPT !.idx = 0, !.at = 0, !.pc = "for"] =
          MMState("for", 0, 0, u.epoch, u.buffer, u.packed, u.batch)
    BY <1>1, MMReset
  <2>3. MMOk(c, MMState("for", 0, 0, u.epoch, u.buffer, u.packed, u.batch))
    BY <1>1, MMOkIntro
  <2> QED
    BY <2>1, <2>2, <2>3
<1> QED
  BY <1>1, <1>3, <1>4, <1>5, <1>6, <1>7

Refilling(u) == [u EXCEPT !.pc = "for"]

MMMatch(c, s, u) ==
    /\ MMOk(c, u)
    /\ \/ s = u
       \/ u.pc = "flush" /\ u.batch = <<>> /\ s = Refilling(u)

LEMMA RefillingFields ==
    ASSUME NEW u, IsMM(u)
    PROVE  /\ IsMM(Refilling(u))
           /\ Refilling(u).pc = "for" /\ Refilling(u).idx = u.idx /\ Refilling(u).at = u.at
           /\ Refilling(u).epoch = u.epoch /\ Refilling(u).buffer = u.buffer
           /\ Refilling(u).packed = u.packed /\ Refilling(u).batch = u.batch
           /\ Refilling(u) = MMState("for", u.idx, u.at, u.epoch, u.buffer, u.packed, u.batch)
<1> DEFINE s == Refilling(u)
<1>1. s = MMState("for", u.idx, u.at, u.epoch, u.buffer, u.packed, u.batch)
  BY MMTurned DEF Refilling
<1> HIDE DEF s
<1>2. /\ IsMM(s) /\ s.pc = "for" /\ s.idx = u.idx /\ s.at = u.at /\ s.epoch = u.epoch
      /\ s.buffer = u.buffer /\ s.packed = u.packed /\ s.batch = u.batch
  BY <1>1, MMStateFields
<1> QED
  BY <1>1, <1>2 DEF s

LEMMA MMReading ==
    ASSUME NEW i, NEW u, src[i] = u
    PROVE  /\ MM!NextSample(i) = SampleAt(config[i], u)
           /\ \A count : MM!Tokens(i, count) = TokensAt(config[i], u, count)
<1>1. MM!NextId(i) = IdAt(config[i], u)
  BY DEF MM!NextId, MM!SampleId, MM!NumSamples, IdAt, Num
<1>2. MM!NextSample(i) = SampleAt(config[i], u)
  BY <1>1 DEF MM!NextSample, SampleAt
<1>3. \A count : MM!Tokens(i, count) = TokensAt(config[i], u, count)
  BY <1>1 DEF MM!Tokens, TokensAt
<1> QED
  BY <1>2, <1>3

\* A restored source that finds the data exhausted comes to where the other is;
\* in every other step the two go together.
LEMMA MMInner ==
    ASSUME NEW i, NEW u, MMMatch(config[i], src[i], u),
           MM!ReadSample(i) \/ MM!EndOfData(i) \/ MM!Drain(i) \/ MM!StartOver(i)
    PROVE  \/ /\ MMOutcome(config[i], u) = "go"
              /\ src' = [src EXCEPT ![i] = MMAfter(config[i], u)]
           \/ src' = [src EXCEPT ![i] = u]
<1> DEFINE c == config[i]
           s == src[i]
<1>1. /\ IsMM(u) /\ u.buffer \in Seq(Doc)
      /\ u.pc \in {"for", "flush"}
      /\ u.pc = "flush" => u.buffer = <<>> /\ ~(u.at < Num(c))
  BY DEF MMMatch, MMOk
<1>2. s = u \/ (u.pc = "flush" /\ u.batch = <<>> /\ s = Refilling(u))
  BY DEF MMMatch
<1>3. /\ s.at = u.at /\ s.batch = u.batch /\ s.packed = u.packed
      /\ s.pc = "flush" => s = u
  BY <1>1, <1>2, RefillingFields
<1>4. MM!HasSample(i) <=> u.at < Num(c)
  <2>1. MM!HasSample(i) <=> s.at < Num(c)
    BY DEF MM!HasSample, MM!NumSamples, Num
  <2> QED
    BY <2>1, <1>3
<1>5. CASE MM!ReadSample(i)
  <2>1. s.pc = "for" /\ s.batch = <<>> /\ u.at < Num(c)
    BY <1>4, <1>5 DEF MM!ReadSample
  <2>2. s = u
    BY <1>1, <1>2, <2>1
  <2>3. /\ MM!NextSample(i) = SampleAt(c, u)
        /\ \A count : MM!Tokens(i, count) = TokensAt(c, u, count)
    BY <2>2, MMReading
  <2> DEFINE read == [u EXCEPT !.at = @ + 1, !.idx = @ + 1]
             length == SampleAt(c, u).length
             doc == TokensAt(c, u, length)
             grown == MM!Added(read, doc)
             next == IF length = 0 \/ length > SeqLen THEN read
                     ELSE IF ~MM!EnablePacking THEN [read EXCEPT !.batch = << <<doc>> >>]
                     ELSE IF MM!HasBatchReady(grown) THEN MM!BatchTaken(grown)
                     ELSE grown
  <2>4. src' = [src EXCEPT ![i] = next]
    <3>1. MM!NextSample(i).length = length /\ MM!Tokens(i, length) = doc
      BY <2>3
    <3> HIDE DEF length, doc
    <3> QED
      BY <1>5, <2>2, <3>1, Zenon DEF MM!ReadSample
  <2>5. MMRead(c, u) = next
    BY DEF MMRead
  <2> HIDE DEF next
  <2>6. MMAfter(c, u) = MMRead(c, u) /\ MMOutcome(c, u) = "go"
    BY <2>1, <2>2 DEF MMAfter, MMOutcome
  <2> QED
    BY <2>4, <2>5, <2>6
<1>6. CASE MM!EndOfData(i)
  <2>1. s.pc = "for" /\ s.batch = <<>> /\ ~(u.at < Num(c))
    BY <1>4, <1>6 DEF MM!EndOfData
  <2>2. src' = [src EXCEPT ![i] =
            [IF MM!EnablePacking THEN MM!Packed(s, TRUE) ELSE s EXCEPT !.pc = "flush"]]
    BY <1>6 DEF MM!EndOfData
  <2>3. CASE s = u
    <3>1. MMOutcome(c, u) = "go"
      BY <2>1, <2>3 DEF MMOutcome
    <3>2. MMAfter(c, u) =
            [IF MM!EnablePacking THEN MM!Packed(u, TRUE) ELSE u EXCEPT !.pc = "flush"]
      BY <2>1, <2>3 DEF MMAfter
    <3> QED
      BY <2>2, <2>3, <3>1, <3>2, Zenon
  <2>4. CASE u.pc = "flush" /\ u.batch = <<>> /\ s = Refilling(u)
    <3>1. IsMM(s) /\ s.buffer = <<>> /\ s.buffer \in Seq(Doc)
      BY <1>1, <2>4, RefillingFields
    <3>2. MM!Packed(s, TRUE) = s
      BY <3>1, PackedKeeps
    <3>3. (IF MM!EnablePacking THEN MM!Packed(s, TRUE) ELSE s) = s
      BY <3>2
    <3>4. [s EXCEPT !.pc = "flush"] =
            MMState("flush", s.idx, s.at, s.epoch, s.buffer, s.packed, s.batch)
      BY <3>1, MMTurned
    <3>5. /\ s.idx = u.idx /\ s.at = u.at /\ s.epoch = u.epoch /\ s.buffer = u.buffer
          /\ s.packed = u.packed /\ s.batch = u.batch
      BY <1>1, <2>4, RefillingFields
    <3>6. u = MMState("flush", u.idx, u.at, u.epoch, u.buffer, u.packed, u.batch)
      <4>1. u = MMState(u.pc, u.idx, u.at, u.epoch, u.buffer, u.packed, u.batch) /\ u.pc = "flush"
        BY <1>1, <2>4 DEF IsMM
      <4> QED
        BY <4>1, Zenon
    <3>7. [s EXCEPT !.pc = "flush"] = u
      BY <3>4, <3>5, <3>6, Zenon
    <3> QED
      BY <2>2, <3>3, <3>7, Zenon
  <2> QED
    BY <1>2, <2>3, <2>4
<1>7. CASE MM!Drain(i)
  <2>1. s.pc = "flush" /\ s.batch = <<>> /\ s.packed # <<>>
    BY <1>7 DEF MM!Drain
  <2>2. s = u
    BY <1>3, <2>1
  <2>3. MMOutcome(c, u) = "go"
    BY <2>1, <2>2 DEF MMOutcome
  <2>4. MMAfter(c, u) =
          IF MM!HasBatchReady(u)
          THEN MM!BatchTaken(u)
          ELSE [u EXCEPT !.batch = <<Head(u.packed)>>, !.packed = Tail(@)]
    BY <2>1, <2>2, Zenon DEF MMAfter
  <2>5. src' = [src EXCEPT ![i] =
          IF MM!HasBatchReady(s)
          THEN MM!BatchTaken(s)
          ELSE [s EXCEPT !.batch = <<Head(s.packed)>>, !.packed = Tail(@)]]
    BY <1>7, Zenon DEF MM!Drain
  <2> QED
    BY <2>2, <2>3, <2>4, <2>5, Zenon
<1>8. CASE MM!StartOver(i)
  <2>1. s.pc = "flush" /\ s.batch = <<>> /\ s.packed = <<>> /\ c.infinite
    BY <1>8 DEF MM!StartOver, MM!Drained
  <2>2. s = u
    BY <1>3, <2>1
  <2>3. MMOutcome(c, u) = "go"
    BY <2>1, <2>2 DEF MMOutcome
  <2>4. MMAfter(c, u) = [u EXCEPT !.idx = 0, !.at = 0, !.pc = "for"]
    BY <2>1, <2>2 DEF MMAfter
  <2>5. src' = [src EXCEPT ![i] = [s EXCEPT !.idx = 0, !.at = 0, !.pc = "for"]]
    BY <1>8, Zenon DEF MM!StartOver
  <2> QED
    BY <2>2, <2>3, <2>4, <2>5, Zenon
<1> QED
  BY <1>5, <1>6, <1>7, <1>8

\* A row is the row of the uninterrupted source, ...
LEMMA MMYields ==
    ASSUME NEW i, NEW u, MMMatch(config[i], src[i], u), MM!Yield(i)
    PROVE  /\ MMOutcome(config[i], u) = "row"
           /\ MM!Row(i) = MMRowOf(i, u)
           /\ src' = [src EXCEPT ![i] = MMAfter(config[i], u)]
<1>1. IsMM(u)
  BY DEF MMMatch, MMOk
<1>2. src[i].batch # <<>>
  BY DEF MM!Yield
<1>3. src[i] = u /\ u.batch # <<>>
  BY <1>1, <1>2, RefillingFields DEF MMMatch
<1>4. MMOutcome(config[i], u) = "row"
  BY <1>3 DEF MMOutcome
<1>5. MM!Row(i) = MMRowOf(i, u)
  BY <1>3, Zenon DEF MM!Row, MMRowOf
<1>6. src' = [src EXCEPT ![i] = MMAfter(config[i], u)]
  <2>1. MMAfter(config[i], u) = [u EXCEPT !.batch = Tail(@)]
    BY <1>3, Zenon DEF MMAfter
  <2>2. src' = [src EXCEPT ![i] = [src[i] EXCEPT !.batch = Tail(@)]]
    BY DEF MM!Yield
  <2> QED
    BY <1>3, <2>1, <2>2, Zenon
<1> QED
  BY <1>4, <1>5, <1>6

\* ... and so is the end.
LEMMA MMStops ==
    ASSUME NEW i, NEW u, MMMatch(config[i], src[i], u), MM!StopsIteration(i)
    PROVE  MMOutcome(config[i], u) = "stop"
<1>1. IsMM(u)
  BY DEF MMMatch, MMOk
<1>2. src[i].pc = "flush" /\ src[i].batch = <<>> /\ src[i].packed = <<>> /\ ~config[i].infinite
  BY DEF MM!StopsIteration, MM!Drained
<1>3. src[i] = u
  BY <1>1, <1>2, RefillingFields DEF MMMatch
<1> QED
  BY <1>2, <1>3 DEF MMOutcome

\* A multimodal source that holds no batch, once restored.
LEMMA MMRestores ==
    ASSUME NEW i, NEW u, MMMatch(config[i], src[i], u), ~MM!HoldsMore(i)
    PROVE  MMMatch(config[i], MM!Restored(i, MM!StateDict(i)), u)
<1> DEFINE c == config[i]
           s == src[i]
           d == MM!StateDict(i)
           r == MM!Restored(i, d)
           at == MM!ResumePosition(i, d)
<1>1. /\ IsMM(u) /\ u.pc \in {"for", "flush"} /\ u.at = u.idx /\ u.epoch = 0
  BY DEF MMMatch, MMOk
<1>2. /\ s.idx = u.idx /\ s.at = u.at /\ s.buffer = u.buffer /\ s.packed = u.packed
      /\ u.batch = <<>>
  BY <1>1, RefillingFields DEF MMMatch, MM!HoldsMore
<1>3. d.idx = s.idx /\ d.at = s.at /\ d.buffer = s.buffer /\ d.packed = s.packed
  BY DEF MM!StateDict
<1>4. r = MMState("for", d.idx, at, 0, d.buffer, d.packed, <<>>)
  BY Zenon DEF MM!Restored, MMState
<1>5. at = IF c.streaming THEN d.at ELSE d.idx
  BY DEF MM!ResumePosition
<1> HIDE DEF r, at, d
<1>6. at = u.at
  BY <1>1, <1>2, <1>3, <1>5
<1>7. r = MMState("for", u.idx, u.at, u.epoch, u.buffer, u.packed, u.batch)
  BY <1>1, <1>2, <1>3, <1>4, <1>6
<1>8. r = Refilling(u)
  BY <1>1, <1>7, RefillingFields
<1>9. u.pc = "for" => r = u
  <2>1. u = MMState(u.pc, u.idx, u.at, u.epoch, u.buffer, u.packed, u.batch)
    BY <1>1 DEF IsMM
  <2> QED
    BY <1>7, <2>1, Zenon
<1>10. MMMatch(c, r, u)
  BY <1>1, <1>2, <1>8, <1>9 DEF MMMatch
<1> QED
  BY <1>10 DEF r, d

-----------------------------------------------------------------------------
(* The steps of a text source.                                             *)

TextState(pc, idx, at, epoch, inputs, positions) ==
    [pc |-> pc, idx |-> idx, at |-> at, epoch |-> epoch, inputs |-> inputs,
     positions |-> positions]

TextIs(s) == s = TextState(s.pc, s.at, s.at, s.epoch, s.inputs, s.positions)

\* A function of the fields of a text dataset is the record of their values.
LEMMA TextRecord ==
    ASSUME NEW r, r = [f \in DOMAIN r |-> r[f]],
           DOMAIN r = {"pc", "idx", "at", "epoch", "inputs", "positions"}
    PROVE  r = TextState(r.pc, r.idx, r.at, r.epoch, r.inputs, r.positions)
<1> DEFINE t == TextState(r.pc, r.idx, r.at, r.epoch, r.inputs, r.positions)
<1>1. DOMAIN t = DOMAIN r /\ t = [f \in DOMAIN t |-> t[f]]
  BY DEF TextState
<1>2. \A f \in DOMAIN r : t[f] = r[f]
  BY DEF TextState
<1> HIDE DEF t
<1>3. [f \in DOMAIN r |-> r[f]] = [f \in DOMAIN t |-> t[f]]
  BY <1>1, <1>2
<1>4. t = r
  BY <1>1, <1>3
<1> QED
  BY <1>4 DEF t

LEMMA TextFields ==
    ASSUME NEW s, TextIs(s)
    PROVE  DOMAIN s = {"pc", "idx", "at", "epoch", "inputs", "positions"} /\ s.idx = s.at
BY DEF TextIs, TextState

\* The updates the code makes of it.
ReadOn(s, inputs, more, pc) ==
    [s EXCEPT !.at = @ + 1, !.idx = @ + 1, !.inputs = inputs, !.positions = @ \o more,
              !.pc = pc]
Cut(s, inputs, positions, pc) ==
    [s EXCEPT !.inputs = inputs, !.positions = positions, !.pc = pc]

LEMMA TextAdvanced ==
    ASSUME NEW s, TextIs(s), NEW inputs, NEW more, NEW pc
    PROVE  ReadOn(s, inputs, more, pc) =
             TextState(pc, s.at + 1, s.at + 1, s.epoch, inputs, s.positions \o more)
<1>0. DOMAIN s = {"pc", "idx", "at", "epoch", "inputs", "positions"} /\ s.idx = s.at
  BY TextFields
<1> DEFINE r == [s EXCEPT !.at = @ + 1, !.idx = @ + 1, !.inputs = inputs,
                          !.positions = @ \o more, !.pc = pc]
<1>1. r = [f \in DOMAIN r |-> r[f]] /\ DOMAIN r = DOMAIN s
  BY <1>0
<1>2. /\ r.pc = pc
      /\ r.idx = s.at + 1
      /\ r.at = s.at + 1
      /\ r.epoch = s.epoch
      /\ r.inputs = inputs
      /\ r.positions = s.positions \o more
  BY <1>0
<1> HIDE DEF r
<1>3. r = TextState(r.pc, r.idx, r.at, r.epoch, r.inputs, r.positions)
  BY <1>0, <1>1, TextRecord
<1> QED
  BY <1>2, <1>3 DEF r, ReadOn

LEMMA TextCut ==
    ASSUME NEW s, TextIs(s), NEW inputs, NEW positions, NEW pc
    PROVE  Cut(s, inputs, positions, pc) =
             TextState(pc, s.at, s.at, s.epoch, inputs, positions)
<1>0. DOMAIN s = {"pc", "idx", "at", "epoch", "inputs", "positions"} /\ s.idx = s.at
  BY TextFields
<1> DEFINE r == [s EXCEPT !.inputs = inputs, !.positions = positions, !.pc = pc]
<1>1. r = [f \in DOMAIN r |-> r[f]] /\ DOMAIN r = DOMAIN s
  BY <1>0
<1>2. /\ r.pc = pc
      /\ r.idx = s.at
      /\ r.at = s.at
      /\ r.epoch = s.epoch
      /\ r.inputs = inputs
      /\ r.positions = positions
  BY <1>0
<1> HIDE DEF r
<1>3. r = TextState(r.pc, r.idx, r.at, r.epoch, r.inputs, r.positions)
  BY <1>0, <1>1, TextRecord
<1> QED
  BY <1>2, <1>3 DEF r, Cut

\* A step inside next() leaves a text source where the uninterrupted one is.
LEMMA TextInner ==
    ASSUME NEW i, config[i] \in SourceType, NEW u, TextMatch(config[i], src[i], u),
           Text!ReadSample(i) \/ Text!EndOfData(i)
    PROVE  \E s : src' = [src EXCEPT ![i] = s] /\ TextMatch(config[i], s, u)
<1> DEFINE c == config[i]
           s == src[i]
<1>1. TextIs(s)
  BY DEF TextMatch, TextTyped, TextIs, TextState
<1>2. Text!HasSample(i) <=> s.at < Num(c)
  BY DEF Text!HasSample, Text!NumSamples, Num
<1>3. CASE Text!ReadSample(i)
  <2>1. s.pc = "for" /\ s.at < Num(c)
    BY <1>2, <1>3 DEF Text!ReadSample
  <2> DEFINE n == SampleAt(c, s).length
             full == s.inputs \o TokensAt(c, s, n)
             pos == s.positions \o Range0(n)
             pc == Text!Loop(full)
             next == ReadOn(s, full, Range0(n), pc)
  <2>2. Text!NextId(i) = IdAt(c, s)
    BY DEF Text!NextId, Text!SampleId, Text!NumSamples, IdAt, Num
  <2>3. Text!NextSample(i).length = n /\ Text!Tokens(i, n) = TokensAt(c, s, n)
        /\ Text!Range0(n) = Range0(n)
    BY <2>2 DEF Text!NextSample, SampleAt, Text!Tokens, TokensAt, Text!Range0, Range0
  <2>4. src' = [src EXCEPT ![i] = next]
    <3> HIDE DEF n
    <3>1. src' = [src EXCEPT ![i] =
                   [s EXCEPT !.at = @ + 1,
                             !.idx = @ + 1,
                             !.inputs = s.inputs \o TokensAt(c, s, n),
                             !.positions = @ \o Range0(n),
                             !.pc = Text!Loop(s.inputs \o TokensAt(c, s, n))]]
      BY <1>3, <2>3, Zenon DEF Text!ReadSample
    <3> QED
      BY <3>1, Zenon DEF ReadOn
  <2>5. TextRead(c, s) = TextState(pc, s.at + 1, s.at + 1, s.epoch, full, pos)
    BY Zenon DEF TextRead, TextState
  <2> HIDE DEF full, pc, n
  <2>6. next = TextRead(c, s)
    <3>1. next = TextState(pc, s.at + 1, s.at + 1, s.epoch, full, s.positions \o Range0(n))
      BY <1>1, TextAdvanced, Zenon
    <3> QED
      BY <2>5, <3>1, Zenon
  <2> HIDE DEF next
  <2>7. TextMatch(c, TextRead(c, s), u)
    BY <2>1, TextReads
  <2> QED
    BY <2>4, <2>6, <2>7
<1>4. CASE Text!EndOfData(i)
  <2>1. s.pc = "for" /\ ~(s.at < Num(c)) /\ c.infinite
    BY <1>2, <1>4 DEF Text!EndOfData, Text!AtEnd
  <2>2. src' = [src EXCEPT ![i] = Relooped(s)]
    BY <1>4, Zenon DEF Text!EndOfData, Text!Relooped, Relooped
  <2>3. TextMatch(c, Relooped(s), u)
    BY <2>1, TextEndsEpoch
  <2> QED
    BY <2>2, <2>3
<1> QED
  BY <1>3, <1>4

\* A row is the next row of the uninterrupted source, ...
LEMMA TextDelivers ==
    ASSUME NEW i, config[i] \in SourceType, NEW u, TextMatch(config[i], src[i], u),
           Text!Yield(i)
    PROVE  /\ TextOutcome(config[i], Reads(config[i]), u) = "row"
           /\ Text!Row(i) = TextRowOf(i, Reads(config[i]), u)
           /\ \E s : /\ src' = [src EXCEPT ![i] = s]
                     /\ TextMatch(config[i], s, TextAfter(config[i], Reads(config[i]), u))
<1> DEFINE c == config[i]
           s == src[i]
           rest == SubSeq(s.inputs, Text!RowTokens + 1, Len(s.inputs))
           prest == SubSeq(s.positions, Text!RowTokens + 1, Len(s.positions))
           pc == Text!Loop(rest)
           next == Cut(s, rest, prest, pc)
<1>1. TextIs(s)
  BY DEF TextMatch, TextTyped, TextIs, TextState
<1>2. s.pc = "chunk"
  BY DEF Text!Yield
<1>3. src' = [src EXCEPT ![i] = next]
  BY Zenon DEF Text!Yield, Cut
<1>4. TextYielded(s) = TextState(pc, s.at, s.at, s.epoch, rest, prest)
  BY Zenon DEF TextYielded, TextState
<1> HIDE DEF rest, prest, pc
<1>5. next = TextYielded(s)
  <2>1. next = TextState(pc, s.at, s.at, s.epoch, rest, prest)
    BY <1>1, TextCut, Zenon
  <2> QED
    BY <1>4, <2>1, Zenon
<1> HIDE DEF next
<1>6. Text!Row(i) = TextRow0(i, s)
  BY Zenon DEF Text!Row, TextRow0
<1>7. /\ TextOutcome(c, Reads(c), u) = "row"
      /\ TextRowOf(i, Reads(c), u) = TextRow0(i, s)
      /\ TextMatch(c, TextYielded(s), TextAfter(c, Reads(c), u))
  BY <1>2, TextYields
<1> QED
  BY <1>3, <1>5, <1>6, <1>7

\* ... StopIteration its end, ...
LEMMA TextExhausted ==
    ASSUME NEW i, config[i] \in SourceType, NEW u, TextMatch(config[i], src[i], u),
           Text!StopsIteration(i)
    PROVE  /\ TextOutcome(config[i], Reads(config[i]), u) = "stop"
           /\ TextMatch(config[i], Relooped(src[i]), TextAfter(config[i], Reads(config[i]), u))
<1>1. /\ src[i].pc = "for" /\ ~config[i].infinite
      /\ ~(src[i].at < Num(config[i]))
  BY DEF Text!StopsIteration, Text!AtEnd, Text!HasSample, Text!NumSamples, Num
<1> QED
  BY <1>1, TextStops

\* ... and a state dict brings the source back.
LEMMA TextResumes ==
    ASSUME NEW i, config[i] \in SourceType, NEW u, TextMatch(config[i], src[i], u),
           ~Text!HoldsMore(i)
    PROVE  TextMatch(config[i], Text!Restored(i, Text!StateDict(i)), u)
<1> DEFINE c == config[i]
           s == src[i]
           d == Text!StateDict(i)
<1>1. TextIs(s)
  BY DEF TextMatch, TextTyped, TextIs, TextState
<1>2. ~(s.pc = "chunk" /\ ~(s.at < Num(c)) /\ ~c.infinite)
  BY DEF Text!HoldsMore, Text!HasSample, Text!NumSamples, Num
<1>3. /\ d.idx = s.at /\ d.at = s.at /\ d.epoch = s.epoch /\ d.inputs = s.inputs
      /\ d.positions = s.positions
  BY <1>1, TextFields DEF Text!StateDict
<1> HIDE DEF d
<1>4. Text!ResumePosition(i, d) = s.at
  BY <1>3 DEF Text!ResumePosition
<1>5. Text!Restored(i, d) = TextRestored(s)
  BY <1>3, <1>4, Zenon DEF Text!Restored, TextRestored
<1>6. TextMatch(c, TextRestored(s), u)
  BY <1>2, TextRestores
<1> QED
  BY <1>5, <1>6 DEF d

-----------------------------------------------------------------------------
(* The interleaver and the uninterrupted run side by side: p is the plan,  *)
(* t the state of the uninterrupted run, the rest the state of a run.      *)

SourceMatch(p, i, s, u) ==
    IF p.kind = "text" THEN TextMatch(p.config[i], s, u)
    ELSE IF p.kind = "chat" THEN ChatMatch(p.config[i], s, u)
    ELSE MMMatch(p.config[i], s, u)

\* A chat dataset is about to yield only inside its next().
Idle(p, u) == p.kind = "chat" => u.pc # "yield"

\* The rows are those of t.
Delivered(rows, t) ==
    /\ rows \in Seq({rows[k] : k \in DOMAIN rows})
    /\ Len(rows) = t.count
    /\ \A k \in 1 .. t.count : rows[k] = t.rows[k]

Follows(p, t, srcs, rngs, ended, busy, stops, rows) ==
    /\ t.rng = rngs /\ t.exhausted = ended /\ t.asked = busy /\ (t.stopped <=> stops)
    /\ rngs \in Nat /\ busy \in DOMAIN p.config \cup {0}
    /\ stops => busy = 0
    /\ Delivered(rows, t)
    /\ DOMAIN srcs = DOMAIN p.config /\ DOMAIN t.src = DOMAIN p.config
    /\ \A i \in DOMAIN p.config : SourceMatch(p, i, srcs[i], t.src[i])
    /\ \A i \in DOMAIN p.config : i # busy => Idle(p, t.src[i])

\* What Configs allows.
Planned(p) ==
    /\ p.what = "run"
    /\ p.kind \in {"text", "chat", "mm"}
    /\ p.kind = "mm" => p.strategy = "on_first_exhausted"
    /\ 0 \notin DOMAIN p.config
    /\ \A i \in DOMAIN p.config : p.config[i] \in SourceType /\ p.reads[i] = Reads(p.config[i])
    /\ p.draws \in [1 .. MaxDraws -> DOMAIN p.config]

LEMMA CoreFields ==
    ASSUME NEW srcs, NEW rngs, NEW ended, NEW busy, NEW stops, NEW count, NEW rows, NEW t,
           t = Core(srcs, rngs, ended, busy, stops, count, rows)
    PROVE  /\ t.src = srcs /\ t.rng = rngs /\ t.exhausted = ended /\ t.asked = busy
           /\ t.stopped = stops /\ t.count = count /\ t.rows = rows
BY DEF Core

LEMMA NoneDelivered ==
    ASSUME NEW t, t.count = 0
    PROVE  Delivered(<<>>, t)
BY EmptySeq DEF Delivered

LEMMA SameDelivered ==
    ASSUME NEW rows, NEW t, NEW t2, Delivered(rows, t), t2.count = t.count, t2.rows = t.rows
    PROVE  Delivered(rows, t2)
BY DEF Delivered

\* One more row.
LEMMA OneDelivered ==
    ASSUME NEW rows, NEW t, NEW t2, NEW row, Delivered(rows, t),
           t2.count = t.count + 1, t2.rows = Longer(t, row)
    PROVE  Delivered(Append(rows, row), t2)
<1> DEFINE S == {rows[k] : k \in DOMAIN rows}
           more == Append(rows, row)
           n == t.count
           R == S \cup {row}
<1>1. rows \in Seq(S) /\ Len(rows) = n /\ \A k \in 1 .. n : rows[k] = t.rows[k]
  BY DEF Delivered
<1> HIDE DEF S
<1>2. rows \in Seq(R) /\ row \in R
  BY <1>1
<1> HIDE DEF R
<1>3. n \in Nat
  BY <1>1, LenProperties
<1>4. /\ more \in Seq(R) /\ Len(more) = n + 1
      /\ \A k \in 1 .. n : more[k] = rows[k]
      /\ more[n + 1] = row
  BY <1>1, <1>2, AppendProperties
<1> HIDE DEF more, n
<1>5. DOMAIN more = 1 .. n + 1
  BY <1>3, <1>4
<1>6. more \in Seq({more[k] : k \in DOMAIN more})
  <2> DEFINE M == {more[k] : k \in DOMAIN more}
  <2>1. \A k \in 1 .. Len(more) : more[k] \in M
    BY <1>4, <1>5
  <2>2. more = [k \in 1 .. Len(more) |-> more[k]] /\ Len(more) \in Nat
    BY <1>4
  <2> HIDE DEF M
  <2>3. more \in Seq(M)
    BY <2>1, <2>2
  <2> QED
    BY <2>3 DEF M
<1>7. ASSUME NEW k \in 1 .. n + 1
      PROVE  more[k] = t2.rows[k]
  <2>1. t2.rows[k] = IF k <= n THEN t.rows[k] ELSE row
    BY DEF Longer, n
  <2>2. k \in 1 .. n \/ k = n + 1
    BY <1>3
  <2> QED
    BY <2>1, <2>2, <1>1, <1>3, <1>4
<1>8. t2.count = n + 1
  BY DEF n
<1> QED
  BY <1>4, <1>6, <1>7, <1>8 DEF Delivered, more

\* A draw.
LEMMA FollowsDraw ==
    ASSUME NEW p, Planned(p), NEW t, NEW srcs, NEW rngs, NEW ended, NEW busy, NEW stops,
           NEW rows, Follows(p, t, srcs, rngs, ended, busy, stops, rows),
           busy = 0, ~stops, rngs < MaxDraws
    PROVE  Follows(p, TimelineStep(p, t), srcs, rngs + 1, ended, p.draws[rngs + 1], stops, rows)
<1> DEFINE v == TimelineStep(p, t)
           drawn == p.draws[rngs + 1]
<1>1. /\ t.rng = rngs /\ t.exhausted = ended /\ t.asked = 0 /\ ~t.stopped /\ rngs \in Nat
      /\ Delivered(rows, t)
      /\ DOMAIN srcs = DOMAIN p.config /\ DOMAIN t.src = DOMAIN p.config
      /\ \A i \in DOMAIN p.config : SourceMatch(p, i, srcs[i], t.src[i])
      /\ \A i \in DOMAIN p.config : Idle(p, t.src[i])
  BY DEF Follows, Planned
<1>2. v = Core(t.src, t.rng + 1, t.exhausted, p.draws[t.rng + 1], FALSE, t.count, t.rows)
  BY <1>1 DEF TimelineStep
<1>3. /\ v.src = t.src /\ v.rng = t.rng + 1 /\ v.exhausted = t.exhausted
      /\ v.asked = p.draws[t.rng + 1] /\ ~v.stopped /\ v.count = t.count /\ v.rows = t.rows
  BY <1>2 DEF Core
<1>4. drawn \in DOMAIN p.config
  <2>1. rngs + 1 \in 1 .. MaxDraws
    BY <1>1, BoundsAssumption
  <2> QED
    BY <2>1 DEF Planned
<1> HIDE DEF v
<1>5. Delivered(rows, v)
  BY <1>1, <1>3, SameDelivered
<1>6. v.rng = rngs + 1 /\ rngs + 1 \in Nat /\ v.asked = drawn /\ v.exhausted = ended
  BY <1>1, <1>3
<1> HIDE DEF drawn
<1>7. Follows(p, v, srcs, rngs + 1, ended, drawn, stops, rows)
  BY <1>1, <1>3, <1>4, <1>5, <1>6 DEF Follows
<1> QED
  BY <1>7 DEF v, drawn

\* The parts of Follows that a step inside next() leaves alone.
LEMMA FollowsParts ==
    ASSUME NEW p, Planned(p), NEW t, NEW srcs, NEW rngs, NEW ended, NEW busy, NEW stops,
           NEW rows, Follows(p, t, srcs, rngs, ended, busy, stops, rows),
           busy \in DOMAIN p.config
    PROVE  /\ t.rng = rngs /\ t.exhausted = ended /\ t.asked = busy /\ rngs \in Nat
           /\ ~t.stopped /\ ~stops /\ t.asked # 0
           /\ Delivered(rows, t)
           /\ DOMAIN srcs = DOMAIN p.config /\ DOMAIN t.src = DOMAIN p.config
           /\ \A i \in DOMAIN p.config : SourceMatch(p, i, srcs[i], t.src[i])
           /\ \A i \in DOMAIN p.config : i # busy => Idle(p, t.src[i])
BY DEF Follows, Planned

\* The source asked has moved to s, and the uninterrupted run's to u.
LEMMA OneMoves ==
    ASSUME NEW p, NEW srcs, NEW us, NEW i \in DOMAIN p.config, NEW s, NEW u,
           DOMAIN srcs = DOMAIN p.config, DOMAIN us = DOMAIN p.config,
           \A j \in DOMAIN p.config : SourceMatch(p, j, srcs[j], us[j]),
           \A j \in DOMAIN p.config : j # i => Idle(p, us[j]),
           SourceMatch(p, i, s, u)
    PROVE  /\ DOMAIN [srcs EXCEPT ![i] = s] = DOMAIN p.config
           /\ DOMAIN [us EXCEPT ![i] = u] = DOMAIN p.config
           /\ \A j \in DOMAIN p.config :
                 SourceMatch(p, j, [srcs EXCEPT ![i] = s][j], [us EXCEPT ![i] = u][j])
           /\ \A j \in DOMAIN p.config : j # i => Idle(p, [us EXCEPT ![i] = u][j])
           /\ Idle(p, u) => \A j \in DOMAIN p.config : Idle(p, [us EXCEPT ![i] = u][j])
<1> DEFINE a == [srcs EXCEPT ![i] = s]
           b == [us EXCEPT ![i] = u]
<1>1. /\ DOMAIN a = DOMAIN p.config /\ DOMAIN b = DOMAIN p.config
      /\ a[i] = s /\ b[i] = u
      /\ \A j \in DOMAIN p.config : j # i => a[j] = srcs[j] /\ b[j] = us[j]
  OBVIOUS
<1> HIDE DEF a, b
<1>2. ASSUME NEW j \in DOMAIN p.config
      PROVE  SourceMatch(p, j, a[j], b[j]) /\ (j # i => Idle(p, b[j]))
  <2>1. CASE j = i
    BY <1>1, <2>1
  <2>2. CASE j # i
    BY <1>1, <2>2
  <2> QED
    BY <2>1, <2>2
<1>3. ASSUME Idle(p, u), NEW j \in DOMAIN p.config
      PROVE  Idle(p, b[j])
  <2>1. CASE j = i
    BY <1>1, <1>3, <2>1
  <2>2. CASE j # i
    BY <1>2, <2>2
  <2> QED
    BY <2>1, <2>2
<1> QED
  BY <1>1, <1>2, <1>3 DEF a, b

\* A step inside next() that the uninterrupted run has made already, ...
LEMMA FollowsStill ==
    ASSUME NEW p, Planned(p), NEW t, NEW srcs, NEW rngs, NEW ended, NEW i, NEW stops,
           NEW rows, Follows(p, t, srcs, rngs, ended, i, stops, rows),
           i \in DOMAIN p.config, NEW s, SourceMatch(p, i, s, t.src[i])
    PROVE  Follows(p, t, [srcs EXCEPT ![i] = s], rngs, ended, i, stops, rows)
<1> DEFINE a == [srcs EXCEPT ![i] = s]
<1>1. DOMAIN srcs = DOMAIN p.config
      /\ \A j \in DOMAIN p.config : SourceMatch(p, j, srcs[j], t.src[j])
  BY FollowsParts
<1>2. DOMAIN a = DOMAIN p.config /\ a[i] = s /\ \A j \in DOMAIN p.config : j # i => a[j] = srcs[j]
  BY <1>1
<1> HIDE DEF a
<1>3. ASSUME NEW j \in DOMAIN p.config
      PROVE  SourceMatch(p, j, a[j], t.src[j])
  <2>1. CASE j = i
    BY <1>2, <2>1
  <2>2. CASE j # i
    BY <1>1, <1>2, <2>2
  <2> QED
    BY <2>1, <2>2
<1>4. Follows(p, t, a, rngs, ended, i, stops, rows)
  BY <1>2, <1>3 DEF Follows
<1> QED
  BY <1>4 DEF a

\* ... and one that it makes too.
LEMMA FollowsOn ==
    ASSUME NEW p, Planned(p), NEW t, NEW srcs, NEW rngs, NEW ended, NEW i, NEW stops,
           NEW rows, Follows(p, t, srcs, rngs, ended, i, stops, rows),
           i \in DOMAIN p.config, NEW s, Outcome(p, i, t.src[i]) = "go",
           SourceMatch(p, i, s, After(p, i, t.src[i]))
    PROVE  Follows(p, TimelineStep(p, t), [srcs EXCEPT ![i] = s], rngs, ended, i, stops, rows)
<1> DEFINE v == TimelineStep(p, t)
           u == After(p, i, t.src[i])
           a == [srcs EXCEPT ![i] = s]
           b == [t.src EXCEPT ![i] = u]
<1>1. /\ t.rng = rngs /\ t.exhausted = ended /\ t.asked = i /\ rngs \in Nat
      /\ ~t.stopped /\ ~stops /\ t.asked # 0
      /\ Delivered(rows, t)
      /\ DOMAIN srcs = DOMAIN p.config /\ DOMAIN t.src = DOMAIN p.config
      /\ \A j \in DOMAIN p.config : SourceMatch(p, j, srcs[j], t.src[j])
      /\ \A j \in DOMAIN p.config : j # i => Idle(p, t.src[j])
  BY FollowsParts
<1>2. v = Core(b, t.rng, t.exhausted, i, FALSE, t.count, t.rows)
  BY <1>1 DEF TimelineStep
<1> HIDE DEF u
<1>3. /\ DOMAIN a = DOMAIN p.config /\ DOMAIN b = DOMAIN p.config
      /\ \A j \in DOMAIN p.config : SourceMatch(p, j, a[j], b[j])
      /\ \A j \in DOMAIN p.config : j # i => Idle(p, b[j])
  <2>1. SourceMatch(p, i, s, u)
    BY DEF u
  <2> QED
    BY <1>1, <2>1, OneMoves
<1> HIDE DEF v, a, b
<1>4. /\ v.src = b /\ v.rng = t.rng /\ v.exhausted = t.exhausted /\ v.asked = i
      /\ ~v.stopped /\ v.count = t.count /\ v.rows = t.rows
  BY <1>2 DEF Core
<1>5. Delivered(rows, v)
  BY <1>1, <1>4, SameDelivered
<1>6. Follows(p, v, a, rngs, ended, i, stops, rows)
  BY <1>1, <1>3, <1>4, <1>5 DEF Follows
<1> QED
  BY <1>6 DEF v, a

\* A row.
LEMMA FollowsRow ==
    ASSUME NEW p, Planned(p), NEW t, NEW srcs, NEW rngs, NEW ended, NEW i, NEW stops,
           NEW rows, Follows(p, t, srcs, rngs, ended, i, stops, rows),
           i \in DOMAIN p.config, NEW s, Outcome(p, i, t.src[i]) = "row",
           SourceMatch(p, i, s, After(p, i, t.src[i])), Idle(p, After(p, i, t.src[i])),
           NEW z, z = 0
    PROVE  Follows(p, TimelineStep(p, t), [srcs EXCEPT ![i] = s], rngs, ended, z, stops,
                   Append(rows, RowOf(p, i, t.src[i])))
<1> DEFINE v == TimelineStep(p, t)
           u == After(p, i, t.src[i])
           row == RowOf(p, i, t.src[i])
           a == [srcs EXCEPT ![i] = s]
           b == [t.src EXCEPT ![i] = u]
<1>1. /\ t.rng = rngs /\ t.exhausted = ended /\ t.asked = i /\ rngs \in Nat
      /\ ~t.stopped /\ ~stops /\ t.asked # 0
      /\ Delivered(rows, t)
      /\ DOMAIN srcs = DOMAIN p.config /\ DOMAIN t.src = DOMAIN p.config
      /\ \A j \in DOMAIN p.config : SourceMatch(p, j, srcs[j], t.src[j])
      /\ \A j \in DOMAIN p.config : j # i => Idle(p, t.src[j])
  BY FollowsParts
<1>2. v = Core(b, t.rng, t.exhausted, 0, FALSE, t.count + 1, Longer(t, row))
  BY <1>1 DEF TimelineStep
<1>3. /\ DOMAIN a = DOMAIN p.config /\ DOMAIN b = DOMAIN p.config
      /\ \A j \in DOMAIN p.config : SourceMatch(p, j, a[j], b[j])
      /\ \A j \in DOMAIN p.config : Idle(p, b[j])
  <2> HIDE DEF u
  <2>1. SourceMatch(p, i, s, u) /\ Idle(p, u)
    BY DEF u
  <2> QED
    BY <1>1, <2>1, OneMoves
<1> HIDE DEF v, a, b, row
<1>4. /\ v.src = b /\ v.rng = t.rng /\ v.exhausted = t.exhausted /\ v.asked = z
      /\ ~v.stopped /\ v.count = t.count + 1 /\ v.rows = Longer(t, row)
  BY <1>2 DEF Core
<1>5. Delivered(Append(rows, row), v)
  BY <1>1, <1>4, OneDelivered
<1>6. Follows(p, v, a, rngs, ended, z, stops, Append(rows, row))
  BY <1>1, <1>3, <1>4, <1>5 DEF Follows
<1> QED
  BY <1>6 DEF v, a, row

\* StopIteration, of a source that ends the stream ...
LEMMA FollowsStop ==
    ASSUME NEW p, Planned(p), NEW t, NEW srcs, NEW rngs, NEW ended, NEW i, NEW stops,
           NEW rows, Follows(p, t, srcs, rngs, ended, i, stops, rows),
           i \in DOMAIN p.config, Outcome(p, i, t.src[i]) = "stop", Idle(p, t.src[i]),
           NEW z, z = 0, NEW ends, ends, NEW over,
           \/ p.strategy = "on_first_exhausted" /\ over = ended
           \/ p.strategy # "on_first_exhausted" /\ over = ended \cup {i} /\ over = DOMAIN p.config
    PROVE  Follows(p, TimelineStep(p, t), srcs, rngs, over, z, ends, rows)
           /\ TimelineStep(p, t).stopped
<1> DEFINE v == TimelineStep(p, t)
<1>1. /\ t.rng = rngs /\ t.exhausted = ended /\ t.asked = i /\ rngs \in Nat
      /\ ~t.stopped /\ ~stops /\ t.asked # 0
      /\ Delivered(rows, t)
      /\ DOMAIN srcs = DOMAIN p.config /\ DOMAIN t.src = DOMAIN p.config
      /\ \A j \in DOMAIN p.config : SourceMatch(p, j, srcs[j], t.src[j])
      /\ \A j \in DOMAIN p.config : j # i => Idle(p, t.src[j])
  BY FollowsParts
<1>2. v = Core(t.src, t.rng, over, 0, TRUE, t.count, t.rows)
  BY <1>1 DEF TimelineStep
<1> HIDE DEF v
<1>3. /\ v.src = t.src /\ v.rng = t.rng /\ v.exhausted = over /\ v.asked = z
      /\ v.stopped /\ v.count = t.count /\ v.rows = t.rows
  BY <1>2 DEF Core
<1>4. \A j \in DOMAIN p.config : Idle(p, t.src[j])
  BY <1>1
<1>5. Delivered(rows, v)
  BY <1>1, <1>3, SameDelivered
<1>6. Follows(p, v, srcs, rngs, over, z, ends, rows)
  BY <1>1, <1>3, <1>4, <1>5 DEF Follows
<1> QED
  BY <1>3, <1>6 DEF v

\* ... and of one that is re-looped.
LEMMA FollowsReloop ==
    ASSUME NEW p, Planned(p), NEW t, NEW srcs, NEW rngs, NEW ended, NEW i, NEW stops,
           NEW rows, Follows(p, t, srcs, rngs, ended, i, stops, rows),
           i \in DOMAIN p.config, NEW s, Outcome(p, i, t.src[i]) = "stop",
           SourceMatch(p, i, s, After(p, i, t.src[i])), Idle(p, After(p, i, t.src[i])),
           NEW z, z = 0, NEW over, p.strategy # "on_first_exhausted",
           over = ended \cup {i}, over # DOMAIN p.config
    PROVE  Follows(p, TimelineStep(p, t), [srcs EXCEPT ![i] = s], rngs, over, z, stops, rows)
<1> DEFINE v == TimelineStep(p, t)
           u == After(p, i, t.src[i])
           a == [srcs EXCEPT ![i] = s]
           b == [t.src EXCEPT ![i] = u]
<1>1. /\ t.rng = rngs /\ t.exhausted = ended /\ t.asked = i /\ rngs \in Nat
      /\ ~t.stopped /\ ~stops /\ t.asked # 0
      /\ Delivered(rows, t)
      /\ DOMAIN srcs = DOMAIN p.config /\ DOMAIN t.src = DOMAIN p.config
      /\ \A j \in DOMAIN p.config : SourceMatch(p, j, srcs[j], t.src[j])
      /\ \A j \in DOMAIN p.config : j # i => Idle(p, t.src[j])
  BY FollowsParts
<1>2. v = Core(b, t.rng, over, 0, FALSE, t.count, t.rows)
  BY <1>1 DEF TimelineStep
<1>3. /\ DOMAIN a = DOMAIN p.config /\ DOMAIN b = DOMAIN p.config
      /\ \A j \in DOMAIN p.config : SourceMatch(p, j, a[j], b[j])
      /\ \A j \in DOMAIN p.config : Idle(p, b[j])
  <2> HIDE DEF u
  <2>1. SourceMatch(p, i, s, u) /\ Idle(p, u)
    BY DEF u
  <2> QED
    BY <1>1, <2>1, OneMoves
<1> HIDE DEF v, a, b
<1>4. /\ v.src = b /\ v.rng = t.rng /\ v.exhausted = over /\ v.asked = z
      /\ ~v.stopped /\ v.count = t.count /\ v.rows = t.rows
  BY <1>2 DEF Core
<1>5. Delivered(rows, v)
  BY <1>1, <1>4, SameDelivered
<1>6. Follows(p, v, a, rngs, over, z, stops, rows)
  BY <1>1, <1>3, <1>4, <1>5 DEF Follows
<1> QED
  BY <1>6 DEF v, a

-----------------------------------------------------------------------------
(* The steps of a source, of whichever kind.                               *)

\* The plan is what was chosen at the start.
LEMMA PlanFields ==
    /\ Plan.what = "run" /\ Plan.config = config /\ Plan.kind = kind
    /\ Plan.strategy = strategy /\ Plan.draws = draws
    /\ \A i \in Sources : Plan.reads[i] = Reads(config[i])
BY DEF Plan

LEMMA PlanFacts ==
    ASSUME Planned(Plan), NEW i \in Sources
    PROVE  /\ Plan.config = config /\ Plan.config[i] = config[i] /\ Plan.kind = kind
           /\ config[i] \in SourceType
           /\ kind \in {"text", "chat", "mm"} /\ Plan.reads[i] = Reads(config[i])
           /\ kind = "mm" => strategy = "on_first_exhausted"
<1>1. /\ Plan.config = config /\ Plan.kind = kind /\ Plan.strategy = strategy
      /\ Plan.reads[i] = Reads(config[i]) /\ i \in DOMAIN config
  BY PlanFields DEF Sources
<1> DEFINE p == Plan
<1>2. p.config = config /\ p.kind = kind /\ p.strategy = strategy /\ Planned(p)
  BY <1>1
<1> HIDE DEF p
<1>3. /\ config[i] \in SourceType /\ kind \in {"text", "chat", "mm"}
      /\ kind = "mm" => strategy = "on_first_exhausted"
  BY <1>1, <1>2 DEF Planned
<1> QED
  BY <1>1, <1>3

SourceInner(i) ==
    \/ kind = "text" /\ (Text!ReadSample(i) \/ Text!EndOfData(i))
    \/ kind = "chat" /\ (Chat!ReadSample(i) \/ Chat!AddPending(i) \/ Chat!EndOfData(i))
    \/ kind = "mm" /\ (MM!ReadSample(i) \/ MM!EndOfData(i) \/ MM!Drain(i) \/ MM!StartOver(i))

SourceYields(i, row) ==
    \/ kind = "text" /\ Text!Yield(i) /\ row = Text!Row(i)
    \/ kind = "chat" /\ Chat!Yield(i) /\ row = Chat!Row(i)
    \/ kind = "mm" /\ MM!Yield(i) /\ row = MM!Row(i)

SourceEnds(i) ==
    \/ kind = "text" /\ Text!StopsIteration(i)
    \/ kind = "chat" /\ Chat!StopsIteration(i)
    \/ kind = "mm" /\ MM!StopsIteration(i)

\* A step inside next().
LEMMA InnerMatches ==
    ASSUME Planned(Plan), NEW i \in Sources, NEW u, SourceMatch(Plan, i, src[i], u),
           SourceInner(i)
    PROVE  \E s : /\ src' = [src EXCEPT ![i] = s]
                  /\ \/ SourceMatch(Plan, i, s, u)
                     \/ /\ Outcome(Plan, i, u) = "go"
                        /\ SourceMatch(Plan, i, s, After(Plan, i, u))
<1>1. /\ Plan.config[i] = config[i] /\ Plan.kind = kind /\ config[i] \in SourceType
      /\ kind \in {"text", "chat", "mm"} /\ Plan.reads[i] = Reads(config[i])
  BY PlanFacts
<1>2. CASE kind = "text"
  <2>1. TextMatch(config[i], src[i], u)
    BY <1>1, <1>2 DEF SourceMatch
  <2>2. Text!ReadSample(i) \/ Text!EndOfData(i)
    BY <1>2 DEF SourceInner
  <2>3. PICK s : src' = [src EXCEPT ![i] = s] /\ TextMatch(config[i], s, u)
    BY <1>1, <2>1, <2>2, TextInner
  <2>4. SourceMatch(Plan, i, s, u)
    BY <1>1, <1>2, <2>3 DEF SourceMatch
  <2> QED
    BY <2>3, <2>4
<1>3. CASE kind = "chat"
  <2>1. ChatMatch(config[i], src[i], u)
    BY <1>1, <1>3 DEF SourceMatch
  <2>2. Chat!ReadSample(i) \/ Chat!AddPending(i) \/ Chat!EndOfData(i)
    BY <1>3 DEF SourceInner
  <2> DEFINE s == ChatAfter(config[i], u)
  <2>3. ChatOutcome(config[i], u) = "go" /\ src' = [src EXCEPT ![i] = s]
    BY <1>1, <2>1, <2>2, ChatInner
  <2>4. ChatMatch(config[i], s, s)
    <3>1. ChatOk(u)
      BY <2>1 DEF ChatMatch
    <3>2. ChatOk(s)
      BY <1>1, <3>1, ChatSteps
    <3> HIDE DEF s
    <3> QED
      BY <3>2 DEF ChatMatch
  <2>5. Outcome(Plan, i, u) = "go" /\ After(Plan, i, u) = s
    BY <1>1, <1>3, <2>3 DEF Outcome, After
  <2> HIDE DEF s
  <2>6. SourceMatch(Plan, i, s, s)
    BY <1>1, <1>3, <2>4 DEF SourceMatch
  <2> QED
    BY <2>3, <2>5, <2>6
<1>4. CASE kind = "mm"
  <2>1. MMMatch(config[i], src[i], u)
    BY <1>1, <1>4 DEF SourceMatch
  <2>2. MM!ReadSample(i) \/ MM!EndOfData(i) \/ MM!Drain(i) \/ MM!StartOver(i)
    BY <1>4 DEF SourceInner
  <2> DEFINE s == MMAfter(config[i], u)
  <2>3. \/ MMOutcome(config[i], u) = "go" /\ src' = [src EXCEPT ![i] = s]
        \/ src' = [src EXCEPT ![i] = u]
    BY <2>1, <2>2, MMInner
  <2>4. MMOk(config[i], u)
    BY <2>1 DEF MMMatch
  <2>5. CASE src' = [src EXCEPT ![i] = u]
    <3>1. SourceMatch(Plan, i, u, u)
      BY <1>1, <1>4, <2>4 DEF SourceMatch, MMMatch
    <3> QED
      BY <2>5, <3>1
  <2>6. CASE MMOutcome(config[i], u) = "go" /\ src' = [src EXCEPT ![i] = s]
    <3>1. MMOk(config[i], s)
      BY <1>1, <2>4, <2>6, MMSteps
    <3>2. Outcome(Plan, i, u) = "go" /\ After(Plan, i, u) = s
      BY <1>1, <1>4, <2>6 DEF Outcome, After
    <3> HIDE DEF s
    <3>3. SourceMatch(Plan, i, s, s)
      BY <1>1, <1>4, <3>1 DEF SourceMatch, MMMatch
    <3> QED
      BY <2>6, <3>2, <3>3
  <2> QED
    BY <2>3, <2>5, <2>6
<1> QED
  BY <1>1, <1>2, <1>3, <1>4

\* A row.
LEMMA YieldMatches ==
    ASSUME Planned(Plan), NEW i \in Sources, NEW u, SourceMatch(Plan, i, src[i], u),
           NEW row, SourceYields(i, row)
    PROVE  /\ Outcome(Plan, i, u) = "row" /\ row = RowOf(Plan, i, u)
           /\ Idle(Plan, After(Plan, i, u))
           /\ \E s : /\ src' = [src EXCEPT ![i] = s]
                     /\ SourceMatch(Plan, i, s, After(Plan, i, u))
<1>1. /\ Plan.config[i] = config[i] /\ Plan.kind = kind /\ config[i] \in SourceType
      /\ kind \in {"text", "chat", "mm"} /\ Plan.reads[i] = Reads(config[i])
  BY PlanFacts
<1>2. CASE kind = "text"
  <2>1. TextMatch(config[i], src[i], u)
    BY <1>1, <1>2 DEF SourceMatch
  <2>2. Text!Yield(i) /\ row = Text!Row(i)
    BY <1>2 DEF SourceYields
  <2> DEFINE v == TextAfter(config[i], Reads(config[i]), u)
  <2>3. /\ TextOutcome(config[i], Reads(config[i]), u) = "row"
        /\ row = TextRowOf(i, Reads(config[i]), u)
        /\ \E s : src' = [src EXCEPT ![i] = s] /\ TextMatch(config[i], s, v)
    BY <1>1, <2>1, <2>2, TextDelivers
  <2>4. /\ Outcome(Plan, i, u) = "row" /\ row = RowOf(Plan, i, u) /\ After(Plan, i, u) = v
    BY <1>1, <1>2, <2>3 DEF Outcome, After, RowOf
  <2> HIDE DEF v
  <2>5. \A s : TextMatch(config[i], s, v) => SourceMatch(Plan, i, s, v)
    BY <1>1, <1>2 DEF SourceMatch
  <2>6. Idle(Plan, v)
    BY <1>1, <1>2 DEF Idle
  <2> QED
    BY <2>3, <2>4, <2>5, <2>6
<1>3. CASE kind = "chat"
  <2>1. ChatMatch(config[i], src[i], u)
    BY <1>1, <1>3 DEF SourceMatch
  <2>2. Chat!Yield(i) /\ row = Chat!Row(i)
    BY <1>3 DEF SourceYields
  <2> DEFINE s == ChatAfter(config[i], u)
  <2>3. ChatOutcome(config[i], u) = "row" /\ row = ChatRowOf(i, u)
        /\ src' = [src EXCEPT ![i] = s]
    BY <2>1, <2>2, ChatYields
  <2>4. ChatMatch(config[i], s, s) /\ s.pc # "yield"
    <3>1. ChatOk(u)
      BY <2>1 DEF ChatMatch
    <3>2. ChatOk(s) /\ s.pc # "yield"
      BY <1>1, <2>3, <3>1, ChatSteps
    <3> HIDE DEF s
    <3> QED
      BY <3>2 DEF ChatMatch
  <2>5. Outcome(Plan, i, u) = "row" /\ After(Plan, i, u) = s /\ row = RowOf(Plan, i, u)
    BY <1>1, <1>3, <2>3 DEF Outcome, After, RowOf
  <2> HIDE DEF s
  <2>6. SourceMatch(Plan, i, s, s) /\ Idle(Plan, s)
    BY <1>1, <1>3, <2>4 DEF SourceMatch, Idle
  <2> QED
    BY <2>3, <2>5, <2>6
<1>4. CASE kind = "mm"
  <2>1. MMMatch(config[i], src[i], u)
    BY <1>1, <1>4 DEF SourceMatch
  <2>2. MM!Yield(i) /\ row = MM!Row(i)
    BY <1>4 DEF SourceYields
  <2> DEFINE s == MMAfter(config[i], u)
  <2>3. MMOutcome(config[i], u) = "row" /\ row = MMRowOf(i, u) /\ src' = [src EXCEPT ![i] = s]
    BY <2>1, <2>2, MMYields
  <2>4. MMMatch(config[i], s, s)
    <3>1. MMOk(config[i], u)
      BY <2>1 DEF MMMatch
    <3>2. MMOk(config[i], s)
      BY <1>1, <2>3, <3>1, MMSteps
    <3> HIDE DEF s
    <3> QED
      BY <3>2 DEF MMMatch
  <2>5. Outcome(Plan, i, u) = "row" /\ After(Plan, i, u) = s /\ row = RowOf(Plan, i, u)
    BY <1>1, <1>4, <2>3 DEF Outcome, After, RowOf
  <2> HIDE DEF s
  <2>6. SourceMatch(Plan, i, s, s) /\ Idle(Plan, s)
    BY <1>1, <1>4, <2>4 DEF SourceMatch, Idle
  <2> QED
    BY <2>3, <2>5, <2>6
<1> QED
  BY <1>1, <1>2, <1>3, <1>4

\* StopIteration.
LEMMA EndMatches ==
    ASSUME Planned(Plan), NEW i \in Sources, NEW u, SourceMatch(Plan, i, src[i], u),
           SourceEnds(i)
    PROVE  /\ Outcome(Plan, i, u) = "stop" /\ Idle(Plan, u)
           /\ strategy # "on_first_exhausted" =>
                 /\ SourceMatch(Plan, i, Relooped(src[i]), After(Plan, i, u))
                 /\ Idle(Plan, After(Plan, i, u))
<1>1. /\ Plan.config[i] = config[i] /\ Plan.kind = kind /\ config[i] \in SourceType
      /\ kind \in {"text", "chat", "mm"} /\ Plan.reads[i] = Reads(config[i])
      /\ kind = "mm" => strategy = "on_first_exhausted"
  BY PlanFacts
<1>2. CASE kind = "text"
  <2>1. TextMatch(config[i], src[i], u)
    BY <1>1, <1>2 DEF SourceMatch
  <2>2. Text!StopsIteration(i)
    BY <1>2 DEF SourceEnds
  <2> DEFINE v == TextAfter(config[i], Reads(config[i]), u)
  <2>3. /\ TextOutcome(config[i], Reads(config[i]), u) = "stop"
        /\ TextMatch(config[i], Relooped(src[i]), v)
    BY <1>1, <2>1, <2>2, TextExhausted
  <2>4. Outcome(Plan, i, u) = "stop" /\ After(Plan, i, u) = v
    BY <1>1, <1>2, <2>3 DEF Outcome, After
  <2> HIDE DEF v
  <2>5. SourceMatch(Plan, i, Relooped(src[i]), v) /\ Idle(Plan, v) /\ Idle(Plan, u)
    BY <1>1, <1>2, <2>3 DEF SourceMatch, Idle
  <2> QED
    BY <2>4, <2>5
<1>3. CASE kind = "chat"
  <2>1. ChatMatch(config[i], src[i], u)
    BY <1>1, <1>3 DEF SourceMatch
  <2>2. Chat!StopsIteration(i)
    BY <1>3 DEF SourceEnds
  <2> DEFINE s == ChatAfter(config[i], u)
  <2>3. ChatOutcome(config[i], u) = "stop" /\ Relooped(src[i]) = s
    BY <2>1, <2>2, ChatStops
  <2>4. ChatMatch(config[i], s, s) /\ s.pc # "yield"
    <3>1. ChatOk(u)
      BY <2>1 DEF ChatMatch
    <3>2. ChatOk(s) /\ s.pc # "yield"
      BY <1>1, <2>3, <3>1, ChatSteps
    <3> HIDE DEF s
    <3> QED
      BY <3>2 DEF ChatMatch
  <2>5. Outcome(Plan, i, u) = "stop" /\ After(Plan, i, u) = s
    BY <1>1, <1>3, <2>3 DEF Outcome, After
  <2> HIDE DEF s
  <2>6. u.pc # "yield"
    BY <2>3 DEF ChatOutcome
  <2>7. SourceMatch(Plan, i, s, s) /\ Idle(Plan, s) /\ Idle(Plan, u)
    BY <1>1, <1>3, <2>4, <2>6 DEF SourceMatch, Idle
  <2> QED
    BY <2>3, <2>5, <2>7
<1>4. CASE kind = "mm"
  <2>1. MMMatch(config[i], src[i], u)
    BY <1>1, <1>4 DEF SourceMatch
  <2>2. MM!StopsIteration(i)
    BY <1>4 DEF SourceEnds
  <2>3. MMOutcome(config[i], u) = "stop"
    BY <2>1, <2>2, MMStops
  <2>4. Outcome(Plan, i, u) = "stop" /\ Idle(Plan, u)
    BY <1>1, <1>4, <2>3 DEF Outcome, Idle
  <2> QED
    BY <1>1, <1>4, <2>4
<1> QED
  BY <1>1, <1>2, <1>3, <1>4

\* A state dict taken between two rows, and the source built from it.
LEMMA RestoreMatches ==
    ASSUME Planned(Plan), NEW i \in Sources, NEW u, SourceMatch(Plan, i, src[i], u),
           Idle(Plan, u), ~SourceHoldsMore(i)
    PROVE  SourceMatch(Plan, i, SourceRestored(i, SourceState(i)), u)
<1>1. /\ Plan.config[i] = config[i] /\ Plan.kind = kind /\ config[i] \in SourceType
      /\ kind \in {"text", "chat", "mm"}
  BY PlanFacts
<1>2. CASE kind = "text"
  <2>1. TextMatch(config[i], src[i], u) /\ ~Text!HoldsMore(i)
    BY <1>1, <1>2 DEF SourceMatch, SourceHoldsMore
  <2>2. TextMatch(config[i], Text!Restored(i, Text!StateDict(i)), u)
    BY <1>1, <2>1, TextResumes
  <2>3. SourceRestored(i, SourceState(i)) = Text!Restored(i, Text!StateDict(i))
    BY <1>2, Zenon DEF SourceRestored, SourceState
  <2> QED
    BY <1>1, <1>2, <2>2, <2>3 DEF SourceMatch
<1>3. CASE kind = "chat"
  <2>1. ChatMatch(config[i], src[i], u) /\ u.pc # "yield"
    BY <1>1, <1>3 DEF SourceMatch, Idle
  <2>2. ChatMatch(config[i], Chat!Restored(i, Chat!StateDict(i)), u)
    BY <2>1, ChatRestores
  <2>3. SourceRestored(i, SourceState(i)) = Chat!Restored(i, Chat!StateDict(i))
    BY <1>3 DEF SourceRestored, SourceState
  <2> QED
    BY <1>1, <1>3, <2>2, <2>3 DEF SourceMatch
<1>4. CASE kind = "mm"
  <2>1. MMMatch(config[i], src[i], u) /\ ~MM!HoldsMore(i)
    BY <1>1, <1>4 DEF SourceMatch, SourceHoldsMore
  <2>2. MMMatch(config[i], MM!Restored(i, MM!StateDict(i)), u)
    BY <2>1, MMRestores
  <2>3. SourceRestored(i, SourceState(i)) = MM!Restored(i, MM!StateDict(i))
    BY <1>4 DEF SourceRestored, SourceState
  <2> QED
    BY <1>1, <1>4, <2>2, <2>3 DEF SourceMatch
<1> QED
  BY <1>1, <1>2, <1>3, <1>4

\* A source built anew.
LEMMA StartMatches ==
    ASSUME Planned(Plan), NEW i \in Sources
    PROVE  /\ SourceMatch(Plan, i, FreshOf(kind), Timeline0(Plan).src[i])
           /\ Idle(Plan, Timeline0(Plan).src[i])
           /\ DOMAIN Timeline0(Plan).src = Sources
<1>1. /\ Plan.config = config /\ Plan.kind = kind /\ config[i] \in SourceType
      /\ kind \in {"text", "chat", "mm"}
  BY PlanFacts
<1> DEFINE u == Timeline0(Plan).src[i]
<1>2. /\ u = IF kind = "text" THEN TextFresh ELSE IF kind = "chat" THEN Chat!Fresh ELSE MM!Fresh
      /\ DOMAIN Timeline0(Plan).src = Sources
  <2> DEFINE fresh == [j \in DOMAIN Plan.config |-> IF Plan.kind = "text" THEN TextFresh
                                    ELSE IF Plan.kind = "chat" THEN Chat!Fresh ELSE MM!Fresh]
  <2>1. Timeline0(Plan).src = fresh
    BY DEF Timeline0, Core
  <2>2. DOMAIN Plan.config = Sources
    BY <1>1 DEF Sources
  <2>3. fresh[i] = IF Plan.kind = "text" THEN TextFresh
                   ELSE IF Plan.kind = "chat" THEN Chat!Fresh ELSE MM!Fresh
    BY <2>2
  <2>4. DOMAIN fresh = Sources
    BY <2>2
  <2> HIDE DEF fresh
  <2> QED
    BY <1>1, <2>1, <2>3, <2>4
<1> HIDE DEF u
<1>3. CASE kind = "text"
  <2>1. u = TextFresh /\ FreshOf(kind) = Text!Fresh
    BY <1>2, <1>3 DEF FreshOf
  <2> QED
    BY <1>1, <1>2, <1>3, <2>1, TextStarts DEF SourceMatch, Idle, u
<1>4. CASE kind = "chat"
  <2>1. u = Chat!Fresh /\ FreshOf(kind) = Chat!Fresh
    BY <1>2, <1>4 DEF FreshOf
  <2>2. ChatMatch(config[i], Chat!Fresh, Chat!Fresh)
    BY ChatStarts DEF ChatMatch
  <2>3. Chat!Fresh.pc # "yield"
    BY DEF Chat!Fresh
  <2> QED
    BY <1>1, <1>2, <1>4, <2>1, <2>2, <2>3 DEF SourceMatch, Idle, u
<1>5. CASE kind = "mm"
  <2>1. u = MM!Fresh /\ FreshOf(kind) = MM!Fresh
    BY <1>2, <1>5 DEF FreshOf
  <2>2. MMMatch(config[i], MM!Fresh, MM!Fresh)
    BY MMStarts DEF MMMatch
  <2> QED
    BY <1>1, <1>2, <1>5, <2>1, <2>2 DEF SourceMatch, Idle, u
<1> QED
  BY <1>1, <1>3, <1>4, <1>5

-----------------------------------------------------------------------------
(* The inductive invariant, and ResumeExact.                               *)

\* A run that lost nothing is somewhere along the uninterrupted one, ...
OnTimeline ==
    complete => \E n \in Nat : Follows(Plan, Timeline[n], src, rng, exhausted, asked, stopped, out)

\* ... so is what a checkpoint that left nothing out brings back, ...
Resumed == [i \in Sources |-> SourceRestored(i, saved.sources[i])]
SavedOnTimeline ==
    saved # <<>> /\ saved.whole =>
        \E n \in Nat : \A off : ~off =>
            Follows(Plan, Timeline[n], Resumed, saved.rng, {}, 0, off, saved.rows)

\* ... and what has been seen so far is the start of its rows and its end.
SeenOnTimeline == \E n \in Nat : Delivered(seen, Timeline[n])
EndOnTimeline ==
    seenEnd # -1 => \E n \in Nat : Timeline[n].stopped /\ Timeline[n].count = seenEnd

IInv == Planned(Plan) /\ OnTimeline /\ SavedOnTimeline /\ SeenOnTimeline /\ EndOnTimeline

\* The uninterrupted run, step by step.
LEMMA TimelineSteps ==
    /\ Timeline[0] = Timeline0(Plan)
    /\ \A n \in Nat : Timeline[n + 1] = TimelineStep(Plan, Timeline[n])
BY PlanFields, TimelineRun DEF Timeline

\* Of two rows of the uninterrupted run at one place neither differs, and it
\* ends once.
LEMMA ResumeExactHolds ==
    ASSUME IInv
    PROVE  ResumeExact
<1> SUFFICES ASSUME complete PROVE AgreesWithSeen
  BY DEF ResumeExact
<1>1. PICK n \in Nat : Follows(Plan, Timeline[n], src, rng, exhausted, asked, stopped, out)
  BY DEF IInv, OnTimeline
<1>2. PICK m \in Nat : Delivered(seen, Timeline[m])
  BY DEF IInv, SeenOnTimeline
<1> DEFINE t(k) == Timeline[k]
<1>3. /\ out \in Seq({out[k] : k \in DOMAIN out}) /\ Len(out) = t(n).count
      /\ \A k \in 1 .. t(n).count : out[k] = t(n).rows[k]
  BY <1>1 DEF Follows, Delivered
<1>4. /\ seen \in Seq({seen[k] : k \in DOMAIN seen}) /\ Len(seen) = t(m).count
      /\ \A k \in 1 .. t(m).count : seen[k] = t(m).rows[k]
  BY <1>2 DEF Delivered
<1>5. stopped <=> t(n).stopped
  BY <1>1 DEF Follows
<1>6. ASSUME NEW a \in Nat, NEW b \in Nat, a <= b
      PROVE  /\ t(a).count \in Nat /\ t(b).count \in Nat /\ t(a).count <= t(b).count
             /\ \A k \in 1 .. t(a).count : t(b).rows[k] = t(a).rows[k]
             /\ t(a).stopped => t(b) = t(a)
  BY <1>6, PlanFields, CountTyped, TimelineGrows DEF Timeline
<1>7. DOMAIN out = 1 .. t(n).count /\ t(n).count \in Nat /\ t(m).count \in Nat
  <2>1. DOMAIN out = 1 .. Len(out)
    BY <1>3, LenProperties
  <2> HIDE DEF t
  <2>2. t(n).count \in Nat /\ t(m).count \in Nat
    BY <1>6
  <2> QED
    BY <2>1, <2>2, <1>3
<1> HIDE DEF t
<1>8. ASSUME NEW k \in DOMAIN out, k <= Len(seen)
      PROVE  out[k] = seen[k]
  <2>1. k \in 1 .. t(n).count /\ k \in 1 .. t(m).count
    BY <1>4, <1>7, <1>8
  <2>2. out[k] = t(n).rows[k] /\ seen[k] = t(m).rows[k]
    BY <1>3, <1>4, <2>1
  <2>3. CASE n <= m
    BY <1>6, <2>1, <2>2, <2>3
  <2>4. CASE m <= n
    BY <1>6, <2>1, <2>2, <2>4
  <2> QED
    BY <2>3, <2>4
<1>9. ASSUME seenEnd # -1
      PROVE  Len(out) <= seenEnd /\ (stopped => Len(out) = seenEnd)
  <2>1. PICK e \in Nat : t(e).stopped /\ t(e).count = seenEnd
    BY <1>9 DEF IInv, EndOnTimeline, t
  <2>2. CASE n <= e
    <3>1. t(n).count <= t(e).count /\ (t(n).stopped => t(e) = t(n))
      BY <1>6, <2>2
    <3> QED
      BY <1>3, <1>5, <2>1, <3>1
  <2>3. CASE e <= n
    <3>1. t(n) = t(e) /\ t(n).count \in Nat
      BY <1>6, <2>1, <2>3
    <3> QED
      BY <1>3, <1>5, <2>1, <3>1
  <2> QED
    BY <2>2, <2>3
<1> QED
  BY <1>8, <1>9 DEF AgreesWithSeen

\* The plan never changes.
LEMMA PlanFixed ==
    ASSUME UNCHANGED chosen
    PROVE  /\ Plan' = Plan /\ Timeline' = Timeline /\ Sources' = Sources
           /\ config' = config /\ kind' = kind
<1>1. config' = config /\ kind' = kind /\ strategy' = strategy /\ draws' = draws
  BY DEF chosen
<1>2. Sources' = Sources
  BY <1>1 DEF Sources
<1>3. Plan' = Plan
  BY <1>1, <1>2, Zenon DEF Plan
<1> QED
  BY <1>1, <1>2, <1>3, Zenon DEF Timeline

\* What is kept by a step that leaves the checkpoint alone.
LEMMA SavedKept ==
    ASSUME UNCHANGED <<chosen, saved>>, SavedOnTimeline
    PROVE  SavedOnTimeline'
<1>1. Plan' = Plan /\ Timeline' = Timeline /\ Sources' = Sources
      /\ config' = config /\ kind' = kind /\ saved' = saved
  BY PlanFixed
<1>2. ASSUME NEW i
      PROVE  SourceRestored(i, saved.sources[i])' = SourceRestored(i, saved.sources[i])
  BY <1>1, Zenon DEF SourceRestored, Text!Restored, Chat!Restored, MM!Restored,
       Text!ResumePosition, Chat!ResumePosition, MM!ResumePosition
<1>3. Resumed' = Resumed
  BY <1>1, <1>2 DEF Resumed
<1> QED
  BY <1>1, <1>3 DEF SavedOnTimeline

LEMMA SeenKept ==
    ASSUME UNCHANGED <<chosen, seen, seenEnd>>, SeenOnTimeline, EndOnTimeline
    PROVE  SeenOnTimeline' /\ EndOnTimeline'
<1>1. Plan' = Plan /\ Timeline' = Timeline
  BY PlanFixed
<1> QED
  BY <1>1 DEF SeenOnTimeline, EndOnTimeline

\* What Configs allows is a plan.
LEMMA PlannedInit ==
    ASSUME Init
    PROVE  Planned(Plan)
<1>1. PICK c \in Configs :
          /\ config = c.sources /\ kind = c.kind /\ strategy = c.strategy
          /\ draws \in [1 .. MaxDraws -> DOMAIN c.sources]
  BY DEF Init
<1>2. /\ kind \in {"text", "chat", "mm"}
      /\ kind = "mm" => strategy = "on_first_exhausted"
      /\ config \in Seq(SourceType)
      /\ draws \in [1 .. MaxDraws -> DOMAIN config]
  BY <1>1, ConfigsAssumption DEF SourceType
<1>3. DOMAIN config = 1 .. Len(config) /\ Len(config) \in Nat
      /\ \A i \in 1 .. Len(config) : config[i] \in SourceType
  BY <1>2, LenProperties, ElementOfSeq
<1>4. 0 \notin DOMAIN config /\ \A i \in DOMAIN config : config[i] \in SourceType
  BY <1>3
<1> DEFINE p == Plan
<1>5. /\ p.what = "run" /\ p.config = config /\ p.kind = kind
      /\ p.strategy = strategy /\ p.draws = draws
      /\ \A i \in DOMAIN config : p.reads[i] = Reads(config[i])
  BY PlanFields DEF Sources
<1> HIDE DEF p
<1>6. Planned(p)
  BY <1>2, <1>4, <1>5 DEF Planned
<1> QED
  BY <1>6 DEF p

\* What is built anew is where the uninterrupted run starts.
LEMMA FreshFollows ==
    ASSUME Planned(Plan), NEW srcs, srcs = [i \in Sources |-> FreshOf(kind)],
           NEW z, z = 0, NEW none, none = {}, NEW off, ~off, NEW rows, rows = <<>>
    PROVE  Follows(Plan, Timeline[0], srcs, z, none, z, off, rows)
<1> DEFINE t == Timeline0(Plan)
           p == Plan
<1>1. Timeline[0] = t
  BY TimelineSteps
<1>2. DOMAIN p.config = Sources /\ 0 \notin Sources
  BY PlanFields DEF Planned, Sources
<1>3. /\ t.rng = 0 /\ t.exhausted = {} /\ t.asked = 0 /\ ~t.stopped /\ t.count = 0
      /\ DOMAIN t.src = DOMAIN p.config
  BY DEF Timeline0, Core
<1>4. \A i \in Sources : SourceMatch(p, i, srcs[i], t.src[i]) /\ Idle(p, t.src[i])
  BY StartMatches
<1> HIDE DEF t, p
<1>5. Delivered(rows, t)
  BY <1>3, NoneDelivered
<1>6. Follows(p, t, srcs, z, none, z, off, rows)
  BY <1>2, <1>3, <1>4, <1>5 DEF Follows
<1> QED
  BY <1>1, <1>6 DEF p

LEMMA IInvInit ==
    ASSUME Init
    PROVE  IInv
<1>1. Planned(Plan)
  BY PlannedInit
<1>2. /\ src = [i \in Sources |-> FreshOf(kind)]
      /\ rng = 0 /\ exhausted = {} /\ asked = 0 /\ ~stopped /\ out = <<>> /\ seen = <<>>
      /\ seenEnd = -1 /\ saved = <<>>
  BY DEF Init, Sources
<1>3. Follows(Plan, Timeline[0], src, rng, exhausted, asked, stopped, out)
  <2> DEFINE z == 0
             none == {}
             e == <<>>
  <2>1. z = 0 /\ none = {} /\ e = <<>>
    OBVIOUS
  <2> HIDE DEF z, none, e
  <2>2. Follows(Plan, Timeline[0], src, z, none, z, stopped, e)
    BY <1>1, <1>2, <2>1, FreshFollows
  <2> QED
    BY <1>2, <2>1, <2>2
<1>4. OnTimeline
  BY <1>3 DEF OnTimeline
<1>5. SavedOnTimeline /\ EndOnTimeline
  BY <1>2 DEF SavedOnTimeline, EndOnTimeline
<1>6. SeenOnTimeline
  <2>1. Delivered(out, Timeline[0])
    BY <1>3 DEF Follows
  <2> QED
    BY <1>2, <2>1 DEF SeenOnTimeline
<1> QED
  BY <1>1, <1>4, <1>5, <1>6 DEF IInv

LEMMA PlannedKept ==
    ASSUME Planned(Plan), UNCHANGED chosen
    PROVE  Planned(Plan)'
<1>1. Plan' = Plan
  BY PlanFixed
<1> QED
  BY <1>1

\* A step from state n of the uninterrupted run to its state m.
LEMMA OnTimelineTo ==
    ASSUME UNCHANGED chosen, NEW m \in Nat,
           complete => Follows(Plan, Timeline[m], src', rng', exhausted', asked', stopped', out'),
           UNCHANGED complete
    PROVE  OnTimeline'
<1>1. Plan' = Plan /\ Timeline' = Timeline
  BY PlanFixed
<1> QED
  BY <1>1 DEF OnTimeline

\* The steps keep the invariant.  A draw.
LEMMA DrawKeeps ==
    ASSUME IInv, Draw
    PROVE  IInv'
<1>1. /\ asked = 0 /\ ~stopped /\ rng < MaxDraws
      /\ rng' = rng + 1 /\ asked' = draws[rng + 1]
      /\ UNCHANGED chosen
      /\ UNCHANGED <<src, exhausted, stopped, out, seen, seenEnd, saved, complete>>
  BY DEF Draw
<1>2. OnTimeline'
  <2>1. CASE ~complete
    <3>1. ~complete'
      BY <1>1, <2>1
    <3> QED
      BY <3>1 DEF OnTimeline
  <2>2. CASE complete
    <3>1. PICK n \in Nat :
              Follows(Plan, Timeline[n], src, rng, exhausted, asked, stopped, out)
      BY <2>2 DEF IInv, OnTimeline
    <3>2. Follows(Plan, TimelineStep(Plan, Timeline[n]), src, rng + 1, exhausted,
                  Plan.draws[rng + 1], stopped, out)
      BY <1>1, <3>1, FollowsDraw DEF IInv
    <3>3. Timeline[n + 1] = TimelineStep(Plan, Timeline[n]) /\ Plan.draws = draws
      BY TimelineSteps, PlanFields
    <3>4. Follows(Plan, Timeline[n + 1], src', rng', exhausted', asked', stopped', out')
      BY <1>1, <3>2, <3>3
    <3> QED
      BY <1>1, <3>4, OnTimelineTo
  <2> QED
    BY <2>1, <2>2
<1>3. Planned(Plan)' /\ SavedOnTimeline' /\ SeenOnTimeline' /\ EndOnTimeline'
  BY <1>1, PlannedKept, SavedKept, SeenKept DEF IInv
<1> QED
  BY <1>2, <1>3 DEF IInv

\* A step inside next().
LEMMA InnerKeeps ==
    ASSUME IInv, NEW i \in Sources, asked = i, SourceInner(i), UNCHANGED <<Inside, Elsewhere>>
    PROVE  IInv'
<1>1. /\ UNCHANGED chosen
      /\ UNCHANGED <<rng, exhausted, asked, stopped, out, seen, seenEnd, saved, complete>>
  BY DEF Inside, Elsewhere
<1>2. OnTimeline'
  <2>1. CASE ~complete
    <3>1. ~complete'
      BY <1>1, <2>1
    <3> QED
      BY <3>1 DEF OnTimeline
  <2>2. CASE complete
    <3>1. PICK n \in Nat : Follows(Plan, Timeline[n], src, rng, exhausted, i, stopped, out)
      BY <2>2 DEF IInv, OnTimeline
    <3> DEFINE u == Timeline[n].src[i]
    <3>2. Planned(Plan) /\ i \in DOMAIN Plan.config
      BY PlanFields DEF IInv, Sources
    <3>3. SourceMatch(Plan, i, src[i], u)
      BY <3>1, <3>2, FollowsParts
    <3> HIDE DEF u
    <3>4. PICK s : /\ src' = [src EXCEPT ![i] = s]
                   /\ \/ SourceMatch(Plan, i, s, u)
                      \/ /\ Outcome(Plan, i, u) = "go"
                         /\ SourceMatch(Plan, i, s, After(Plan, i, u))
      BY <3>2, <3>3, InnerMatches
    <3> DEFINE after == [src EXCEPT ![i] = s]
    <3>5. CASE SourceMatch(Plan, i, s, u)
      <4>1. Follows(Plan, Timeline[n], after, rng, exhausted, i, stopped, out)
        BY <3>1, <3>2, <3>5, FollowsStill DEF u
      <4> HIDE DEF after
      <4>2. Follows(Plan, Timeline[n], src', rng', exhausted', asked', stopped', out')
        BY <1>1, <3>4, <4>1 DEF after
      <4> QED
        BY <1>1, <4>2, OnTimelineTo
    <3>6. CASE Outcome(Plan, i, u) = "go" /\ SourceMatch(Plan, i, s, After(Plan, i, u))
      <4>1. Follows(Plan, TimelineStep(Plan, Timeline[n]), after, rng, exhausted, i, stopped, out)
        BY <3>1, <3>2, <3>6, FollowsOn DEF u
      <4>2. Timeline[n + 1] = TimelineStep(Plan, Timeline[n])
        BY TimelineSteps
      <4>3. src' = after
        BY <3>4
      <4> HIDE DEF after
      <4>4. Follows(Plan, Timeline[n + 1], src', rng', exhausted', asked', stopped', out')
        BY <1>1, <4>1, <4>2, <4>3
      <4> QED
        BY <1>1, <4>4, OnTimelineTo
    <3> QED
      BY <3>4, <3>5, <3>6
  <2> QED
    BY <2>1, <2>2
<1>3. Planned(Plan)' /\ SavedOnTimeline' /\ SeenOnTimeline' /\ EndOnTimeline'
  BY <1>1, PlannedKept, SavedKept, SeenKept DEF IInv
<1> QED
  BY <1>2, <1>3 DEF IInv

\* A row.
LEMMA DeliverKeeps ==
    ASSUME IInv, NEW i \in Sources, asked = i, NEW row, SourceYields(i, row), Deliver(row),
           UNCHANGED Elsewhere
    PROVE  IInv'
<1>1. /\ UNCHANGED chosen
      /\ UNCHANGED <<rng, exhausted, stopped, seenEnd, saved, complete>>
      /\ out' = Append(out, row) /\ asked' = 0
      /\ seen' = IF complete /\ Len(out) = Len(seen) THEN out' ELSE seen
  BY DEF Elsewhere, Deliver
<1>2. Planned(Plan)' /\ SavedOnTimeline' /\ Timeline' = Timeline
  BY <1>1, PlannedKept, SavedKept, PlanFixed DEF IInv
<1>3. EndOnTimeline'
  BY <1>1, <1>2 DEF IInv, EndOnTimeline
<1>4. CASE ~complete
  <2>1. ~complete' /\ seen' = seen
    BY <1>1, <1>4
  <2>2. OnTimeline'
    BY <2>1 DEF OnTimeline
  <2>3. SeenOnTimeline'
    BY <1>2, <2>1 DEF IInv, SeenOnTimeline
  <2> QED
    BY <1>2, <1>3, <2>2, <2>3 DEF IInv
<1>5. CASE complete
  <2>1. PICK n \in Nat : Follows(Plan, Timeline[n], src, rng, exhausted, i, stopped, out)
    BY <1>5 DEF IInv, OnTimeline
  <2> DEFINE u == Timeline[n].src[i]
             more == Append(out, row)
  <2>2. Planned(Plan) /\ i \in DOMAIN Plan.config
    BY PlanFields DEF IInv, Sources
  <2>3. SourceMatch(Plan, i, src[i], u)
    BY <2>1, <2>2, FollowsParts
  <2> HIDE DEF u
  <2>4. /\ Outcome(Plan, i, u) = "row" /\ row = RowOf(Plan, i, u)
        /\ Idle(Plan, After(Plan, i, u))
    BY <2>2, <2>3, YieldMatches
  <2>5. PICK s : src' = [src EXCEPT ![i] = s] /\ SourceMatch(Plan, i, s, After(Plan, i, u))
    BY <2>2, <2>3, YieldMatches
  <2> DEFINE after == [src EXCEPT ![i] = s]
             z == 0
  <2>6. z = 0 /\ src' = after
    BY <2>5
  <2> HIDE DEF z
  <2>7. Follows(Plan, TimelineStep(Plan, Timeline[n]), after, rng, exhausted, z, stopped, more)
    <3>1. Follows(Plan, TimelineStep(Plan, Timeline[n]), after, rng, exhausted, z, stopped,
                  Append(out, RowOf(Plan, i, u)))
      BY <2>1, <2>2, <2>4, <2>5, <2>6, FollowsRow DEF u
    <3> HIDE DEF after
    <3> QED
      BY <2>4, <3>1
  <2> HIDE DEF after, more
  <2>8. Timeline[n + 1] = TimelineStep(Plan, Timeline[n])
    BY TimelineSteps
  <2>9. more = out'
    BY <1>1 DEF more
  <2>10. Follows(Plan, Timeline[n + 1], src', rng', exhausted', asked', stopped', out')
    BY <1>1, <2>6, <2>7, <2>8, <2>9
  <2>11. OnTimeline'
    BY <1>1, <2>10, OnTimelineTo
  <2>12. Delivered(out', Timeline[n + 1])
    BY <2>10 DEF Follows
  <2>13. SeenOnTimeline'
    BY <1>1, <1>2, <2>12 DEF IInv, SeenOnTimeline
  <2> QED
    BY <1>2, <1>3, <2>11, <2>13 DEF IInv
<1> QED
  BY <1>4, <1>5

\* StopIteration.
LEMMA EndKeeps ==
    ASSUME IInv, NEW i \in Sources, SourceEnds(i), SourceStops(i)
    PROVE  IInv'
<1>1. /\ UNCHANGED chosen
      /\ UNCHANGED <<rng, out, seen, saved, complete>>
      /\ asked = i /\ asked' = 0
  BY DEF SourceStops
<1>2. \/ /\ strategy = "on_first_exhausted" /\ Stop /\ exhausted' = exhausted
      \/ /\ strategy # "on_first_exhausted" /\ exhausted' = exhausted \cup {i}
         /\ exhausted' = Sources /\ Stop
      \/ /\ strategy # "on_first_exhausted" /\ exhausted' = exhausted \cup {i}
         /\ exhausted' # Sources
         /\ src' = [src EXCEPT ![i] = Relooped(src[i])]
         /\ UNCHANGED <<stopped, seenEnd>>
  <2>1. CASE strategy = "on_first_exhausted" /\ Stop /\ UNCHANGED exhausted
    BY <2>1
  <2>2. CASE /\ strategy = "all_exhausted"
             /\ exhausted' = exhausted \cup {i}
             /\ IF exhausted' = Sources
                   THEN Stop
                   ELSE /\ src' = [src EXCEPT ![i] = Relooped(@)]
                        /\ UNCHANGED <<stopped, seenEnd>>
    <3>1. strategy # "on_first_exhausted"
      BY <2>2
    <3>2. CASE exhausted' = Sources
      BY <2>2, <3>1, <3>2
    <3>3. CASE exhausted' # Sources
      <4>1. src' = [src EXCEPT ![i] = Relooped(src[i])]
        BY <2>2, <3>3, Zenon
      <4> QED
        BY <2>2, <3>1, <3>3, <4>1
    <3> QED
      BY <3>2, <3>3
  <2> QED
    BY <2>1, <2>2 DEF SourceStops
<1>3. Planned(Plan)' /\ SavedOnTimeline' /\ Timeline' = Timeline
  BY <1>1, PlannedKept, SavedKept, PlanFixed DEF IInv
<1>4. SeenOnTimeline'
  BY <1>1, <1>3 DEF IInv, SeenOnTimeline
<1>5. CASE ~complete
  <2>1. ~complete' /\ seenEnd' = seenEnd
    BY <1>1, <1>2, <1>5 DEF Stop
  <2>2. OnTimeline'
    BY <2>1 DEF OnTimeline
  <2>3. EndOnTimeline'
    BY <1>3, <2>1 DEF IInv, EndOnTimeline
  <2> QED
    BY <1>3, <1>4, <2>2, <2>3 DEF IInv
<1>6. CASE complete
  <2>1. PICK n \in Nat : Follows(Plan, Timeline[n], src, rng, exhausted, i, stopped, out)
    BY <1>1, <1>6 DEF IInv, OnTimeline
  <2> DEFINE u == Timeline[n].src[i]
             t == TimelineStep(Plan, Timeline[n])
             z == 0
             over == exhausted'
  <2>2. /\ Planned(Plan) /\ i \in DOMAIN Plan.config /\ Plan.strategy = strategy
        /\ DOMAIN Plan.config = Sources
    BY PlanFields DEF IInv, Sources
  <2>3. SourceMatch(Plan, i, src[i], u)
    BY <2>1, <2>2, FollowsParts
  <2> HIDE DEF u
  <2>4. /\ Outcome(Plan, i, u) = "stop" /\ Idle(Plan, u)
        /\ strategy # "on_first_exhausted" =>
              /\ SourceMatch(Plan, i, Relooped(src[i]), After(Plan, i, u))
              /\ Idle(Plan, After(Plan, i, u))
    BY <2>2, <2>3, EndMatches
  <2>5. Timeline[n + 1] = t
    BY TimelineSteps
  <2>6. z = 0 /\ z = asked' /\ over = exhausted'
    BY <1>1
  <2> HIDE DEF z, over
  <2>7. CASE /\ Stop
             /\ \/ strategy = "on_first_exhausted" /\ over = exhausted
                \/ /\ strategy # "on_first_exhausted" /\ over = exhausted \cup {i}
                   /\ over = Sources
    <3>1. /\ stopped' /\ src' = src
          /\ seenEnd' = IF complete /\ seenEnd = -1 THEN Len(out) ELSE seenEnd
      BY <2>7 DEF Stop
    <3> DEFINE ends == stopped'
    <3> HIDE DEF ends
    <3>2. ends
      BY <3>1 DEF ends
    <3>3. /\ Follows(Plan, t, src, rng, over, z, ends, out)
          /\ t.stopped
      BY <2>1, <2>2, <2>4, <2>6, <2>7, <3>2, FollowsStop DEF u
    <3> HIDE DEF t
    <3>4. Follows(Plan, Timeline[n + 1], src', rng', exhausted', asked', stopped', out')
      BY <1>1, <2>5, <2>6, <3>1, <3>3 DEF ends
    <3>5. OnTimeline'
      BY <1>1, <3>4, OnTimelineTo
    <3>6. Len(out) = t.count
      BY <3>3 DEF Follows, Delivered
    <3>7. EndOnTimeline'
      BY <1>3, <2>5, <3>1, <3>3, <3>6 DEF IInv, EndOnTimeline
    <3> QED
      BY <1>3, <1>4, <3>5, <3>7 DEF IInv
  <2>8. CASE /\ strategy # "on_first_exhausted" /\ over = exhausted \cup {i}
             /\ over # Sources
             /\ src' = [src EXCEPT ![i] = Relooped(src[i])]
             /\ UNCHANGED <<stopped, seenEnd>>
    <3> DEFINE s == Relooped(src[i])
               after == [src EXCEPT ![i] = s]
    <3>1. SourceMatch(Plan, i, s, After(Plan, i, u)) /\ Idle(Plan, After(Plan, i, u))
      BY <2>4, <2>8
    <3>2. src' = after
      BY <2>8
    <3> HIDE DEF s
    <3>3. Follows(Plan, t, after, rng, over, z, stopped, out)
      BY <2>1, <2>2, <2>4, <2>6, <2>8, <3>1, FollowsReloop DEF u
    <3> HIDE DEF t, after
    <3>4. Follows(Plan, Timeline[n + 1], src', rng', exhausted', asked', stopped', out')
      BY <1>1, <2>5, <2>6, <2>8, <3>2, <3>3
    <3>5. OnTimeline'
      BY <1>1, <3>4, OnTimelineTo
    <3>6. EndOnTimeline'
      BY <1>3, <2>8 DEF IInv, EndOnTimeline
    <3> QED
      BY <1>3, <1>4, <3>5, <3>6 DEF IInv
  <2> QED
    BY <1>2, <2>6, <2>7, <2>8
<1> QED
  BY <1>5, <1>6

\* A run of a source's generator is one of the three.
LEMMA ProduceKeeps ==
    ASSUME IInv, Produce
    PROVE  IInv'
<1>1. PICK i \in Sources : /\ asked = i
                           /\ \/ kind = "text" /\ TextNext(i)
                              \/ kind = "chat" /\ ChatNext(i)
                              \/ kind = "mm" /\ MMNext(i)
  BY DEF Produce
<1>2. CASE SourceInner(i) /\ UNCHANGED <<Inside, Elsewhere>>
  BY <1>1, <1>2, InnerKeeps
<1>3. CASE \E row : SourceYields(i, row) /\ Deliver(row) /\ UNCHANGED Elsewhere
  BY <1>1, <1>3, DeliverKeeps
<1>4. CASE SourceEnds(i) /\ SourceStops(i)
  BY <1>4, EndKeeps
<1>5. CASE kind = "text"
  <2>1. TextNext(i)
    BY <1>1, <1>5
  <2> QED
    BY <1>2, <1>3, <1>4, <1>5, <2>1, Zenon DEF TextNext, SourceInner, SourceYields, SourceEnds
<1>6. CASE kind = "chat"
  <2>1. ChatNext(i)
    BY <1>1, <1>6
  <2> QED
    BY <1>2, <1>3, <1>4, <1>6, <2>1, Zenon DEF ChatNext, SourceInner, SourceYields, SourceEnds
<1>7. CASE kind = "mm"
  <2>1. MMNext(i)
    BY <1>1, <1>7
  <2> QED
    BY <1>2, <1>3, <1>4, <1>7, <2>1, Zenon DEF MMNext, SourceInner, SourceYields, SourceEnds
<1> QED
  BY <1>1, <1>5, <1>6, <1>7

\* A checkpoint.
LEMMA SaveKeeps ==
    ASSUME IInv, Save
    PROVE  IInv'
<1>1. /\ asked = 0 /\ ~stopped /\ saved' = StateDicts
      /\ UNCHANGED chosen
      /\ UNCHANGED <<src, rng, exhausted, asked, stopped, out, seen, seenEnd, complete>>
  BY DEF Save
<1>2. /\ Planned(Plan)' /\ SeenOnTimeline' /\ EndOnTimeline' /\ Timeline' = Timeline
      /\ Plan' = Plan /\ Sources' = Sources /\ config' = config /\ kind' = kind
  BY <1>1, PlannedKept, SeenKept, PlanFixed DEF IInv
<1>3. OnTimeline'
  BY <1>1, <1>2 DEF IInv, OnTimeline
<1>4. SavedOnTimeline'
  <2> DEFINE back == [i \in Sources |-> SourceRestored(i, SourceState(i))]
  <2>1. /\ saved'.rows = out /\ saved'.rng = rng
        /\ \A i \in Sources : saved'.sources[i] = SourceState(i)
        /\ saved'.whole =>
              /\ complete /\ exhausted = {}
              /\ \A i \in Sources : ~SourceHoldsMore(i)
    BY <1>1, Zenon DEF StateDicts
  <2>2. Resumed' = back
    <3>1. ASSUME NEW i \in Sources
          PROVE  SourceRestored(i, saved.sources[i])' = SourceRestored(i, SourceState(i))
      <4>1. saved'.sources[i] = SourceState(i)
        BY <2>1
      <4> DEFINE d == SourceState(i)
      <4> HIDE DEF d
      <4>2. saved'.sources[i] = d
        BY <4>1 DEF d
      <4>3. SourceRestored(i, saved.sources[i])' = SourceRestored(i, d)
        BY <1>2, <4>2, Zenon DEF SourceRestored, Text!Restored, Chat!Restored, MM!Restored,
             Text!ResumePosition, Chat!ResumePosition, MM!ResumePosition
      <4> QED
        BY <4>3 DEF d
    <3> QED
      BY <1>2, <3>1 DEF Resumed
  <2> SUFFICES ASSUME saved'.whole
               PROVE  \E n \in Nat : \A off : ~off =>
                         Follows(Plan, Timeline[n], back, rng, {}, 0, off, out)
    BY <1>2, <2>1, <2>2 DEF SavedOnTimeline
  <2>3. /\ complete /\ exhausted = {}
        /\ \A i \in Sources : ~SourceHoldsMore(i)
    BY <2>1
  <2>4. PICK n \in Nat : Follows(Plan, Timeline[n], src, rng, exhausted, asked, stopped, out)
    BY <2>3 DEF IInv, OnTimeline
  <2> DEFINE t == Timeline[n]
             p == Plan
  <2>5. Planned(p) /\ DOMAIN p.config = Sources
    BY PlanFields DEF IInv, Sources
  <2>6. /\ t.rng = rng /\ t.exhausted = {} /\ t.asked = 0 /\ ~t.stopped /\ rng \in Nat
        /\ Delivered(out, t)
        /\ DOMAIN t.src = DOMAIN p.config
        /\ \A i \in DOMAIN p.config : SourceMatch(p, i, src[i], t.src[i]) /\ i # 0
        /\ \A i \in DOMAIN p.config : i # asked => Idle(p, t.src[i])
    BY <1>1, <2>3, <2>4, <2>5 DEF Follows, Planned
  <2>7. ASSUME NEW i \in Sources
        PROVE  SourceMatch(p, i, back[i], t.src[i]) /\ Idle(p, t.src[i])
    <3>1. SourceMatch(p, i, src[i], t.src[i]) /\ Idle(p, t.src[i]) /\ ~SourceHoldsMore(i)
      BY <1>1, <2>3, <2>5, <2>6
    <3>2. SourceMatch(p, i, SourceRestored(i, SourceState(i)), t.src[i])
      BY <2>5, <3>1, RestoreMatches
    <3> QED
      BY <3>1, <3>2
  <2>8. DOMAIN back = DOMAIN p.config
    BY <2>5
  <2> HIDE DEF t, p, back
  <2>9. ASSUME NEW off, ~off
        PROVE  Follows(p, t, back, rng, {}, 0, off, out)
    BY <2>5, <2>6, <2>7, <2>8, <2>9 DEF Follows
  <2> QED
    BY <2>9 DEF t, p
<1> QED
  BY <1>2, <1>3, <1>4 DEF IInv

\* A restart, from the last checkpoint or from nothing.
LEMMA RestartKeeps ==
    ASSUME IInv, Restart
    PROVE  IInv'
<1>1. /\ UNCHANGED chosen /\ UNCHANGED <<seen, seenEnd, saved>>
      /\ asked' = 0 /\ ~stopped' /\ exhausted' = {}
  BY DEF Restart
<1>2. /\ Planned(Plan)' /\ SavedOnTimeline' /\ SeenOnTimeline' /\ EndOnTimeline'
      /\ Plan' = Plan /\ Timeline' = Timeline
  BY <1>1, PlannedKept, SavedKept, SeenKept, PlanFixed DEF IInv
<1>3. OnTimeline'
  <2> DEFINE off == stopped'
             srcs == src'
             z == 0
             none == {}
             rows == out'
  <2>1. ~off /\ z = 0 /\ none = {} /\ z = asked' /\ none = exhausted'
    BY <1>1
  <2>2. CASE saved = <<>>
    <3>1. srcs = [i \in Sources |-> FreshOf(kind)] /\ rng' = 0 /\ rows = <<>>
      BY <2>2 DEF Restart
    <3> HIDE DEF off, srcs, z, none, rows
    <3>2. Follows(Plan, Timeline[0], srcs, z, none, z, off, rows)
      BY <2>1, <3>1, FreshFollows DEF IInv
    <3>3. Follows(Plan, Timeline[0], srcs, rng', none, z, off, rows)
      BY <2>1, <3>1, <3>2
    <3>4. Follows(Plan, Timeline[0], src', rng', exhausted', asked', stopped', out')
      BY <2>1, <3>3 DEF off, srcs, rows
    <3> QED
      BY <1>2, <3>4 DEF OnTimeline
  <2>3. CASE saved # <<>> /\ complete'
    <3>1. srcs = Resumed /\ rng' = saved.rng /\ rows = saved.rows /\ saved.whole
      BY <2>3 DEF Restart, Resumed
    <3>2. PICK n \in Nat : \A b : ~b =>
              Follows(Plan, Timeline[n], Resumed, saved.rng, {}, 0, b, saved.rows)
      BY <2>3, <3>1 DEF IInv, SavedOnTimeline
    <3> HIDE DEF off, srcs, rows
    <3>3. Follows(Plan, Timeline[n], Resumed, saved.rng, none, z, off, saved.rows)
      BY <2>1, <3>2
    <3> HIDE DEF z, none
    <3>4. Follows(Plan, Timeline[n], src', rng', exhausted', asked', stopped', out')
      BY <2>1, <3>1, <3>3 DEF off, srcs, rows
    <3> QED
      BY <1>2, <3>4 DEF OnTimeline
  <2>4. CASE ~complete'
    BY <2>4 DEF OnTimeline
  <2> QED
    BY <2>2, <2>3, <2>4
<1> QED
  BY <1>2, <1>3 DEF IInv

LEMMA IInvStep ==
    ASSUME IInv, [Next]_vars
    PROVE  IInv'
<1>1. CASE Draw
  BY <1>1, DrawKeeps
<1>2. CASE Produce
  BY <1>2, ProduceKeeps
<1>3. CASE Save
  BY <1>3, SaveKeeps
<1>4. CASE Restart
  BY <1>4, RestartKeeps
<1>5. CASE UNCHANGED vars
  <2>1. /\ UNCHANGED chosen
        /\ UNCHANGED <<src, rng, exhausted, asked, stopped, out, seen, seenEnd, saved, complete>>
    BY <1>5 DEF vars
  <2>2. Plan' = Plan /\ Timeline' = Timeline
    BY <2>1, PlanFixed
  <2>3. Planned(Plan)' /\ SavedOnTimeline' /\ SeenOnTimeline' /\ EndOnTimeline'
    BY <2>1, PlannedKept, SavedKept, SeenKept DEF IInv
  <2>4. OnTimeline'
    BY <2>1, <2>2 DEF IInv, OnTimeline
  <2> QED
    BY <2>3, <2>4 DEF IInv
<1> QED
  BY <1>1, <1>2, <1>3, <1>4, <1>5 DEF Next, Finished

\* Wherever a run is killed, and from whichever checkpoint that left nothing out
\* it goes on, the rows it delivers are the rows of the uninterrupted run, up to
\* the same end.
THEOREM ResumesExactly == Spec => []ResumeExact
<1>1. Init => IInv
  BY IInvInit
<1>2. IInv /\ [Next]_vars => IInv'
  BY IInvStep
<1>3. IInv => ResumeExact
  BY ResumeExactHolds
<1> QED
  BY <1>1, <1>2, <1>3, PTL DEF Spec

=============================================================================
