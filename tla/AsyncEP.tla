------------------------------- MODULE AsyncEP -------------------------------
(***************************************************************************)
(* MinimalAsyncEP (distributed/minimal_async_ep/api.py): ranks move rows   *)
(* by writing into one another's symmetric memory.  There are BufferCount  *)
(* hidden receive buffers, used in turn, and one counts buffer; a barrier  *)
(* of all ranks on a buffer's handle separates the writes of a copy from   *)
(* the reads of what it delivered.  Nothing else orders a fast rank's      *)
(* writes against a slow rank's reads.                                     *)
(*                                                                         *)
(* Every rank runs one training step of Layers MoE layers with full        *)
(* recompute: the forward of every layer, and then, from the last layer,   *)
(* its forward again and its backward.                                     *)
(***************************************************************************)
EXTENDS AllToAllDispatch, Functions

CONSTANTS Layers,
          BufferCount,   \* _HIDDEN_RECV_BUFFER_COUNT, 2: with one, a peer may write what a rank still reads
          LayerRoutings  \* the routings tried: functions layer -> rank -> ids

ASSUME AsyncEPAssumption ==
    /\ Layers \in Nat \ {0} /\ BufferCount \in Nat \ {0, 1}
    /\ LayerRoutings \subseteq [1..Layers -> [Ranks -> Routings]]

VARIABLES
    ids,         \* the experts picked, by layer and rank
    at,          \* the operation of the step a rank is in
    phase,       \* where in that operation
    todo,        \* peers the rank's kernel has not written to yet
    index,       \* hidden_recv_buffer_index of a rank
    hidden,      \* hidden receive buffers, by rank and index
    countsBuf,   \* counts receive buffers, by rank, a row per source
    arrived,     \* barriers a rank has arrived at, by handle
    meta,        \* what a rank computed from the counts it read: where its rows go
    tensor,      \* the rows a rank sends next: input, expert output or gradient
    saved        \* what autograd keeps: the input rows' buffer and the routed output's

vars == <<ids, at, phase, todo, index, hidden, countsBuf, arrived, meta, tensor, saved>>

Buffers == 0..(BufferCount - 1)
CountsHandle == BufferCount  \* counts_recv_handle; the others are the buffers'
Handles == Buffers \cup {CountsHandle}

(***************************************************************************)
(* The step of a rank.  Experts and their backward follow the copies that  *)
(* deliver their input in the same operation's "use" phase.                *)
(***************************************************************************)
Op(kind, layer) == [kind |-> kind, layer |-> layer]

\* Mutant: the backward reuses what the forward left, without recomputing it.
BugProgram ==
    [i \in 1..(4 * Layers) |->
        IF i <= 2 * Layers
          THEN Op(IF i % 2 = 1 THEN "dispatch" ELSE "combine", (i + 1) \div 2)
          ELSE Op(IF i % 2 = 1 THEN "combine_backward" ELSE "dispatch_backward",
                  2 * Layers - ((i - 1) \div 2))]

Program ==
    LET Forward(l) == <<Op("dispatch", l), Op("combine", l)>>
        Backward(l) == Forward(l) \o <<Op("combine_backward", l), Op("dispatch_backward", l)>>
    IN  [i \in 1..(6 * Layers) |->
           IF i <= 2 * Layers
             THEN Forward((i + 1) \div 2)[((i - 1) % 2) + 1]
             ELSE LET j == i - 2 * Layers - 1
                  IN  Backward(Layers - (j \div 4))[(j % 4) + 1]]

Finished(r) == at[r] > Len(Program)
Doing(r) == Program[at[r]]
Layer(r) == Doing(r).layer

\* A rank's own view of the layer it is in.
Order(r)  == ExpertOrder(ids[Layer(r)][r])
Counts(r) == CountsOf(ids[Layer(r)][r])

\* Contents: a token's hidden state, an expert's output for it, the gradient
\* of the combined output towards a slot, an expert's gradient of its input.
Token(l, r, t) == [of |-> "token", layer |-> l, rank |-> r, token |-> t]
OutGrad(l, r, t) == [of |-> "grad", layer |-> l, rank |-> r, token |-> t]
ExpertGrad(x, g) == [of |-> "inputgrad", expert |-> x, grad |-> g]
Unwritten == [of |-> "unwritten"]

\* _compute_direct_metadata.
DirectMetadata(all, r) ==
    [dispatch |-> DispatchTarget(all, r),
     combine  |-> CombineTarget(all, r),
     expert   |-> [p \in 0..(ActiveRows(all, r) - 1) |-> ExpertOfRow(all, r, p)]]
NoMeta == [dispatch |-> <<>>, combine |-> <<>>, expert |-> <<>>]

(***************************************************************************)
(* The copy of rows.  Where each row of the sender goes: the dispatch copy *)
(* and the backward of combine send the sorted rows to the experts, the    *)
(* combine copy and the backward of dispatch send the active rows home.    *)
(***************************************************************************)
ToExperts(r) == Doing(r).kind \in {"dispatch", "combine_backward"}
Target(r) == IF ToExperts(r) THEN meta[r].dispatch ELSE meta[r].combine

\* The rows: dispatch gathers them from the tokens, combine_backward from the
\* token gradients; the others send what the experts made.
Sent(r) ==
    LET order == Order(r)
    IN  CASE Doing(r).kind = "dispatch" ->
               [row \in Rows |-> Token(Layer(r), r, TokenOf(order[row]))]
          [] Doing(r).kind = "combine_backward" ->
               ExpandGrad([t \in 0..(Tokens - 1) |-> OutGrad(Layer(r), r, t)], order)
          [] OTHER -> tensor[r]

\* The rows of buffer content buf after the rows of rank r for peer arrive.
Written(buf, r, peer) ==
    LET target == Target(r)
        rows == Sent(r)
        At(p) == {q \in DOMAIN rows : target[q] = [rank |-> peer, row |-> p]}
    IN  [p \in DOMAIN buf |-> IF At(p) = {} THEN buf[p] ELSE rows[CHOOSE q \in At(p) : TRUE]]

(***************************************************************************)
(* What an operation does with the rows it was delivered.                  *)
(***************************************************************************)
Buffer(r) == (index[r] + BufferCount - 1) % BufferCount  \* the one the last copy used
Delivered(r) == hidden[r][Buffer(r)]
Active(r) == DOMAIN meta[r].combine

\* RoutedExperts.forward between dispatch and combine.
ExpertForward(r) ==
    [p \in Active(r) |-> ExpertOut(meta[r].expert[p], Delivered(r)[p])]

\* The backward of the experts: the gradients of their input rows ...
ExpertBackward(r) ==
    [p \in Active(r) |-> ExpertGrad(meta[r].expert[p], Delivered(r)[p])]

\* ... and of their weights, from the saved input rows: a term for each row.
WeightGradTerms(r) ==
    {<<hidden[r][saved[r].input][p], Delivered(r)[p]>> : p \in Active(r)}

\* combine_op and dispatch_backward_op: sum the slots of each token.
Reduced(r) == ReduceSlots([row \in Rows |-> Delivered(r)[row]], Order(r))

\* combine_backward_op, before its copy.
ScoreGrads(r) ==
    ScoresGrad([row \in Rows |-> hidden[r][saved[r].routed][row]],
               [t \in 0..(Tokens - 1) |-> OutGrad(Layer(r), r, t)], Order(r))

-----------------------------------------------------------------------------
Init ==
    /\ ids \in LayerRoutings
    /\ at = [r \in Ranks |-> 1]
    /\ phase = [r \in Ranks |-> "counts"]
    /\ todo = [r \in Ranks |-> Ranks]
    /\ index = [r \in Ranks |-> 0]
    /\ hidden = [r \in Ranks |-> [b \in Buffers |-> [p \in 0..(Capacity - 1) |-> Unwritten]]]
    /\ countsBuf = [r \in Ranks |-> [s \in Ranks |-> [x \in Experts |-> 0]]]
    /\ arrived = [h \in Handles |-> [r \in Ranks |-> 0]]
    /\ meta = [r \in Ranks |-> NoMeta]
    /\ tensor = [r \in Ranks |-> <<>>]
    /\ saved = [r \in Ranks |-> [input |-> 0, routed |-> 0]]

\* copy_full_counts_to_peers: row r of the peer's counts buffer.
WriteCounts(r, peer) ==
    /\ phase[r] = "counts" /\ peer \in todo[r]
    /\ countsBuf' = [countsBuf EXCEPT ![peer][r] = Counts(r)]
    /\ todo' = [todo EXCEPT ![r] = @ \ {peer}]
    /\ UNCHANGED <<ids, at, phase, index, hidden, arrived, meta, tensor, saved>>

\* Mutant: the barrier signals and does not wait.
BugAllHere(r, h) == TRUE
\* Mutant: it waits for the peers' next signal.
BugNextSignal(r, h) == \A peer \in Ranks \ {r} : arrived[h][peer] > arrived[h][r]

\* handle.barrier: signal every peer, then wait until every peer has signalled.
Arrive(r, h) == arrived' = [arrived EXCEPT ![h][r] = @ + 1]
AllHere(r, h) == \A peer \in Ranks : arrived[h][peer] >= arrived[h][r]

SignalCounts(r) ==
    /\ phase[r] = "counts" /\ todo[r] = {}
    /\ Arrive(r, CountsHandle)
    /\ phase' = [phase EXCEPT ![r] = "countsWait"]
    /\ UNCHANGED <<ids, at, todo, index, hidden, countsBuf, meta, tensor, saved>>

\* The barrier passes and _compute_direct_metadata reads the counts.
ReadCounts(r) ==
    /\ phase[r] = "countsWait" /\ AllHere(r, CountsHandle)
    /\ meta' = [meta EXCEPT ![r] = DirectMetadata(countsBuf[r], r)]
    /\ phase' = [phase EXCEPT ![r] = "rows"]
    /\ todo' = [todo EXCEPT ![r] = Ranks]
    /\ UNCHANGED <<ids, at, index, hidden, countsBuf, arrived, tensor, saved>>

\* copy_rows_to_peers: the rows that go to one peer, into the buffer whose turn it is.
WriteRows(r, peer) ==
    /\ phase[r] = "rows" /\ peer \in todo[r]
    /\ hidden' = [hidden EXCEPT ![peer][index[r]] = Written(@, r, peer)]
    /\ todo' = [todo EXCEPT ![r] = @ \ {peer}]
    /\ UNCHANGED <<ids, at, phase, index, countsBuf, arrived, meta, tensor, saved>>

\* The index moves on, and the rank signals on the handle of the buffer written.
SignalRows(r) ==
    /\ phase[r] = "rows" /\ todo[r] = {}
    /\ Arrive(r, index[r])
    /\ index' = [index EXCEPT ![r] = (@ + 1) % BufferCount]
    /\ phase' = [phase EXCEPT ![r] = "rowsWait"]
    /\ UNCHANGED <<ids, at, todo, hidden, countsBuf, meta, tensor, saved>>

RowsReady(r) ==
    /\ phase[r] = "rowsWait" /\ AllHere(r, Buffer(r))
    /\ phase' = [phase EXCEPT ![r] = "use"]
    /\ UNCHANGED <<ids, at, todo, index, hidden, countsBuf, arrived, meta, tensor, saved>>

\* The kernels behind the copy read the delivered rows, and the rank goes on
\* to its next operation: a dispatch starts with the counts.
Use(r) ==
    /\ phase[r] = "use"
    /\ tensor' = [tensor EXCEPT ![r] =
           CASE Doing(r).kind = "dispatch" -> ExpertForward(r)
             [] Doing(r).kind = "combine_backward" -> ExpertBackward(r)
             [] OTHER -> <<>>]
    /\ saved' = [saved EXCEPT ![r] =
           CASE Doing(r).kind = "dispatch" -> [@ EXCEPT !.input = Buffer(r)]
             [] Doing(r).kind = "combine" -> [@ EXCEPT !.routed = Buffer(r)]
             [] OTHER -> @]
    /\ at' = [at EXCEPT ![r] = @ + 1]
    /\ phase' = [phase EXCEPT ![r] =
           IF at[r] = Len(Program) THEN "done"
           ELSE IF Program[at[r] + 1].kind = "dispatch" THEN "counts" ELSE "rows"]
    /\ todo' = [todo EXCEPT ![r] = Ranks]
    /\ UNCHANGED <<ids, index, hidden, countsBuf, arrived, meta>>

RankStep(r) ==
    \/ \E peer \in Ranks : WriteCounts(r, peer) \/ WriteRows(r, peer)
    \/ SignalCounts(r) \/ ReadCounts(r) \/ SignalRows(r) \/ RowsReady(r) \/ Use(r)

\* The step is over when no rank has anything left: Next stops there.
Next == \E r \in Ranks : RankStep(r)

Spec == Init /\ [][Next]_vars
\* The stream of a rank runs its kernels, and a kernel ends once its barrier is met.
FairSpec == Spec /\ \A r \in Ranks : WF_vars(RankStep(r))

-----------------------------------------------------------------------------
(***************************************************************************)
(* Properties                                                              *)
(***************************************************************************)

TypeOK ==
    /\ ids \in LayerRoutings
    /\ at \in [Ranks -> 1..(Len(Program) + 1)]
    /\ phase \in [Ranks -> {"counts", "countsWait", "rows", "rowsWait", "use", "done"}]
    /\ todo \in [Ranks -> SUBSET Ranks]
    /\ index \in [Ranks -> Buffers]
    /\ arrived \in [Handles -> [Ranks -> 0..Len(Program)]]
    /\ saved \in [Ranks -> [input : Buffers, routed : Buffers]]

\* When a rank reads the rows an exchange delivered, they give what a single
\* rank that owned all experts would compute: an expert sees the tokens routed
\* to it, a token gets the outputs of its experts, and both gradients come home.
Using(r, kind) == phase[r] = "use" /\ Doing(r).kind = kind

\* The slots routed to the experts of r: their rank and their number there.
Mine(r) == {g \in Ranks \X Rows : Owner(ids[Layer(r)][g[1]][g[2]]) = r}

ExchangesDeliver ==
    \A r \in Ranks :
        /\ Using(r, "dispatch") =>
             Range(ExpertForward(r)) =
               {ExpertOut(ids[Layer(r)][g[1]][g[2]], Token(Layer(r), g[1], TokenOf(g[2]))) : g \in Mine(r)}
        /\ Using(r, "combine") =>
             Reduced(r) = LocalCombined(ids[Layer(r)][r],
                            [t \in 0..(Tokens - 1) |-> Token(Layer(r), r, t)])
        /\ Using(r, "combine_backward") =>
             Range(ExpertBackward(r)) =
               {ExpertGrad(ids[Layer(r)][g[1]][g[2]],
                           [slot |-> g[2], is |-> OutGrad(Layer(r), g[1], TokenOf(g[2]))]) : g \in Mine(r)}
        /\ Using(r, "dispatch_backward") =>
             Reduced(r) = [t \in 0..(Tokens - 1) |->
               {[slot |-> n, is |-> ExpertGrad(ids[Layer(r)][r][n], [slot |-> n, is |-> OutGrad(Layer(r), r, t)])] :
                  n \in {q \in Rows : TokenOf(q) = t}}]

\* The routed output saved by combine for the score gradients is still that of
\* the layer when combine_backward, one copy later, reads it.
SavedOutputIntact ==
    \A r \in Ranks :
        (~Finished(r) /\ Doing(r).kind = "combine_backward" /\ phase[r] = "rows") =>
            ScoreGrads(r) =
              [n \in Rows |->
                 <<ExpertOut(ids[Layer(r)][r][n], Token(Layer(r), r, TokenOf(n))),
                   OutGrad(Layer(r), r, TokenOf(n))>>]

\* The experts' weight gradients pair each gradient with the token it is the
\* gradient for.  The input rows saved for it are a view of the buffer the
\* dispatch filled.
SavedInputIntact ==
    \A r \in Ranks :
        Using(r, "combine_backward") =>
            \A term \in WeightGradTerms(r) :
                term[1] = Token(Layer(r), term[2].is.rank, term[2].is.token)

\* Before the step; the routings do not change in it.
Starting == \A r \in Ranks : at[r] = 1 /\ phase[r] = "counts" /\ todo[r] = Ranks

\* The dispatchers are interchangeable (local, all-to-all, all-to-all with
\* padded groups): on every layer's routing a token sums the same expert
\* outputs through the exchanges and permutations as on one rank that owns all
\* experts, and sequence-parallel ranks put the sums where MoE.forward reads
\* them, each row once.
DispatchersAgree ==
    Starting => /\ \A l \in 1..Layers : SameSums(ids[l])
                /\ \A c \in SpCases : RowsPlacedOnce(c)

\* Every rank gets through the step: no barrier waits for a rank that is at another.
StepEnds == <>(\A r \in Ranks : Finished(r))
=============================================================================
