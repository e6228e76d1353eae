---------------------------- MODULE GraphPPProofs ----------------------------
(***************************************************************************)
(* For every layout, every number of microbatches, every sequence of       *)
(* passes and every order of actions that respects the data flow: no       *)
(* handler raises, the optimizer finds the gradient of every microbatch    *)
(* exactly once, and every loss is of the whole model in order.            *)
(*                                                                         *)
(* What a handler reads is there because of where its microbatch is: its   *)
(* input from the moment the neighbour has run until it runs itself, its   *)
(* saved forward until the backward that takes it, its saved values until  *)
(* the backward of the weights (FlowInv).  For the hand-over, upstream's   *)
(* placement and the layout must agree on which stages share a rank        *)
(* (SameHome).  Gradients are bags that hold each microbatch once, in a    *)
(* stage's state during the pass (GradInv), in param.grad between passes   *)
(* (ParamInv).  The stages cut the model at the sums of their layers       *)
(* (LayersBefore, SplitModuleIs), so what waits for a stage has gone       *)
(* through all the modules before it (PathInv).                            *)
(***************************************************************************)
EXTENDS GraphPP, FiniteSetTheorems, SequenceTheorems, WellFoundedInduction, TLAPS

-----------------------------------------------------------------------------
(* The inductive invariant.                                                *)

\* The backward of a stage has run as far as its input's gradient: with its weight
\* gradient if the stage does not split.
BackwardDone(s, m) ==
    \/ Issued("backward", s, m)
    \/ Splits(s) /\ Issued("backward_input", s, m)
    \/ ~Splits(s) /\ Issued("backward_weight", s, m)

GradDone(s, m) == Issued("backward", s, m) \/ Issued("backward_weight", s, m)

\* What is in an input buffer or a forward cache is of the microbatch it is for.
Activation(x, m) == x = [mb |-> m, path |-> x.path]
Gradient(m) == [mb |-> m]

\* A gradient of the pass under way that pairs a microbatch with itself.
PassGrad(m) == ParamGrad(m, m)

ShapeInv ==
    /\ layout \in Layouts /\ plan \in Passes /\ at \in 1..(Len(plan) + 1)
    /\ DOMAIN inputs = Slots(layout)
    /\ DOMAIN fwdCache = S /\ \A s \in S : DOMAIN fwdCache[s] = Microbatches
    /\ DOMAIN weightCache = S /\ \A s \in S : DOMAIN weightCache[s] = Microbatches
    /\ DOMAIN state = S
    /\ \A s \in S : state[s] = [unsharded |-> state[s].unsharded,
                                unshardedGrads |-> state[s].unshardedGrads,
                                shardedGrads |-> state[s].shardedGrads,
                                scaled |-> state[s].scaled]
    /\ DOMAIN counted = S
    /\ DOMAIN paramGrad = S

\* The schedule's order, as far as the handlers depend on it.
OrderInv ==
    \A s \in S, m \in Microbatches :
        /\ BackwardIssued(s, m) => Issued("forward", s, m)
        /\ BackwardIssued(s, m) /\ ~IsLast(layout, s) => BackwardIssued(s + 1, m)
        /\ Issued("backward_weight", s, m) => Issued("backward_input", s, m)
        /\ ~(Issued("backward", s, m) /\ Issued("backward_input", s, m))

\* Whatever a handler will read has come and has not been taken.
FlowInv ==
    \A s \in S, m \in Microbatches :
        /\ ~IsFirst(s) /\ Issued("forward", s - 1, m) /\ ~Issued("forward", s, m) =>
             /\ SameRank(s - 1, s) \/ Slot("F", s, m) \in recvOps
             /\ Activation(inputs[Slot("F", s, m)], m)
        /\ ~IsLast(layout, s) /\ BackwardIssued(s + 1, m) /\ ~BackwardDone(s, m) =>
             /\ SameRank(s + 1, s) \/ Slot("B", s, m) \in recvOps
             /\ inputs[Slot("B", s, m)] = Gradient(m)
        /\ Issued("forward", s, m) /\ ~BackwardDone(s, m) => Activation(fwdCache[s][m], m)
        /\ Splits(s) /\ Issued("backward_input", s, m) /\ ~Issued("backward_weight", s, m) =>
             weightCache[s][m] = PassGrad(m)

CountInv ==
    \A s \in S : counted[s] = Cardinality({m \in Microbatches : BackwardDone(s, m)})

\* A bag that holds every member of T once and nothing else.
OneEach(b, T) == DOMAIN b = T /\ \A t \in T : b[t] = 1

Divided == IF layout.scaleGrads THEN 1 ELSE 0

\* What a stage has accumulated in this pass, and what a REDUCE_GRAD made of it.
GradInv ==
    \A s \in S :
        /\ OneEach(state[s].unshardedGrads,
                   {PassGrad(m) : m \in {n \in Microbatches : GradDone(s, n)}})
        /\ ~Issued("reduce", s, 0) => state[s].shardedGrads = None /\ ~state[s].scaled
        /\ Issued("reduce", s, 0) =>
             /\ WeightsDone(s)
             /\ state[s].shardedGrads = [terms |-> state[s].unshardedGrads, divided |-> Divided]

Term(i, m) == [grad |-> [fwd |-> m, bwd |-> m, pass |-> i], divided |-> Divided]

ParamInv ==
    \A s \in S :
        OneEach(paramGrad[s], {Term(g[1], g[2]) : g \in TrainPasses \X Microbatches})

IndInv ==
    /\ ShapeInv /\ ~error
    /\ OrderInv /\ FlowInv /\ CountInv
    /\ GradInv /\ ParamInv

-----------------------------------------------------------------------------
(* Layouts: a rank has the stages upstream asks it for.                    *)

LEMMA TimesAtLeast ==
    ASSUME NEW a \in Nat, NEW b \in Nat, NEW r \in Nat, a >= b
    PROVE  r * a >= r * b
<1>1. r * a = r * b + r * (a - b)
  OBVIOUS
<1>2. r * (a - b) >= 0
  OBVIOUS
<1>3. r * a \in Int /\ r * b \in Int /\ r * (a - b) \in Int
  OBVIOUS
<1> QED  BY <1>1, <1>2, <1>3

LEMMA QuotientOf ==
    ASSUME NEW n \in Int, NEW r \in Int, r > 0
    PROVE  /\ n \div r \in Int /\ n % r \in 0..(r - 1)
           /\ n = r * (n \div r) + (n % r)
           /\ n >= 0 => n \div r >= 0
<1>1. n \div r \in Int /\ n % r \in 0..(r - 1)
  OBVIOUS
<1>2. n = r * (n \div r) + (n % r)
  OBVIOUS
<1>3. n >= 0 => n \div r >= 0
  OBVIOUS
<1> QED  BY <1>1, <1>2, <1>3

LEMMA LayoutSizes ==
    ASSUME NEW c \in Layouts
    PROVE  /\ NumStages(c) \in Nat \ {0} /\ c.ranks \in Nat \ {0} /\ c.microbatches \in Nat \ {0}
           /\ c.style \in {"loop", "v"} /\ c.scaleGrads \in BOOLEAN
           /\ NumStages(c) \div c.ranks \in Nat
           /\ NumStages(c) = c.ranks * (NumStages(c) \div c.ranks)
           /\ c.style = "v" => NumStages(c) = 2 * c.ranks
<1>1. /\ c.ranks \in Nat \ {0} /\ c.microbatches \in Nat \ {0} /\ c.style \in {"loop", "v"}
      /\ c.scaleGrads \in BOOLEAN
      /\ c.layers \in Nat \ {0} /\ c.layersPerStage \in Nat
      /\ c.inWeight \in Int /\ c.outWeight \in Int
      /\ Accepted(c)
  BY GraphPPAssumption
<1>2. NumStages(c) \in Int
  <2>1. CASE c.layersPerStage = 0
    BY <1>1, <2>1 DEF NumStages
  <2>2. CASE c.layersPerStage # 0
    <3>1. EffectiveLayers(c) \in Int
      BY <1>1 DEF EffectiveLayers
    <3> QED  BY <1>1, <2>2, <3>1 DEF NumStages
  <2> QED  BY <2>1, <2>2
<1>3. /\ NumStages(c) % c.ranks = 0 /\ NumStages(c) \div c.ranks >= 2
      /\ c.style = "v" => NumStages(c) \div c.ranks = 2
  BY <1>1 DEF Accepted
<1> DEFINE n == NumStages(c)
           r == c.ranks
           q == n \div r
<1>4. n \in Int /\ r \in Int /\ r > 0 /\ n % r = 0 /\ q >= 2 /\ (c.style = "v" => q = 2)
  BY <1>1, <1>2, <1>3
<1> HIDE DEF n, r
<1>5. q \in Int /\ n = r * q + (n % r)
  BY <1>4, QuotientOf
<1> HIDE DEF q
<1>6. n = r * q
  BY <1>4, <1>5
<1>7. r * q >= r * 2
  BY <1>4, <1>5, TimesAtLeast
<1>8. n \in Nat \ {0}
  BY <1>4, <1>6, <1>7
<1> QED  BY <1>1, <1>4, <1>5, <1>6, <1>8 DEF n, r, q

\* The rank upstream holds a stage to be on has it.
LEMMA HomeHolds ==
    ASSUME layout \in Layouts, NEW s \in S
    PROVE  Home(s) \in 0..(layout.ranks - 1) /\ s \in RankStages(layout, Home(s))
<1> DEFINE n == NumStages(layout)
           r == layout.ranks
           q == n \div r
<1>1. /\ n \in Nat \ {0} /\ r \in Nat \ {0} /\ q \in Nat /\ n = r * q
      /\ layout.style = "v" => n = 2 * r
  BY LayoutSizes
<1>2. s \in 0..(n - 1)
  BY DEF S, Stages
<1>3. CASE layout.style = "v"
  <2>1. Home(s) = IF s >= r THEN n - 1 - s ELSE s % r
    BY <1>3 DEF Home
  <2>2. RankStages(layout, Home(s)) = {Home(s), n - 1 - Home(s)}
    BY <1>3 DEF RankStages
  <2> HIDE DEF n, r
  <2>3. CASE s >= r
    BY <1>1, <1>2, <1>3, <2>1, <2>2, <2>3 DEF r
  <2>4. CASE ~(s >= r)
    <3>1. s % r = s
      BY <1>1, <1>2, <2>4
    <3> QED  BY <1>1, <1>2, <2>1, <2>2, <2>4, <3>1 DEF r
  <2> QED  BY <2>3, <2>4
<1>4. CASE layout.style # "v"
  <2>1. Home(s) = s % r
    BY <1>4 DEF Home
  <2>2. RankStages(layout, Home(s)) = {Home(s) + k * r : k \in 0..(q - 1)}
    BY <1>4 DEF RankStages
  <2> DEFINE k == s \div r
  <2> HIDE DEF n, r, q
  <2>3. k \in Nat /\ s % r \in 0..(r - 1) /\ s = r * k + (s % r)
    BY <1>1, <1>2, QuotientOf
  <2> HIDE DEF k
  <2>4. k \in 0..(q - 1)
    <3> SUFFICES ASSUME k >= q PROVE FALSE
      BY <1>1, <2>3
    <3>1. r * k >= r * q
      BY <1>1, <2>3, TimesAtLeast
    <3>2. r * k \in Int /\ r * q \in Int /\ s % r >= 0
      BY <1>1, <2>3
    <3> QED  BY <1>1, <1>2, <2>3, <3>1, <3>2
  <2>5. s = Home(s) + k * r
    BY <1>1, <2>1, <2>3
  <2> QED  BY <2>1, <2>2, <2>3, <2>4, <2>5 DEF r
<1> QED  BY <1>3, <1>4

\* Stages that upstream holds to be on one rank are on one rank.
LEMMA SameHome ==
    ASSUME layout \in Layouts, NEW s \in S, NEW t \in S
    PROVE  SameRank(s, t) \/ Home(s) # Home(t)
BY HomeHolds DEF SameRank

-----------------------------------------------------------------------------
(* Bags that hold every member once.                                       *)

LEMMA OneEachEmpty == OneEach(EmptyBag, {})
BY DEF OneEach, EmptyBag, SetToBag

LEMMA OneEachSum ==
    ASSUME NEW b1, NEW T1, OneEach(b1, T1), NEW b2, NEW T2, OneEach(b2, T2), T1 \cap T2 = {}
    PROVE  OneEach(b1 (+) b2, T1 \cup T2)
BY DEF OneEach, (+)

LEMMA OneMore ==
    ASSUME NEW b, NEW T, OneEach(b, T), NEW x, x \notin T
    PROVE  OneEach(b (+) SetToBag({x}), T \cup {x})
<1>1. OneEach(SetToBag({x}), {x})
  BY DEF OneEach, SetToBag
<1> QED  BY <1>1, OneEachSum

-----------------------------------------------------------------------------
(* What a handler hands to the neighbouring stage.                         *)

\* The neighbour gets the value, in its buffer or through a receive operation.
LEMMA Handing ==
    ASSUME layout \in Layouts, NEW d \in {"F", "B"}, NEW s \in S, NEW peer, NEW m \in Microbatches,
           NEW value, NEW buffers, DOMAIN buffers = Slots(layout)
    PROVE  /\ DOMAIN HandedTo(d, s, peer, m, value, buffers) = Slots(layout)
           /\ \A x \in Slots(layout) :
                 HandedTo(d, s, peer, m, value, buffers)[x] =
                   IF peer \in S /\ x = Slot(d, peer, m) THEN value ELSE buffers[x]
           /\ peer \in S => SameRank(s, peer) \/ Slot(d, peer, m) \in SentTo(d, s, peer, m)
<1>1. peer \in S => SameRank(s, peer) \/ Home(s) # Home(peer)
  BY SameHome
<1> QED  BY <1>1 DEF HandedTo, SentTo

LEMMA SlotOf ==
    ASSUME NEW d \in {"F", "B"}, NEW s \in S, NEW m \in Microbatches
    PROVE  Slot(d, s, m) \in Slots(layout)
BY DEF Slot, Slots, S, Microbatches

-----------------------------------------------------------------------------
(* A handler the schedule may call finds what it reads.                    *)

LEMMA NotNone ==
    /\ \A m, p : [mb |-> m, path |-> p] # None
    /\ \A m : Gradient(m) # None
    /\ \A m : PassGrad(m) # None
    /\ \A x, d : [terms |-> x, divided |-> d] # None
BY DEF None, Gradient, PassGrad, ParamGrad

LEMMA Neighbours ==
    ASSUME layout \in Layouts, NEW s \in S
    PROVE  /\ s \in Nat
           /\ ~IsFirst(s) => s - 1 \in S
           /\ ~IsLast(layout, s) => s + 1 \in S
           /\ s - 1 \in S => ~IsFirst(s)
           /\ s + 1 \in S => ~IsLast(layout, s)
<1>1. NumStages(layout) \in Nat \ {0}
  BY LayoutSizes
<1> QED  BY <1>1 DEF S, Stages, IsFirst, IsLast

\* What the schedule has issued, by how far the backward has come.
LEMMA BackwardOrder ==
    ASSUME OrderInv, NEW s \in S, NEW m \in Microbatches
    PROVE  /\ BackwardDone(s, m) => BackwardIssued(s, m)
           /\ GradDone(s, m) => BackwardDone(s, m)
           /\ BackwardIssued(s, m) => Issued("forward", s, m)
BY DEF OrderInv, BackwardDone, BackwardIssued, GradDone

\* The forward finds its rank, its receive operation and its input.
LEMMA ForwardWillRun ==
    ASSUME IndInv, NEW s \in S, NEW m \in Microbatches, MayForward(s, m)
    PROVE  /\ ForwardReady(s, m)
           /\ Activation(ForwardInput(s, m), m)
           /\ \A out : out = ForwardOutput(s, m) => Activation(out, m)
<1>1. layout \in Layouts
  BY DEF IndInv, ShapeInv
<1>2. ~Issued("forward", s, m) /\ (~IsFirst(s) => Issued("forward", s - 1, m))
  BY DEF MayForward, InTurn
<1>3. ~IsFirst(s) => /\ SameRank(s - 1, s) \/ Slot("F", s, m) \in recvOps
                     /\ Activation(inputs[Slot("F", s, m)], m)
  BY <1>2 DEF IndInv, FlowInv
<1>4. ~IsFirst(s) => inputs[Slot("F", s, m)] # None
  BY <1>3, NotNone DEF Activation
<1>5. ForwardReady(s, m)
  BY <1>1, <1>3, <1>4, HomeHolds DEF ForwardReady, Arrived
<1>6. Activation(ForwardInput(s, m), m)
  <2>1. CASE IsFirst(s)
    BY <2>1 DEF ForwardInput, Activation
  <2>2. CASE ~IsFirst(s)
    BY <1>3, <2>2 DEF ForwardInput
  <2> QED  BY <2>1, <2>2
<1>7. ASSUME NEW out, out = ForwardOutput(s, m) PROVE Activation(out, m)
  <2>1. PICK path : out = [ForwardInput(s, m) EXCEPT !.path = path]
    BY <1>7 DEF ForwardOutput
  <2>2. PICK old : ForwardInput(s, m) = [mb |-> m, path |-> old]
    BY <1>6 DEF Activation
  <2>3. out = [mb |-> m, path |-> path]
    BY <2>1, <2>2
  <2> QED  BY <2>3 DEF Activation
<1> QED  BY <1>5, <1>6, <1>7

\* The backward finds its saved forward and the gradient of its output.
LEMMA BackwardWillRun ==
    ASSUME IndInv, NEW s \in S, NEW m \in Microbatches,
           Issued("forward", s, m), ~BackwardDone(s, m),
           ~IsLast(layout, s) => BackwardIssued(s + 1, m)
    PROVE  /\ BackwardReady(s, m)
           /\ fwdCache[s][m].mb = m
           /\ OutputGrad(s, m) = m
<1>1. layout \in Layouts
  BY DEF IndInv, ShapeInv
<1>2. Activation(fwdCache[s][m], m)
  BY DEF IndInv, FlowInv
<1>3. fwdCache[s][m] # None
  BY <1>2, NotNone DEF Activation
<1>4. fwdCache[s][m].mb = m
  BY <1>2 DEF Activation
<1>5. ~IsLast(layout, s) => /\ SameRank(s + 1, s) \/ Slot("B", s, m) \in recvOps
                            /\ inputs[Slot("B", s, m)] = Gradient(m)
  BY DEF IndInv, FlowInv
<1>6. BackwardReady(s, m)
  BY <1>1, <1>3, <1>5, HomeHolds, NotNone DEF BackwardReady, Arrived
<1>7. OutputGrad(s, m) = m
  BY <1>4, <1>5 DEF OutputGrad, Gradient
<1> QED  BY <1>4, <1>6, <1>7

-----------------------------------------------------------------------------
(* What each handler does to what the invariant speaks of.                 *)

\* The forward of (s, m) handed its output on; the backward its input's gradient.
ForwardHanded(s, m) ==
    \A t \in S, n \in Microbatches :
        /\ t = s + 1 /\ n = m =>
             /\ SameRank(s, t) \/ Slot("F", t, n) \in recvOps'
             /\ Activation(inputs'[Slot("F", t, n)], n)
        /\ ~(t = s + 1 /\ n = m) => inputs'[Slot("F", t, n)] = inputs[Slot("F", t, n)]
        /\ Slot("F", t, n) \in recvOps /\ ~(t = s /\ n = m) => Slot("F", t, n) \in recvOps'

BackwardHanded(s, m) ==
    \A t \in S, n \in Microbatches :
        /\ t = s - 1 /\ n = m =>
             /\ SameRank(s, t) \/ Slot("B", t, n) \in recvOps'
             /\ inputs'[Slot("B", t, n)] = Gradient(n)
        /\ ~(t = s - 1 /\ n = m) => inputs'[Slot("B", t, n)] = inputs[Slot("B", t, n)]
        /\ Slot("B", t, n) \in recvOps /\ ~(t = s /\ n = m) => Slot("B", t, n) \in recvOps'

NothingHanded(d) ==
    \A t \in S, n \in Microbatches :
        /\ inputs'[Slot(d, t, n)] = inputs[Slot(d, t, n)]
        /\ Slot(d, t, n) \in recvOps => Slot(d, t, n) \in recvOps'

\* The gradients a stage has accumulated are left alone.
SameGrads(t) ==
    /\ state'[t].unshardedGrads = state[t].unshardedGrads
    /\ state'[t].shardedGrads = state[t].shardedGrads
    /\ state'[t].scaled = state[t].scaled

\* One more gradient is accumulated.
OneGrad(t, m) ==
    /\ state'[t].unshardedGrads = state[t].unshardedGrads (+) SetToBag({PassGrad(m)})
    /\ state'[t].shardedGrads = state[t].shardedGrads
    /\ state'[t].scaled = state[t].scaled

\* The variables a handler never touches.
SamePass == UNCHANGED <<layout, plan, at, version, paramGrad, error>>

LEMMA UnshardedKeeps ==
    ASSUME NEW st, st = [unsharded |-> st.unsharded, unshardedGrads |-> st.unshardedGrads,
                         shardedGrads |-> st.shardedGrads, scaled |-> st.scaled]
    PROVE  LET u == Unsharded(st)
           IN  /\ u = [unsharded |-> u.unsharded, unshardedGrads |-> u.unshardedGrads,
                       shardedGrads |-> u.shardedGrads, scaled |-> u.scaled]
               /\ u.unshardedGrads = st.unshardedGrads
               /\ u.shardedGrads = st.shardedGrads
               /\ u.scaled = st.scaled
<1> DEFINE v == [of |-> version]
<1>1. PICK a, b, c, d : st = [unsharded |-> a, unshardedGrads |-> b, shardedGrads |-> c, scaled |-> d]
  OBVIOUS
<1>2. Unsharded(st) = st \/ Unsharded(st) = [st EXCEPT !.unsharded = v]
  BY DEF Unsharded
<1>3. [st EXCEPT !.unsharded = v] =
        [unsharded |-> v, unshardedGrads |-> b, shardedGrads |-> c, scaled |-> d]
  BY <1>1
<1> HIDE DEF v
<1> QED  BY <1>1, <1>2, <1>3

LEMMA AccumulatedAdds ==
    ASSUME NEW st, st = [unsharded |-> st.unsharded, unshardedGrads |-> st.unshardedGrads,
                         shardedGrads |-> st.shardedGrads, scaled |-> st.scaled],
           NEW g
    PROVE  LET u == Accumulated(st, g)
           IN  /\ u = [unsharded |-> u.unsharded, unshardedGrads |-> u.unshardedGrads,
                       shardedGrads |-> u.shardedGrads, scaled |-> u.scaled]
               /\ u.unshardedGrads = st.unshardedGrads (+) SetToBag({g})
               /\ u.shardedGrads = st.shardedGrads
               /\ u.scaled = st.scaled
<1>1. PICK a, b, c, d : st = [unsharded |-> a, unshardedGrads |-> b, shardedGrads |-> c, scaled |-> d]
  OBVIOUS
<1> DEFINE bag == b (+) SetToBag({g})
<1>2. Accumulated(st, g) = [unsharded |-> a, unshardedGrads |-> bag, shardedGrads |-> c, scaled |-> d]
  BY <1>1 DEF Accumulated
<1>3. st.unshardedGrads (+) SetToBag({g}) = bag
  BY <1>1
<1> HIDE DEF bag
<1> QED  BY <1>1, <1>2, <1>3

LEMMA ForwardEffect ==
    ASSUME IndInv, NEW s \in S, NEW m \in Microbatches, Forward(s, m)
    PROVE  /\ ~Issued("forward", s, m) /\ SamePass
           /\ done' = done \cup {<<"forward", s, m>>}
           /\ UNCHANGED <<counted, weightCache>>
           /\ ForwardHanded(s, m) /\ NothingHanded("B")
           /\ Activation(fwdCache'[s][m], m)
           /\ \A t \in S, n \in Microbatches :
                 ~(t = s /\ n = m) => fwdCache'[t][n] = fwdCache[t][n]
           /\ \A t \in S : SameGrads(t)
           /\ ShapeInv'
<1>1. MayForward(s, m) /\ ShapeInv /\ layout \in Layouts
  BY DEF Forward, IndInv, ShapeInv
<1>2. /\ ForwardReady(s, m)
      /\ \A out : out = ForwardOutput(s, m) => Activation(out, m)
  BY <1>1, ForwardWillRun
<1>3. PICK out :
        /\ Activation(out, m)
        /\ Issue({<<"forward", s, m>>})
        /\ state' = [state EXCEPT ![s] = Unsharded(@)]
        /\ fwdCache' = [fwdCache EXCEPT ![s][m] = out]
        /\ inputs' = HandedTo("F", s, s + 1, m, out, inputs)
        /\ recvOps' = (recvOps \ Waited("F", s, s - 1, m)) \cup SentTo("F", s, s + 1, m)
        /\ UNCHANGED <<weightCache, counted>>
        /\ UNCHANGED <<layout, plan, at, version, paramGrad>>
  BY <1>2 DEF Forward
<1>4. ~Issued("forward", s, m)
  BY <1>1 DEF MayForward, InTurn
<1>5. SamePass /\ done' = done \cup {<<"forward", s, m>>}
  BY <1>3 DEF Issue, SamePass
<1>6. /\ DOMAIN inputs' = Slots(layout)
      /\ \A x \in Slots(layout) :
            inputs'[x] = IF s + 1 \in S /\ x = Slot("F", s + 1, m) THEN out ELSE inputs[x]
      /\ s + 1 \in S => SameRank(s, s + 1) \/ Slot("F", s + 1, m) \in recvOps'
  <2>1. DOMAIN inputs = Slots(layout)
    BY <1>1 DEF ShapeInv
  <2> QED  BY <1>1, <1>3, <2>1, Handing
<1>7. \A x \in recvOps : x # Slot("F", s, m) => x \in recvOps'
  BY <1>3 DEF Waited
<1>8. ForwardHanded(s, m) /\ NothingHanded("B")
  <2> SUFFICES ASSUME NEW t \in S, NEW n \in Microbatches
               PROVE  /\ t = s + 1 /\ n = m =>
                           /\ SameRank(s, t) \/ Slot("F", t, n) \in recvOps'
                           /\ Activation(inputs'[Slot("F", t, n)], n)
                      /\ ~(t = s + 1 /\ n = m) => inputs'[Slot("F", t, n)] = inputs[Slot("F", t, n)]
                      /\ Slot("F", t, n) \in recvOps /\ ~(t = s /\ n = m)
                           => Slot("F", t, n) \in recvOps'
                      /\ inputs'[Slot("B", t, n)] = inputs[Slot("B", t, n)]
                      /\ Slot("B", t, n) \in recvOps => Slot("B", t, n) \in recvOps'
    BY DEF ForwardHanded, NothingHanded
  <2>1. Slot("F", t, n) \in Slots(layout) /\ Slot("B", t, n) \in Slots(layout)
    BY SlotOf
  <2>2. /\ Slot("F", t, n) = Slot("F", s + 1, m) <=> t = s + 1 /\ n = m
        /\ Slot("F", t, n) = Slot("F", s, m) <=> t = s /\ n = m
        /\ Slot("B", t, n) # Slot("F", s + 1, m) /\ Slot("B", t, n) # Slot("F", s, m)
    BY DEF Slot
  <2> QED  BY <1>3, <1>6, <1>7, <2>1, <2>2
<1>9. /\ DOMAIN fwdCache' = S /\ \A t \in S : DOMAIN fwdCache'[t] = Microbatches
      /\ Activation(fwdCache'[s][m], m)
      /\ \A t \in S, n \in Microbatches :
            ~(t = s /\ n = m) => fwdCache'[t][n] = fwdCache[t][n]
  <2>1. DOMAIN fwdCache = S /\ \A t \in S : DOMAIN fwdCache[t] = Microbatches
    BY <1>1 DEF ShapeInv
  <2> QED  BY <1>3, <2>1
<1>10. /\ DOMAIN state' = S
       /\ \A t \in S : /\ SameGrads(t)
                       /\ state'[t] = [unsharded |-> state'[t].unsharded,
                                       unshardedGrads |-> state'[t].unshardedGrads,
                                       shardedGrads |-> state'[t].shardedGrads,
                                       scaled |-> state'[t].scaled]
  BY <1>1, <1>3, UnshardedKeeps DEF ShapeInv, SameGrads
<1>11. ShapeInv'
  BY <1>1, <1>3, <1>6, <1>9, <1>10 DEF ShapeInv, S, Microbatches
<1> QED  BY <1>3, <1>4, <1>5, <1>8, <1>9, <1>10, <1>11

LEMMA BackwardHands ==
    ASSUME layout \in Layouts, NEW s \in S, NEW m \in Microbatches, UNCHANGED layout,
           DOMAIN inputs = Slots(layout),
           inputs' = HandedTo("B", s, s - 1, m, [mb |-> m], inputs),
           recvOps' = (recvOps \ Waited("B", s, s + 1, m)) \cup SentTo("B", s, s - 1, m)
    PROVE  BackwardHanded(s, m) /\ NothingHanded("F") /\ DOMAIN inputs' = Slots(layout)
<1>1. /\ DOMAIN inputs' = Slots(layout)
      /\ \A x \in Slots(layout) :
            inputs'[x] = IF s - 1 \in S /\ x = Slot("B", s - 1, m) THEN [mb |-> m] ELSE inputs[x]
      /\ s - 1 \in S => SameRank(s, s - 1) \/ Slot("B", s - 1, m) \in recvOps'
  BY Handing
<1>2. \A x \in recvOps : x # Slot("B", s, m) => x \in recvOps'
  BY DEF Waited
<1> SUFFICES ASSUME NEW t \in S, NEW n \in Microbatches
             PROVE  /\ t = s - 1 /\ n = m =>
                         /\ SameRank(s, t) \/ Slot("B", t, n) \in recvOps'
                         /\ inputs'[Slot("B", t, n)] = Gradient(n)
                    /\ ~(t = s - 1 /\ n = m) => inputs'[Slot("B", t, n)] = inputs[Slot("B", t, n)]
                    /\ Slot("B", t, n) \in recvOps /\ ~(t = s /\ n = m)
                         => Slot("B", t, n) \in recvOps'
                    /\ inputs'[Slot("F", t, n)] = inputs[Slot("F", t, n)]
                    /\ Slot("F", t, n) \in recvOps => Slot("F", t, n) \in recvOps'
  BY <1>1 DEF BackwardHanded, NothingHanded
<1>3. Slot("F", t, n) \in Slots(layout) /\ Slot("B", t, n) \in Slots(layout)
  BY SlotOf
<1>4. /\ Slot("B", t, n) = Slot("B", s - 1, m) <=> t = s - 1 /\ n = m
      /\ Slot("B", t, n) = Slot("B", s, m) <=> t = s /\ n = m
      /\ Slot("F", t, n) # Slot("B", s - 1, m) /\ Slot("F", t, n) # Slot("B", s, m)
  BY DEF Slot
<1> QED  BY <1>1, <1>2, <1>3, <1>4 DEF Gradient

\* RunFullBackward of a microbatch whose backward has not run.
LEMMA FullBackwardEffect ==
    ASSUME IndInv, NEW s \in S, NEW m \in Microbatches, NEW kind,
           Issued("forward", s, m), ~BackwardDone(s, m),
           ~IsLast(layout, s) => BackwardIssued(s + 1, m),
           RunFullBackward(kind, s, m), UNCHANGED <<layout, plan, at, version, paramGrad>>
    PROVE  /\ SamePass /\ done' = done \cup {<<kind, s, m>>}
           /\ UNCHANGED weightCache /\ counted' = [counted EXCEPT ![s] = @ + 1]
           /\ BackwardHanded(s, m) /\ NothingHanded("F")
           /\ \A t \in S, n \in Microbatches :
                 ~(t = s /\ n = m) => fwdCache'[t][n] = fwdCache[t][n]
           /\ OneGrad(s, m) /\ \A t \in S : t # s => SameGrads(t)
           /\ ShapeInv'
<1>1. ShapeInv /\ layout \in Layouts
  BY DEF IndInv, ShapeInv
<1>2. BackwardReady(s, m) /\ fwdCache[s][m].mb = m /\ OutputGrad(s, m) = m
  BY BackwardWillRun
<1>3. /\ Issue({<<kind, s, m>>})
      /\ counted' = [counted EXCEPT ![s] = @ + 1]
      /\ fwdCache' = [fwdCache EXCEPT ![s][m] = None]
      /\ state' = [state EXCEPT ![s] = Accumulated(@, PassGrad(m))]
      /\ inputs' = HandedTo("B", s, s - 1, m, [mb |-> m], inputs)
      /\ recvOps' = (recvOps \ Waited("B", s, s + 1, m)) \cup SentTo("B", s, s - 1, m)
      /\ UNCHANGED weightCache
  BY <1>2 DEF RunFullBackward, PassGrad
<1>4. SamePass /\ done' = done \cup {<<kind, s, m>>}
  BY <1>3 DEF Issue, SamePass
<1>5. BackwardHanded(s, m) /\ NothingHanded("F") /\ DOMAIN inputs' = Slots(layout)
  <2>1. DOMAIN inputs = Slots(layout)
    BY <1>1 DEF ShapeInv
  <2> QED  BY <1>1, <1>3, <2>1, BackwardHands
<1>6. /\ DOMAIN fwdCache' = S /\ \A t \in S : DOMAIN fwdCache'[t] = Microbatches
      /\ \A t \in S, n \in Microbatches :
            ~(t = s /\ n = m) => fwdCache'[t][n] = fwdCache[t][n]
  <2>1. DOMAIN fwdCache = S /\ \A t \in S : DOMAIN fwdCache[t] = Microbatches
    BY <1>1 DEF ShapeInv
  <2> QED  BY <1>3, <2>1
<1>7. /\ DOMAIN state' = S
      /\ OneGrad(s, m) /\ \A t \in S : t # s => SameGrads(t)
      /\ \A t \in S : state'[t] = [unsharded |-> state'[t].unsharded,
                                   unshardedGrads |-> state'[t].unshardedGrads,
                                   shardedGrads |-> state'[t].shardedGrads,
                                   scaled |-> state'[t].scaled]
  BY <1>1, <1>3, AccumulatedAdds, SMTT(30) DEF ShapeInv, SameGrads, OneGrad
<1>8. ShapeInv'
  BY <1>1, <1>3, <1>5, <1>6, <1>7 DEF ShapeInv, S, Microbatches
<1> QED  BY <1>3, <1>4, <1>5, <1>6, <1>7, <1>8

\* The backward of a microbatch may be issued.
LEMMA BackwardMayRun ==
    ASSUME IndInv, NEW s \in S, NEW m \in Microbatches, MayBackward(s, m)
    PROVE  /\ Issued("forward", s, m) /\ ~BackwardIssued(s, m) /\ ~BackwardDone(s, m)
           /\ ~IsLast(layout, s) => BackwardIssued(s + 1, m)
           /\ ~Issued("reduce", s, 0)
<1>1. /\ Issued("forward", s, m) /\ ~BackwardIssued(s, m)
      /\ ~IsLast(layout, s) => BackwardIssued(s + 1, m)
  BY DEF MayBackward
<1>2. OrderInv
  BY DEF IndInv
<1>3. ~BackwardDone(s, m)
  BY <1>1, <1>2, BackwardOrder
<1>4. ~Issued("reduce", s, 0)
  <2>1. WeightsDone(s) => BackwardIssued(s, m)
    BY <1>2 DEF WeightsDone, BackwardIssued, OrderInv
  <2> QED  BY <1>1, <2>1 DEF IndInv, GradInv
<1> QED  BY <1>1, <1>3, <1>4

\* The backward input of a stage that splits.
LEMMA BackwardInputEffect ==
    ASSUME IndInv, NEW s \in S, NEW m \in Microbatches, BackwardInput(s, m), Splits(s)
    PROVE  /\ SamePass /\ done' = done \cup {<<"backward_input", s, m>>}
           /\ counted' = [counted EXCEPT ![s] = @ + 1]
           /\ weightCache'[s][m] = PassGrad(m)
           /\ \A t \in S, n \in Microbatches :
                 ~(t = s /\ n = m) => weightCache'[t][n] = weightCache[t][n]
           /\ BackwardHanded(s, m) /\ NothingHanded("F")
           /\ \A t \in S, n \in Microbatches :
                 ~(t = s /\ n = m) => fwdCache'[t][n] = fwdCache[t][n]
           /\ \A t \in S : SameGrads(t)
           /\ ShapeInv'
<1>1. ShapeInv /\ layout \in Layouts
  BY DEF IndInv, ShapeInv
<1>2. BackwardReady(s, m) /\ fwdCache[s][m].mb = m /\ OutputGrad(s, m) = m
  BY BackwardMayRun, BackwardWillRun DEF BackwardInput
<1>3. /\ Issue({<<"backward_input", s, m>>})
      /\ counted' = [counted EXCEPT ![s] = @ + 1]
      /\ fwdCache' = [fwdCache EXCEPT ![s][m] = None]
      /\ weightCache' = [weightCache EXCEPT ![s][m] = PassGrad(m)]
      /\ inputs' = HandedTo("B", s, s - 1, m, [mb |-> m], inputs)
      /\ recvOps' = (recvOps \ Waited("B", s, s + 1, m)) \cup SentTo("B", s, s - 1, m)
      /\ UNCHANGED state /\ UNCHANGED <<layout, plan, at, version, paramGrad>>
  BY <1>2 DEF BackwardInput, PassGrad
<1>4. SamePass /\ done' = done \cup {<<"backward_input", s, m>>}
  BY <1>3 DEF Issue, SamePass
<1>5. BackwardHanded(s, m) /\ NothingHanded("F") /\ DOMAIN inputs' = Slots(layout)
  <2>1. DOMAIN inputs = Slots(layout)
    BY <1>1 DEF ShapeInv
  <2> QED  BY <1>1, <1>3, <2>1, BackwardHands
<1>6. /\ DOMAIN fwdCache' = S /\ \A t \in S : DOMAIN fwdCache'[t] = Microbatches
      /\ \A t \in S, n \in Microbatches :
            ~(t = s /\ n = m) => fwdCache'[t][n] = fwdCache[t][n]
  <2>1. DOMAIN fwdCache = S /\ \A t \in S : DOMAIN fwdCache[t] = Microbatches
    BY <1>1 DEF ShapeInv
  <2> QED  BY <1>3, <2>1
<1>7. /\ DOMAIN weightCache' = S /\ \A t \in S : DOMAIN weightCache'[t] = Microbatches
      /\ weightCache'[s][m] = PassGrad(m)
      /\ \A t \in S, n \in Microbatches :
            ~(t = s /\ n = m) => weightCache'[t][n] = weightCache[t][n]
  <2>1. DOMAIN weightCache = S /\ \A t \in S : DOMAIN weightCache[t] = Microbatches
    BY <1>1 DEF ShapeInv
  <2> QED  BY <1>3, <2>1
<1>8. ShapeInv'
  BY <1>1, <1>3, <1>5, <1>6, <1>7 DEF ShapeInv, S, Microbatches
<1>9. \A t \in S : SameGrads(t)
  BY <1>3 DEF SameGrads
<1> QED  BY <1>3, <1>4, <1>5, <1>6, <1>7, <1>8, <1>9

\* The backward weight of a stage that splits.
LEMMA BackwardWeightEffect ==
    ASSUME IndInv, NEW s \in S, NEW m \in Microbatches, BackwardWeight(s, m), Splits(s)
    PROVE  /\ SamePass /\ done' = done \cup {<<"backward_weight", s, m>>}
           /\ UNCHANGED <<counted, inputs, recvOps, fwdCache>>
           /\ \A t \in S, n \in Microbatches :
                 ~(t = s /\ n = m) => weightCache'[t][n] = weightCache[t][n]
           /\ OneGrad(s, m) /\ \A t \in S : t # s => SameGrads(t)
           /\ ShapeInv'
<1>1. ShapeInv /\ layout \in Layouts
  BY DEF IndInv, ShapeInv
<1>2. weightCache[s][m] = PassGrad(m)
  BY DEF IndInv, FlowInv, BackwardWeight, MayBackwardWeight
<1>3. /\ Issue({<<"backward_weight", s, m>>})
      /\ state' = [state EXCEPT ![s] = Accumulated(@, PassGrad(m))]
      /\ weightCache' = [weightCache EXCEPT ![s][m] = None]
      /\ UNCHANGED <<inputs, recvOps, fwdCache, counted>>
      /\ UNCHANGED <<layout, plan, at, version, paramGrad>>
  BY <1>2, NotNone DEF BackwardWeight
<1>4. SamePass /\ done' = done \cup {<<"backward_weight", s, m>>}
  BY <1>3 DEF Issue, SamePass
<1>5. /\ DOMAIN weightCache' = S /\ \A t \in S : DOMAIN weightCache'[t] = Microbatches
      /\ \A t \in S, n \in Microbatches :
            ~(t = s /\ n = m) => weightCache'[t][n] = weightCache[t][n]
  <2>1. DOMAIN weightCache = S /\ \A t \in S : DOMAIN weightCache[t] = Microbatches
    BY <1>1 DEF ShapeInv
  <2> QED  BY <1>3, <2>1
<1>6. /\ DOMAIN state' = S
      /\ OneGrad(s, m) /\ \A t \in S : t # s => SameGrads(t)
      /\ \A t \in S : state'[t] = [unsharded |-> state'[t].unsharded,
                                   unshardedGrads |-> state'[t].unshardedGrads,
                                   shardedGrads |-> state'[t].shardedGrads,
                                   scaled |-> state'[t].scaled]
  BY <1>1, <1>3, AccumulatedAdds, SMTT(30) DEF ShapeInv, SameGrads, OneGrad
<1>7. ShapeInv'
  BY <1>1, <1>3, <1>5, <1>6 DEF ShapeInv, S, Microbatches
<1> QED  BY <1>3, <1>4, <1>5, <1>6, <1>7

LEMMA OverlapEffect ==
    ASSUME IndInv, NEW s \in S, NEW m \in Microbatches, NEW t \in S, NEW n \in Microbatches,
           OverlapFwBw(s, m, t, n)
    PROVE  /\ ~Issued("forward", s, m) /\ s # t /\ SamePass
           /\ done' = done \cup {<<"forward", s, m>>, <<"backward", t, n>>}
           /\ UNCHANGED weightCache /\ counted' = [counted EXCEPT ![t] = @ + 1]
           /\ ForwardHanded(s, m) /\ BackwardHanded(t, n)
           /\ Activation(fwdCache'[s][m], m)
           /\ \A u \in S, k \in Microbatches :
                 ~(u = s /\ k = m) /\ ~(u = t /\ k = n) => fwdCache'[u][k] = fwdCache[u][k]
           /\ OneGrad(t, n) /\ \A u \in S : u # t => SameGrads(u)
           /\ ShapeInv'
<1>1. MayForward(s, m) /\ MayBackward(t, n) /\ s # t /\ ShapeInv /\ layout \in Layouts
  BY DEF OverlapFwBw, IndInv, ShapeInv
<1>2. /\ ForwardReady(s, m)
      /\ \A out : out = ForwardOutput(s, m) => Activation(out, m)
  BY <1>1, ForwardWillRun
<1>3. BackwardReady(t, n) /\ fwdCache[t][n].mb = n /\ OutputGrad(t, n) = n
  BY <1>1, BackwardMayRun, BackwardWillRun
<1>4. PICK out :
        /\ Activation(out, m)
        /\ Issue({<<"forward", s, m>>, <<"backward", t, n>>})
        /\ counted' = [counted EXCEPT ![t] = @ + 1]
        /\ state' = [state EXCEPT ![s] = Unsharded(@), ![t] = Accumulated(@, PassGrad(n))]
        /\ fwdCache' = [fwdCache EXCEPT ![t][n] = None, ![s][m] = out]
        /\ inputs' = HandedTo("B", t, t - 1, n, [mb |-> n],
                              HandedTo("F", s, s + 1, m, out, inputs))
        /\ recvOps' = (recvOps \ (Waited("F", s, s - 1, m) \cup Waited("B", t, t + 1, n)))
                        \cup SentTo("F", s, s + 1, m) \cup SentTo("B", t, t - 1, n)
        /\ UNCHANGED weightCache
        /\ UNCHANGED <<layout, plan, at, version, paramGrad>>
  BY <1>2, <1>3 DEF OverlapFwBw, PassGrad
<1>5. ~Issued("forward", s, m)
  BY <1>1 DEF MayForward, InTurn
<1>6. SamePass /\ done' = done \cup {<<"forward", s, m>>, <<"backward", t, n>>}
  BY <1>4 DEF Issue, SamePass
<1> DEFINE between == HandedTo("F", s, s + 1, m, out, inputs)
<1>7. /\ DOMAIN between = Slots(layout)
      /\ \A x \in Slots(layout) :
            between[x] = IF s + 1 \in S /\ x = Slot("F", s + 1, m) THEN out ELSE inputs[x]
      /\ s + 1 \in S => SameRank(s, s + 1) \/ Slot("F", s + 1, m) \in SentTo("F", s, s + 1, m)
  <2>1. DOMAIN inputs = Slots(layout)
    BY <1>1 DEF ShapeInv
  <2> QED  BY <1>1, <2>1, Handing
<1>8. inputs' = HandedTo("B", t, t - 1, n, [mb |-> n], between)
  BY <1>4
<1> HIDE DEF between
<1>9. /\ DOMAIN inputs' = Slots(layout)
      /\ \A x \in Slots(layout) :
            inputs'[x] = IF t - 1 \in S /\ x = Slot("B", t - 1, n) THEN [mb |-> n] ELSE between[x]
      /\ t - 1 \in S => SameRank(t, t - 1) \/ Slot("B", t - 1, n) \in SentTo("B", t, t - 1, n)
  <2>1. "B" \in {"F", "B"} /\ UNCHANGED layout
    BY <1>4
  <2>2. /\ DOMAIN HandedTo("B", t, t - 1, n, [mb |-> n], between) = Slots(layout)
        /\ \A x \in Slots(layout) :
              HandedTo("B", t, t - 1, n, [mb |-> n], between)[x] =
                IF t - 1 \in S /\ x = Slot("B", t - 1, n) THEN [mb |-> n] ELSE between[x]
        /\ t - 1 \in S => SameRank(t, t - 1) \/ Slot("B", t - 1, n) \in SentTo("B", t, t - 1, n)
    BY <1>1, <1>7, <2>1, Handing
  <2> QED  BY <1>8, <2>2
<1>10. /\ \A x \in recvOps :
             x # Slot("F", s, m) /\ x # Slot("B", t, n) => x \in recvOps'
       /\ SentTo("F", s, s + 1, m) \cup SentTo("B", t, t - 1, n) \subseteq recvOps'
  BY <1>4 DEF Waited
<1>11. ForwardHanded(s, m) /\ BackwardHanded(t, n)
  <2> SUFFICES ASSUME NEW u \in S, NEW k \in Microbatches
               PROVE  /\ u = s + 1 /\ k = m =>
                           /\ SameRank(s, u) \/ Slot("F", u, k) \in recvOps'
                           /\ Activation(inputs'[Slot("F", u, k)], k)
                      /\ ~(u = s + 1 /\ k = m) => inputs'[Slot("F", u, k)] = inputs[Slot("F", u, k)]
                      /\ Slot("F", u, k) \in recvOps /\ ~(u = s /\ k = m)
                           => Slot("F", u, k) \in recvOps'
                      /\ u = t - 1 /\ k = n =>
                           /\ SameRank(t, u) \/ Slot("B", u, k) \in recvOps'
                           /\ inputs'[Slot("B", u, k)] = Gradient(k)
                      /\ ~(u = t - 1 /\ k = n) => inputs'[Slot("B", u, k)] = inputs[Slot("B", u, k)]
                      /\ Slot("B", u, k) \in recvOps /\ ~(u = t /\ k = n)
                           => Slot("B", u, k) \in recvOps'
    BY DEF ForwardHanded, BackwardHanded
  <2>1. Slot("F", u, k) \in Slots(layout) /\ Slot("B", u, k) \in Slots(layout)
    BY SlotOf
  <2>2. /\ Slot("F", u, k) = Slot("F", s + 1, m) <=> u = s + 1 /\ k = m
        /\ Slot("F", u, k) = Slot("F", s, m) <=> u = s /\ k = m
        /\ Slot("B", u, k) = Slot("B", t - 1, n) <=> u = t - 1 /\ k = n
        /\ Slot("B", u, k) = Slot("B", t, n) <=> u = t /\ k = n
    BY DEF Slot
  <2>3. /\ Slot("B", u, k) # Slot("F", s + 1, m) /\ Slot("B", u, k) # Slot("F", s, m)
        /\ Slot("F", u, k) # Slot("B", t - 1, n) /\ Slot("F", u, k) # Slot("B", t, n)
    BY DEF Slot
  <2>4. /\ u = s + 1 /\ k = m => /\ SameRank(s, u) \/ Slot("F", u, k) \in recvOps'
                                 /\ Activation(inputs'[Slot("F", u, k)], k)
        /\ ~(u = s + 1 /\ k = m) => inputs'[Slot("F", u, k)] = inputs[Slot("F", u, k)]
        /\ Slot("F", u, k) \in recvOps /\ ~(u = s /\ k = m) => Slot("F", u, k) \in recvOps'
    BY <1>4, <1>7, <1>9, <1>10, <2>1, <2>2, <2>3
  <2>5. /\ u = t - 1 /\ k = n => /\ SameRank(t, u) \/ Slot("B", u, k) \in recvOps'
                                 /\ inputs'[Slot("B", u, k)] = Gradient(k)
        /\ ~(u = t - 1 /\ k = n) => inputs'[Slot("B", u, k)] = inputs[Slot("B", u, k)]
        /\ Slot("B", u, k) \in recvOps /\ ~(u = t /\ k = n) => Slot("B", u, k) \in recvOps'
    BY <1>7, <1>9, <1>10, <2>1, <2>2, <2>3 DEF Gradient
  <2> QED  BY <2>4, <2>5
<1>12. /\ DOMAIN fwdCache' = S /\ \A u \in S : DOMAIN fwdCache'[u] = Microbatches
       /\ Activation(fwdCache'[s][m], m)
       /\ \A u \in S, k \in Microbatches :
             ~(u = s /\ k = m) /\ ~(u = t /\ k = n) => fwdCache'[u][k] = fwdCache[u][k]
  <2>1. DOMAIN fwdCache = S /\ \A u \in S : DOMAIN fwdCache[u] = Microbatches
    BY <1>1 DEF ShapeInv
  <2> QED  BY <1>1, <1>4, <2>1
<1>13. /\ DOMAIN state' = S
       /\ state'[s] = Unsharded(state[s]) /\ state'[t] = Accumulated(state[t], PassGrad(n))
       /\ \A u \in S : u # s /\ u # t => state'[u] = state[u]
  BY <1>1, <1>4 DEF ShapeInv
<1>14. /\ OneGrad(t, n) /\ \A u \in S : u # t => SameGrads(u)
       /\ \A u \in S : state'[u] = [unsharded |-> state'[u].unsharded,
                                    unshardedGrads |-> state'[u].unshardedGrads,
                                    shardedGrads |-> state'[u].shardedGrads,
                                    scaled |-> state'[u].scaled]
  <2>1. \A u \in S : state[u] = [unsharded |-> state[u].unsharded,
                                 unshardedGrads |-> state[u].unshardedGrads,
                                 shardedGrads |-> state[u].shardedGrads,
                                 scaled |-> state[u].scaled]
    BY <1>1 DEF ShapeInv
  <2>2. /\ SameGrads(s)
        /\ state'[s] = [unsharded |-> state'[s].unsharded,
                        unshardedGrads |-> state'[s].unshardedGrads,
                        shardedGrads |-> state'[s].shardedGrads,
                        scaled |-> state'[s].scaled]
    <3> DEFINE u == Unsharded(state[s])
    <3>1. /\ u = [unsharded |-> u.unsharded, unshardedGrads |-> u.unshardedGrads,
                  shardedGrads |-> u.shardedGrads, scaled |-> u.scaled]
          /\ u.unshardedGrads = state[s].unshardedGrads
          /\ u.shardedGrads = state[s].shardedGrads
          /\ u.scaled = state[s].scaled
      BY <2>1, UnshardedKeeps
    <3>2. state'[s] = u
      BY <1>13
    <3> HIDE DEF u
    <3> QED  BY <3>1, <3>2 DEF SameGrads
  <2>3. /\ OneGrad(t, n)
        /\ state'[t] = [unsharded |-> state'[t].unsharded,
                        unshardedGrads |-> state'[t].unshardedGrads,
                        shardedGrads |-> state'[t].shardedGrads,
                        scaled |-> state'[t].scaled]
    <3> DEFINE u == Accumulated(state[t], PassGrad(n))
    <3>1. /\ u = [unsharded |-> u.unsharded, unshardedGrads |-> u.unshardedGrads,
                  shardedGrads |-> u.shardedGrads, scaled |-> u.scaled]
          /\ u.unshardedGrads = state[t].unshardedGrads (+) SetToBag({PassGrad(n)})
          /\ u.shardedGrads = state[t].shardedGrads
          /\ u.scaled = state[t].scaled
      BY <2>1, AccumulatedAdds
    <3>2. state'[t] = u
      BY <1>13
    <3> HIDE DEF u
    <3> QED  BY <3>1, <3>2 DEF OneGrad
  <2>4. \A u \in S : u # s /\ u # t =>
           /\ SameGrads(u)
           /\ state'[u] = [unsharded |-> state'[u].unsharded,
                           unshardedGrads |-> state'[u].unshardedGrads,
                           shardedGrads |-> state'[u].shardedGrads,
                           scaled |-> state'[u].scaled]
    BY <1>13, <2>1 DEF SameGrads
  <2> QED  BY <2>2, <2>3, <2>4
<1>15. ShapeInv'
  BY <1>1, <1>4, <1>9, <1>12, <1>13, <1>14 DEF ShapeInv, S, Microbatches
<1> QED  BY <1>1, <1>4, <1>5, <1>6, <1>11, <1>12, <1>14, <1>15

\* The backward weight of the first stage runs its whole backward.
LEMMA WeightOfFirst ==
    ASSUME IndInv, NEW s \in S, NEW m \in Microbatches, BackwardWeight(s, m), ~Splits(s)
    PROVE  /\ Issued("forward", s, m) /\ ~BackwardDone(s, m)
           /\ ~IsLast(layout, s) => BackwardIssued(s + 1, m)
           /\ RunFullBackward("backward_weight", s, m)
           /\ UNCHANGED <<layout, plan, at, version, paramGrad>>
<1>1. Issued("backward_input", s, m) /\ ~Issued("backward_weight", s, m)
  BY DEF BackwardWeight, MayBackwardWeight
<1>2. OrderInv /\ BackwardIssued(s, m)
  BY <1>1 DEF IndInv, BackwardIssued
<1> QED  BY <1>1, <1>2 DEF OrderInv, BackwardDone, BackwardWeight

LEMMA BackwardWeightRuns ==
    ASSUME IndInv, NEW s \in S, NEW m \in Microbatches, BackwardWeight(s, m)
    PROVE  done' = done \cup {<<"backward_weight", s, m>>} /\ UNCHANGED layout
<1>1. CASE Splits(s)
  BY <1>1, BackwardWeightEffect DEF SamePass
<1>2. CASE ~Splits(s)
  BY <1>2, WeightOfFirst, FullBackwardEffect
<1> QED  BY <1>1, <1>2

-----------------------------------------------------------------------------
(* The order of the schedule.                                              *)

\* This step issues an action.
IssuesNow(kind, s, m) == <<kind, s, m>> \in done' /\ <<kind, s, m>> \notin done

LEMMA OrderKept ==
    ASSUME OrderInv, UNCHANGED layout, done \subseteq done',
           \A t \in S, n \in Microbatches :
              /\ IssuesNow("backward", t, n) \/ IssuesNow("backward_input", t, n) =>
                   /\ Issued("forward", t, n) /\ ~BackwardIssued(t, n)
                   /\ ~IsLast(layout, t) => BackwardIssued(t + 1, n)
              /\ ~(IssuesNow("backward", t, n) /\ IssuesNow("backward_input", t, n))
              /\ IssuesNow("backward_weight", t, n) => Issued("backward_input", t, n)
    PROVE  OrderInv'
<1>1. S' = S /\ Microbatches' = Microbatches
  BY DEF S, Microbatches
<1>2. \A k, t, n : Issued(k, t, n) => Issued(k, t, n)'
  BY DEF Issued
<1>3. \A k, t, n : Issued(k, t, n)' => Issued(k, t, n) \/ IssuesNow(k, t, n)
  BY DEF Issued, IssuesNow
<1> SUFFICES ASSUME NEW t \in S, NEW n \in Microbatches
             PROVE  /\ BackwardIssued(t, n)' => Issued("forward", t, n)'
                    /\ BackwardIssued(t, n)' /\ ~IsLast(layout, t) => BackwardIssued(t + 1, n)'
                    /\ Issued("backward_weight", t, n)' => Issued("backward_input", t, n)'
                    /\ ~(Issued("backward", t, n)' /\ Issued("backward_input", t, n)')
  BY <1>1 DEF OrderInv
<1>4. /\ BackwardIssued(t, n) => Issued("forward", t, n)
      /\ BackwardIssued(t, n) /\ ~IsLast(layout, t) => BackwardIssued(t + 1, n)
      /\ Issued("backward_weight", t, n) => Issued("backward_input", t, n)
      /\ ~(Issued("backward", t, n) /\ Issued("backward_input", t, n))
  BY DEF OrderInv
<1>5. BackwardIssued(t + 1, n) => BackwardIssued(t + 1, n)'
  BY <1>2 DEF BackwardIssued
<1>6. BackwardIssued(t, n)' =>
        BackwardIssued(t, n) \/ IssuesNow("backward", t, n) \/ IssuesNow("backward_input", t, n)
  BY <1>3 DEF BackwardIssued
<1>7. BackwardIssued(t, n)' => Issued("forward", t, n)'
  BY <1>2, <1>4, <1>6
<1>8. BackwardIssued(t, n)' /\ ~IsLast(layout, t) => BackwardIssued(t + 1, n)'
  BY <1>4, <1>5, <1>6
<1>9. Issued("backward_weight", t, n)' => Issued("backward_input", t, n)'
  BY <1>2, <1>3, <1>4
<1>10. ~(Issued("backward", t, n)' /\ Issued("backward_input", t, n)')
  BY <1>3, <1>4 DEF BackwardIssued
<1> QED  BY <1>7, <1>8, <1>9, <1>10

LEMMA OrderStep ==
    ASSUME IndInv, NEW s \in S, NEW m \in Microbatches
    PROVE  /\ Forward(s, m) => OrderInv'
           /\ FullBackward(s, m) => OrderInv'
           /\ BackwardInput(s, m) => OrderInv'
           /\ BackwardWeight(s, m) => OrderInv'
           /\ \A t \in S, n \in Microbatches : OverlapFwBw(s, m, t, n) => OrderInv'
<1>1. OrderInv
  BY DEF IndInv
<1>2. ASSUME Forward(s, m) PROVE OrderInv'
  <2>1. done' = done \cup {<<"forward", s, m>>} /\ UNCHANGED layout
    BY <1>2, ForwardEffect DEF SamePass
  <2>2. \A k, t, n : IssuesNow(k, t, n) => k = "forward"
    BY <2>1 DEF IssuesNow
  <2> QED  BY <1>1, <2>1, <2>2, OrderKept
<1>3. ASSUME FullBackward(s, m) PROVE OrderInv'
  <2>1. MayBackward(s, m) /\ RunFullBackward("backward", s, m)
        /\ UNCHANGED <<layout, plan, at, version, paramGrad>>
    BY <1>3 DEF FullBackward
  <2>2. /\ Issued("forward", s, m) /\ ~BackwardIssued(s, m) /\ ~BackwardDone(s, m)
        /\ ~IsLast(layout, s) => BackwardIssued(s + 1, m)
    BY <2>1, BackwardMayRun
  <2>3. done' = done \cup {<<"backward", s, m>>}
    BY <2>1, <2>2, FullBackwardEffect
  <2>4. \A k, t, n : IssuesNow(k, t, n) => k = "backward" /\ t = s /\ n = m
    BY <2>3 DEF IssuesNow
  <2> QED  BY <1>1, <2>1, <2>2, <2>3, <2>4, OrderKept
<1>4. ASSUME BackwardInput(s, m) PROVE OrderInv'
  <2>1. /\ Issued("forward", s, m) /\ ~BackwardIssued(s, m)
        /\ ~IsLast(layout, s) => BackwardIssued(s + 1, m)
    BY <1>4, BackwardMayRun DEF BackwardInput
  <2>2. done' = done \cup {<<"backward_input", s, m>>} /\ UNCHANGED layout
    <3>1. CASE Splits(s)
      BY <1>4, <3>1, BackwardInputEffect DEF SamePass
    <3>2. CASE ~Splits(s)
      BY <1>4, <3>2 DEF BackwardInput, Issue
    <3> QED  BY <3>1, <3>2
  <2>3. \A k, t, n : IssuesNow(k, t, n) => k = "backward_input" /\ t = s /\ n = m
    BY <2>2 DEF IssuesNow
  <2> QED  BY <1>1, <2>1, <2>2, <2>3, OrderKept
<1>5. ASSUME BackwardWeight(s, m) PROVE OrderInv'
  <2>1. Issued("backward_input", s, m)
    BY <1>5 DEF BackwardWeight, MayBackwardWeight
  <2>2. done' = done \cup {<<"backward_weight", s, m>>} /\ UNCHANGED layout
    BY <1>5, BackwardWeightRuns
  <2>3. \A k, t, n : IssuesNow(k, t, n) => k = "backward_weight" /\ t = s /\ n = m
    BY <2>2 DEF IssuesNow
  <2> QED  BY <1>1, <2>1, <2>2, <2>3, OrderKept
<1>6. ASSUME NEW t \in S, NEW n \in Microbatches, OverlapFwBw(s, m, t, n) PROVE OrderInv'
  <2>1. /\ Issued("forward", t, n) /\ ~BackwardIssued(t, n)
        /\ ~IsLast(layout, t) => BackwardIssued(t + 1, n)
    BY <1>6, BackwardMayRun DEF OverlapFwBw
  <2>2. done' = done \cup {<<"forward", s, m>>, <<"backward", t, n>>} /\ UNCHANGED layout
    BY <1>6, OverlapEffect DEF SamePass
  <2>3. \A k, u, j : IssuesNow(k, u, j) => k = "forward" \/ (k = "backward" /\ u = t /\ j = n)
    BY <2>2 DEF IssuesNow
  <2> QED  BY <1>1, <2>1, <2>2, <2>3, OrderKept
<1> QED  BY <1>2, <1>3, <1>4, <1>5, <1>6

-----------------------------------------------------------------------------
(* What a handler will read stays until it has read it.                    *)

LEMMA FlowForward ==
    ASSUME IndInv, NEW s \in S, NEW m \in Microbatches, Forward(s, m)
    PROVE  FlowInv'
<1>1. /\ ForwardHanded(s, m) /\ NothingHanded("B") /\ UNCHANGED weightCache
      /\ done' = done \cup {<<"forward", s, m>>}
      /\ Activation(fwdCache'[s][m], m)
      /\ \A t \in S, n \in Microbatches :
            ~(t = s /\ n = m) => fwdCache'[t][n] = fwdCache[t][n]
      /\ UNCHANGED <<layout, at>>
  BY ForwardEffect DEF SamePass
<1>2. S' = S /\ Microbatches' = Microbatches
  BY <1>1 DEF S, Microbatches
<1>3. \A k, t, n : Issued(k, t, n)' <=> Issued(k, t, n) \/ (k = "forward" /\ t = s /\ n = m)
  BY <1>1 DEF Issued
<1>4. \A t, n : /\ BackwardIssued(t, n)' <=> BackwardIssued(t, n)
                /\ BackwardDone(t, n)' <=> BackwardDone(t, n)
                /\ SameRank(t, n)' <=> SameRank(t, n)
  BY <1>1, <1>3 DEF BackwardIssued, BackwardDone, SameRank
<1>5. layout \in Layouts /\ FlowInv
  BY DEF IndInv, ShapeInv
<1> SUFFICES ASSUME NEW t \in S, NEW n \in Microbatches
             PROVE  /\ ~IsFirst(t) /\ Issued("forward", t - 1, n)' /\ ~Issued("forward", t, n)' =>
                         /\ SameRank(t - 1, t) \/ Slot("F", t, n) \in recvOps'
                         /\ Activation(inputs'[Slot("F", t, n)], n)
                    /\ ~IsLast(layout, t) /\ BackwardIssued(t + 1, n) /\ ~BackwardDone(t, n) =>
                         /\ SameRank(t + 1, t) \/ Slot("B", t, n) \in recvOps'
                         /\ inputs'[Slot("B", t, n)] = Gradient(n)
                    /\ Issued("forward", t, n)' /\ ~BackwardDone(t, n) =>
                         Activation(fwdCache'[t][n], n)
                    /\ /\ Splits(t) /\ Issued("backward_input", t, n)'
                       /\ ~Issued("backward_weight", t, n)'
                       => weightCache[t][n] = PassGrad(n)
  BY <1>1, <1>2, <1>4 DEF FlowInv, PassGrad, ParamGrad
<1>6. t \in Int /\ s \in Int
  BY <1>5, Neighbours
<1>7. ~IsFirst(t) /\ Issued("forward", t - 1, n)' /\ ~Issued("forward", t, n)' =>
        /\ SameRank(t - 1, t) \/ Slot("F", t, n) \in recvOps'
        /\ Activation(inputs'[Slot("F", t, n)], n)
  <2>1. CASE t = s + 1 /\ n = m
    <3>1. t - 1 = s
      BY <1>6, <2>1
    <3> QED  BY <1>1, <2>1, <3>1 DEF ForwardHanded
  <2>2. CASE ~(t = s + 1 /\ n = m)
    <3>1. ~(t - 1 = s /\ n = m)
      BY <1>6, <2>2
    <3> QED  BY <1>1, <1>3, <1>5, <2>2, <3>1 DEF FlowInv, ForwardHanded
  <2> QED  BY <2>1, <2>2
<1>8. ~IsLast(layout, t) /\ BackwardIssued(t + 1, n) /\ ~BackwardDone(t, n) =>
        /\ SameRank(t + 1, t) \/ Slot("B", t, n) \in recvOps'
        /\ inputs'[Slot("B", t, n)] = Gradient(n)
  BY <1>1, <1>5 DEF FlowInv, NothingHanded
<1>9. Issued("forward", t, n)' /\ ~BackwardDone(t, n) => Activation(fwdCache'[t][n], n)
  BY <1>1, <1>3, <1>5 DEF FlowInv
<1>10. Splits(t) /\ Issued("backward_input", t, n)' /\ ~Issued("backward_weight", t, n)'
         => weightCache[t][n] = PassGrad(n)
  BY <1>3, <1>5 DEF FlowInv
<1> QED  BY <1>7, <1>8, <1>9, <1>10

\* A full backward, issued as kind.
LEMMA FlowFullBackward ==
    ASSUME IndInv, NEW s \in S, NEW m \in Microbatches, NEW kind,
           Issued("forward", s, m), ~BackwardDone(s, m),
           ~IsLast(layout, s) => BackwardIssued(s + 1, m),
           RunFullBackward(kind, s, m), UNCHANGED <<layout, plan, at, version, paramGrad>>,
           kind = "backward" \/ (kind = "backward_weight" /\ ~Splits(s))
    PROVE  FlowInv'
<1>1. /\ BackwardHanded(s, m) /\ NothingHanded("F") /\ UNCHANGED weightCache
      /\ done' = done \cup {<<kind, s, m>>}
      /\ \A t \in S, n \in Microbatches :
            ~(t = s /\ n = m) => fwdCache'[t][n] = fwdCache[t][n]
      /\ UNCHANGED <<layout, at>>
  BY FullBackwardEffect DEF SamePass
<1>2. S' = S /\ Microbatches' = Microbatches
  BY <1>1 DEF S, Microbatches
<1>3. \A k, t, n : Issued(k, t, n)' <=> Issued(k, t, n) \/ (k = kind /\ t = s /\ n = m)
  BY <1>1 DEF Issued
<1>4. \A t, n : /\ BackwardIssued(t, n)' => BackwardIssued(t, n) \/ (t = s /\ n = m)
                /\ BackwardDone(t, n) => BackwardDone(t, n)'
                /\ SameRank(t, n)' <=> SameRank(t, n)
  BY <1>1, <1>3 DEF BackwardIssued, BackwardDone, SameRank
<1>5. layout \in Layouts /\ FlowInv
  BY DEF IndInv, ShapeInv
<1>6. BackwardDone(s, m)'
  BY <1>3 DEF BackwardDone
<1> SUFFICES ASSUME NEW t \in S, NEW n \in Microbatches
             PROVE  /\ ~IsFirst(t) /\ Issued("forward", t - 1, n)' /\ ~Issued("forward", t, n)' =>
                         /\ SameRank(t - 1, t) \/ Slot("F", t, n) \in recvOps'
                         /\ Activation(inputs'[Slot("F", t, n)], n)
                    /\ ~IsLast(layout, t) /\ BackwardIssued(t + 1, n)' /\ ~BackwardDone(t, n)' =>
                         /\ SameRank(t + 1, t) \/ Slot("B", t, n) \in recvOps'
                         /\ inputs'[Slot("B", t, n)] = Gradient(n)
                    /\ Issued("forward", t, n)' /\ ~BackwardDone(t, n)' =>
                         Activation(fwdCache'[t][n], n)
                    /\ /\ Splits(t) /\ Issued("backward_input", t, n)'
                       /\ ~Issued("backward_weight", t, n)'
                       => weightCache[t][n] = PassGrad(n)
  BY <1>1, <1>2, <1>4 DEF FlowInv, PassGrad, ParamGrad
<1>7. t \in Int /\ s \in Int
  BY <1>5, Neighbours
<1>8. ~IsFirst(t) /\ Issued("forward", t - 1, n)' /\ ~Issued("forward", t, n)' =>
        /\ SameRank(t - 1, t) \/ Slot("F", t, n) \in recvOps'
        /\ Activation(inputs'[Slot("F", t, n)], n)
  BY <1>1, <1>3, <1>5 DEF FlowInv, NothingHanded
<1>9. ~IsLast(layout, t) /\ BackwardIssued(t + 1, n)' /\ ~BackwardDone(t, n)' =>
        /\ SameRank(t + 1, t) \/ Slot("B", t, n) \in recvOps'
        /\ inputs'[Slot("B", t, n)] = Gradient(n)
  <2>1. CASE t = s - 1 /\ n = m
    <3>1. t + 1 = s
      BY <1>7, <2>1
    <3> QED  BY <1>1, <2>1, <3>1 DEF BackwardHanded
  <2>2. CASE ~(t = s - 1 /\ n = m)
    <3>1. ~(t + 1 = s /\ n = m)
      BY <1>7, <2>2
    <3> QED  BY <1>1, <1>4, <1>5, <1>6, <2>2, <3>1 DEF FlowInv, BackwardHanded
  <2> QED  BY <2>1, <2>2
<1>10. Issued("forward", t, n)' /\ ~BackwardDone(t, n)' => Activation(fwdCache'[t][n], n)
  BY <1>1, <1>3, <1>4, <1>5, <1>6 DEF FlowInv
<1>11. Splits(t) /\ Issued("backward_input", t, n)' /\ ~Issued("backward_weight", t, n)'
         => weightCache[t][n] = PassGrad(n)
  BY <1>3, <1>5 DEF FlowInv
<1> QED  BY <1>8, <1>9, <1>10, <1>11

LEMMA FlowBackwardInput ==
    ASSUME IndInv, NEW s \in S, NEW m \in Microbatches, BackwardInput(s, m), Splits(s)
    PROVE  FlowInv'
<1>1. /\ BackwardHanded(s, m) /\ NothingHanded("F")
      /\ weightCache'[s][m] = PassGrad(m)
      /\ \A t \in S, n \in Microbatches :
            ~(t = s /\ n = m) => weightCache'[t][n] = weightCache[t][n]
      /\ done' = done \cup {<<"backward_input", s, m>>}
      /\ \A t \in S, n \in Microbatches :
            ~(t = s /\ n = m) => fwdCache'[t][n] = fwdCache[t][n]
      /\ UNCHANGED <<layout, at>>
  BY BackwardInputEffect DEF SamePass
<1>2. S' = S /\ Microbatches' = Microbatches
  BY <1>1 DEF S, Microbatches
<1>3. \A k, t, n : Issued(k, t, n)' <=> Issued(k, t, n) \/ (k = "backward_input" /\ t = s /\ n = m)
  BY <1>1 DEF Issued
<1>4. \A t, n : /\ BackwardIssued(t, n)' => BackwardIssued(t, n) \/ (t = s /\ n = m)
                /\ BackwardDone(t, n) => BackwardDone(t, n)'
                /\ SameRank(t, n)' <=> SameRank(t, n)
  BY <1>1, <1>3 DEF BackwardIssued, BackwardDone, SameRank
<1>5. layout \in Layouts /\ FlowInv
  BY DEF IndInv, ShapeInv
<1>6. BackwardDone(s, m)'
  BY <1>3 DEF BackwardDone
<1> SUFFICES ASSUME NEW t \in S, NEW n \in Microbatches
             PROVE  /\ ~IsFirst(t) /\ Issued("forward", t - 1, n)' /\ ~Issued("forward", t, n)' =>
                         /\ SameRank(t - 1, t) \/ Slot("F", t, n) \in recvOps'
                         /\ Activation(inputs'[Slot("F", t, n)], n)
                    /\ ~IsLast(layout, t) /\ BackwardIssued(t + 1, n)' /\ ~BackwardDone(t, n)' =>
                         /\ SameRank(t + 1, t) \/ Slot("B", t, n) \in recvOps'
                         /\ inputs'[Slot("B", t, n)] = Gradient(n)
                    /\ Issued("forward", t, n)' /\ ~BackwardDone(t, n)' =>
                         Activation(fwdCache'[t][n], n)
                    /\ /\ Splits(t) /\ Issued("backward_input", t, n)'
                       /\ ~Issued("backward_weight", t, n)'
                       => weightCache'[t][n] = PassGrad(n)
  BY <1>1, <1>2, <1>4 DEF FlowInv, PassGrad, ParamGrad
<1>7. t \in Int /\ s \in Int
  BY <1>5, Neighbours
<1>8. ~IsFirst(t) /\ Issued("forward", t - 1, n)' /\ ~Issued("forward", t, n)' =>
        /\ SameRank(t - 1, t) \/ Slot("F", t, n) \in recvOps'
        /\ Activation(inputs'[Slot("F", t, n)], n)
  BY <1>1, <1>3, <1>5 DEF FlowInv, NothingHanded
<1>9. ~IsLast(layout, t) /\ BackwardIssued(t + 1, n)' /\ ~BackwardDone(t, n)' =>
        /\ SameRank(t + 1, t) \/ Slot("B", t, n) \in recvOps'
        /\ inputs'[Slot("B", t, n)] = Gradient(n)
  <2>1. CASE t = s - 1 /\ n = m
    <3>1. t + 1 = s
      BY <1>7, <2>1
    <3> QED  BY <1>1, <2>1, <3>1 DEF BackwardHanded
  <2>2. CASE ~(t = s - 1 /\ n = m)
    <3>1. ~(t + 1 = s /\ n = m)
      BY <1>7, <2>2
    <3> QED  BY <1>1, <1>4, <1>5, <1>6, <2>2, <3>1 DEF FlowInv, BackwardHanded
  <2> QED  BY <2>1, <2>2
<1>10. Issued("forward", t, n)' /\ ~BackwardDone(t, n)' => Activation(fwdCache'[t][n], n)
  BY <1>1, <1>3, <1>4, <1>5, <1>6 DEF FlowInv
<1>11. Splits(t) /\ Issued("backward_input", t, n)' /\ ~Issued("backward_weight", t, n)'
         => weightCache'[t][n] = PassGrad(n)
  BY <1>1, <1>3, <1>5 DEF FlowInv
<1> QED  BY <1>8, <1>9, <1>10, <1>11

LEMMA FlowOverlap ==
    ASSUME IndInv, NEW s \in S, NEW m \in Microbatches, NEW u \in S, NEW k \in Microbatches,
           OverlapFwBw(s, m, u, k)
    PROVE  FlowInv'
<1>1. /\ ForwardHanded(s, m) /\ BackwardHanded(u, k) /\ UNCHANGED weightCache
      /\ done' = done \cup {<<"forward", s, m>>, <<"backward", u, k>>}
      /\ Activation(fwdCache'[s][m], m)
      /\ \A t \in S, n \in Microbatches :
            ~(t = s /\ n = m) /\ ~(t = u /\ n = k) => fwdCache'[t][n] = fwdCache[t][n]
      /\ UNCHANGED <<layout, at>>
  BY OverlapEffect DEF SamePass
<1>2. S' = S /\ Microbatches' = Microbatches
  BY <1>1 DEF S, Microbatches
<1>3. \A a, t, n : Issued(a, t, n)' <=> \/ Issued(a, t, n)
                                        \/ a = "forward" /\ t = s /\ n = m
                                        \/ a = "backward" /\ t = u /\ n = k
  BY <1>1 DEF Issued
<1>4. \A t, n : /\ BackwardIssued(t, n)' => BackwardIssued(t, n) \/ (t = u /\ n = k)
                /\ BackwardDone(t, n) => BackwardDone(t, n)'
                /\ SameRank(t, n)' <=> SameRank(t, n)
  BY <1>1, <1>3 DEF BackwardIssued, BackwardDone, SameRank
<1>5. layout \in Layouts /\ FlowInv
  BY DEF IndInv, ShapeInv
<1>6. BackwardDone(u, k)'
  BY <1>3 DEF BackwardDone
<1> SUFFICES ASSUME NEW t \in S, NEW n \in Microbatches
             PROVE  /\ ~IsFirst(t) /\ Issued("forward", t - 1, n)' /\ ~Issued("forward", t, n)' =>
                         /\ SameRank(t - 1, t) \/ Slot("F", t, n) \in recvOps'
                         /\ Activation(inputs'[Slot("F", t, n)], n)
                    /\ ~IsLast(layout, t) /\ BackwardIssued(t + 1, n)' /\ ~BackwardDone(t, n)' =>
                         /\ SameRank(t + 1, t) \/ Slot("B", t, n) \in recvOps'
                         /\ inputs'[Slot("B", t, n)] = Gradient(n)
                    /\ Issued("forward", t, n)' /\ ~BackwardDone(t, n)' =>
                         Activation(fwdCache'[t][n], n)
                    /\ /\ Splits(t) /\ Issued("backward_input", t, n)'
                       /\ ~Issued("backward_weight", t, n)'
                       => weightCache[t][n] = PassGrad(n)
  BY <1>1, <1>2, <1>4 DEF FlowInv, PassGrad, ParamGrad
<1>7. t \in Int /\ s \in Int /\ u \in Int
  BY <1>5, Neighbours
<1>8. ~IsFirst(t) /\ Issued("forward", t - 1, n)' /\ ~Issued("forward", t, n)' =>
        /\ SameRank(t - 1, t) \/ Slot("F", t, n) \in recvOps'
        /\ Activation(inputs'[Slot("F", t, n)], n)
  <2>1. CASE t = s + 1 /\ n = m
    <3>1. t - 1 = s
      BY <1>7, <2>1
    <3> QED  BY <1>1, <2>1, <3>1 DEF ForwardHanded
  <2>2. CASE ~(t = s + 1 /\ n = m)
    <3>1. ~(t - 1 = s /\ n = m)
      BY <1>7, <2>2
    <3> QED  BY <1>1, <1>3, <1>5, <2>2, <3>1 DEF FlowInv, ForwardHanded
  <2> QED  BY <2>1, <2>2
<1>9. ~IsLast(layout, t) /\ BackwardIssued(t + 1, n)' /\ ~BackwardDone(t, n)' =>
        /\ SameRank(t + 1, t) \/ Slot("B", t, n) \in recvOps'
        /\ inputs'[Slot("B", t, n)] = Gradient(n)
  <2>1. CASE t = u - 1 /\ n = k
    <3>1. t + 1 = u
      BY <1>7, <2>1
    <3> QED  BY <1>1, <2>1, <3>1 DEF BackwardHanded
  <2>2. CASE ~(t = u - 1 /\ n = k)
    <3>1. ~(t + 1 = u /\ n = k)
      BY <1>7, <2>2
    <3> QED  BY <1>1, <1>4, <1>5, <1>6, <2>2, <3>1 DEF FlowInv, BackwardHanded
  <2> QED  BY <2>1, <2>2
<1>10. Issued("forward", t, n)' /\ ~BackwardDone(t, n)' => Activation(fwdCache'[t][n], n)
  BY <1>1, <1>3, <1>4, <1>5, <1>6 DEF FlowInv
<1>11. Splits(t) /\ Issued("backward_input", t, n)' /\ ~Issued("backward_weight", t, n)'
         => weightCache[t][n] = PassGrad(n)
  BY <1>3, <1>5 DEF FlowInv
<1> QED  BY <1>8, <1>9, <1>10, <1>11

\* An action that reads no input and stores none.
LEMMA FlowKept ==
    ASSUME IndInv, UNCHANGED <<layout, at, inputs, recvOps, fwdCache>>, done \subseteq done',
           \A t \in S, n \in Microbatches :
              ~Issued("backward_weight", t, n)' => weightCache'[t][n] = weightCache[t][n],
           \A k, t, n : Issued(k, t, n)' => \/ Issued(k, t, n)
                                            \/ k = "reduce"
                                            \/ k = "backward_weight"
                                            \/ k = "backward_input" /\ IsFirst(t)
    PROVE  FlowInv'
<1>1. S' = S /\ Microbatches' = Microbatches
  BY DEF S, Microbatches
<1>2. layout \in Layouts /\ FlowInv
  BY DEF IndInv, ShapeInv
<1>3. \A k, t, n : Issued(k, t, n) => Issued(k, t, n)'
  BY DEF Issued
<1>4. \A t, n : /\ BackwardIssued(t, n)' => BackwardIssued(t, n) \/ IsFirst(t)
                /\ BackwardDone(t, n) => BackwardDone(t, n)'
                /\ SameRank(t, n)' <=> SameRank(t, n)
  BY <1>3 DEF BackwardIssued, BackwardDone, SameRank
<1> SUFFICES ASSUME NEW t \in S, NEW n \in Microbatches
             PROVE  /\ ~IsFirst(t) /\ Issued("forward", t - 1, n)' /\ ~Issued("forward", t, n)' =>
                         /\ SameRank(t - 1, t) \/ Slot("F", t, n) \in recvOps
                         /\ Activation(inputs[Slot("F", t, n)], n)
                    /\ ~IsLast(layout, t) /\ BackwardIssued(t + 1, n)' /\ ~BackwardDone(t, n)' =>
                         /\ SameRank(t + 1, t) \/ Slot("B", t, n) \in recvOps
                         /\ inputs[Slot("B", t, n)] = Gradient(n)
                    /\ Issued("forward", t, n)' /\ ~BackwardDone(t, n)' =>
                         Activation(fwdCache[t][n], n)
                    /\ /\ Splits(t) /\ Issued("backward_input", t, n)'
                       /\ ~Issued("backward_weight", t, n)'
                       => weightCache'[t][n] = PassGrad(n)
  BY <1>1, <1>4 DEF FlowInv, PassGrad, ParamGrad
<1>5. ~IsFirst(t) /\ Issued("forward", t - 1, n)' /\ ~Issued("forward", t, n)' =>
        /\ SameRank(t - 1, t) \/ Slot("F", t, n) \in recvOps
        /\ Activation(inputs[Slot("F", t, n)], n)
  BY <1>2, <1>3 DEF FlowInv
<1>6. ~IsLast(layout, t) /\ BackwardIssued(t + 1, n)' /\ ~BackwardDone(t, n)' =>
        /\ SameRank(t + 1, t) \/ Slot("B", t, n) \in recvOps
        /\ inputs[Slot("B", t, n)] = Gradient(n)
  <2>1. ~IsFirst(t + 1)
    BY <1>2, Neighbours DEF IsFirst
  <2> QED  BY <1>2, <1>4, <2>1 DEF FlowInv
<1>7. Issued("forward", t, n)' /\ ~BackwardDone(t, n)' => Activation(fwdCache[t][n], n)
  BY <1>2, <1>4 DEF FlowInv
<1>8. Splits(t) /\ Issued("backward_input", t, n)' /\ ~Issued("backward_weight", t, n)'
        => weightCache'[t][n] = PassGrad(n)
  BY <1>2, <1>3 DEF FlowInv, Splits
<1> QED  BY <1>5, <1>6, <1>7, <1>8

-----------------------------------------------------------------------------
(* The count of backwards.                                                 *)

LEMMA MicrobatchesFinite ==
    ASSUME layout \in Layouts
    PROVE  /\ IsFiniteSet(Microbatches) /\ Cardinality(Microbatches) = layout.microbatches
           /\ Microbatches # {} /\ layout.microbatches \in Nat \ {0}
<1>1. layout.microbatches \in Nat \ {0}
  BY LayoutSizes
<1>2. IsFiniteSet(1..layout.microbatches) /\ Cardinality(1..layout.microbatches) = layout.microbatches
  <2> DEFINE n == layout.microbatches
  <2>1. n \in Int /\ n >= 1
    BY <1>1
  <2> HIDE DEF n
  <2>2. IsFiniteSet(1..n) /\ Cardinality(1..n) = n
    BY <2>1, FS_Interval
  <2> QED  BY <2>2 DEF n
<1>3. 1 \in Microbatches
  BY <1>1 DEF Microbatches
<1> QED  BY <1>1, <1>2, <1>3 DEF Microbatches

LEMMA CountKept ==
    ASSUME CountInv, UNCHANGED <<layout, counted>>,
           \A t \in S, n \in Microbatches : BackwardDone(t, n)' <=> BackwardDone(t, n)
    PROVE  CountInv'
<1>1. S' = S /\ Microbatches' = Microbatches
  BY DEF S, Microbatches
<1>2. \A t \in S : {n \in Microbatches : BackwardDone(t, n)'} = {n \in Microbatches : BackwardDone(t, n)}
  OBVIOUS
<1> QED  BY <1>1, <1>2 DEF CountInv

\* One more backward is counted.
LEMMA CountOneMore ==
    ASSUME IndInv, NEW s \in S, NEW m \in Microbatches, ~BackwardDone(s, m), UNCHANGED layout,
           counted' = [counted EXCEPT ![s] = @ + 1],
           \A t \in S, n \in Microbatches :
              BackwardDone(t, n)' <=> BackwardDone(t, n) \/ (t = s /\ n = m)
    PROVE  CountInv'
<1>1. S' = S /\ Microbatches' = Microbatches /\ CountInv /\ DOMAIN counted = S /\ layout \in Layouts
  BY DEF S, Microbatches, IndInv, ShapeInv
<1>2. SUFFICES ASSUME NEW t \in S
               PROVE  counted'[t] = Cardinality({n \in Microbatches : BackwardDone(t, n)'})
  BY <1>1 DEF CountInv
<1> DEFINE before == {n \in Microbatches : BackwardDone(t, n)}
           after == {n \in Microbatches : BackwardDone(t, n)'}
<1>3. counted[t] = Cardinality(before)
  BY <1>1 DEF CountInv
<1>4. CASE t = s
  <2>1. after = before \cup {m} /\ m \notin before
    BY <1>4
  <2>2. IsFiniteSet(before)
    <3>1. before \subseteq Microbatches /\ IsFiniteSet(Microbatches)
      BY <1>1, MicrobatchesFinite
    <3> HIDE DEF before
    <3> QED  BY <3>1, FS_Subset
  <2>3. counted'[t] = counted[t] + 1
    BY <1>1, <1>4
  <2> HIDE DEF before, after
  <2>4. Cardinality(before \cup {m}) = Cardinality(before) + 1
    BY <2>1, <2>2, FS_AddElement
  <2> QED  BY <1>3, <2>1, <2>3, <2>4 DEF after
<1>5. CASE t # s
  <2>1. after = before /\ counted'[t] = counted[t]
    BY <1>1, <1>5
  <2> QED  BY <1>3, <2>1
<1> QED  BY <1>4, <1>5

-----------------------------------------------------------------------------
(* The gradients of the pass.                                              *)

LEMMA GradKept ==
    ASSUME GradInv, UNCHANGED <<layout, at>>, done \subseteq done', \A t \in S : SameGrads(t),
           \A t \in S, n \in Microbatches : GradDone(t, n)' <=> GradDone(t, n),
           \A t : Issued("reduce", t, 0)' <=> Issued("reduce", t, 0)
    PROVE  GradInv'
<1>1. S' = S /\ Microbatches' = Microbatches /\ Divided' = Divided
      /\ \A n : PassGrad(n)' = PassGrad(n)
  BY DEF S, Microbatches, Divided, PassGrad, ParamGrad
<1>2. \A t \in S : WeightsDone(t) => WeightsDone(t)'
  BY <1>1 DEF WeightsDone, Issued
<1> SUFFICES ASSUME NEW t \in S
             PROVE  /\ OneEach(state'[t].unshardedGrads,
                               {PassGrad(n) : n \in {k \in Microbatches : GradDone(t, k)'}})
                    /\ ~Issued("reduce", t, 0)' =>
                         state'[t].shardedGrads = None /\ ~state'[t].scaled
                    /\ Issued("reduce", t, 0)' =>
                         /\ WeightsDone(t)'
                         /\ state'[t].shardedGrads =
                              [terms |-> state'[t].unshardedGrads, divided |-> Divided]
  BY <1>1 DEF GradInv, OneEach, None
<1>3. {k \in Microbatches : GradDone(t, k)'} = {k \in Microbatches : GradDone(t, k)}
  OBVIOUS
<1>4. SameGrads(t)
  OBVIOUS
<1>5. OneEach(state'[t].unshardedGrads,
              {PassGrad(n) : n \in {k \in Microbatches : GradDone(t, k)'}})
  BY <1>3, <1>4 DEF GradInv, SameGrads
<1>6. ~Issued("reduce", t, 0)' => state'[t].shardedGrads = None /\ ~state'[t].scaled
  BY <1>4 DEF GradInv, SameGrads
<1>7. Issued("reduce", t, 0)' =>
        WeightsDone(t)' /\ state'[t].shardedGrads =
                             [terms |-> state'[t].unshardedGrads, divided |-> Divided]
  BY <1>2, <1>4 DEF GradInv, SameGrads
<1> QED  BY <1>5, <1>6, <1>7

LEMMA GradOneMore ==
    ASSUME GradInv, UNCHANGED <<layout, at>>, done \subseteq done',
           NEW s \in S, NEW m \in Microbatches, ~GradDone(s, m), ~Issued("reduce", s, 0),
           OneGrad(s, m), \A t \in S : t # s => SameGrads(t),
           \A t \in S, n \in Microbatches :
              GradDone(t, n)' <=> GradDone(t, n) \/ (t = s /\ n = m),
           \A t : Issued("reduce", t, 0)' <=> Issued("reduce", t, 0)
    PROVE  GradInv'
<1>1. S' = S /\ Microbatches' = Microbatches /\ Divided' = Divided
      /\ \A n : PassGrad(n)' = PassGrad(n)
  BY DEF S, Microbatches, Divided, PassGrad, ParamGrad
<1>2. \A t \in S : WeightsDone(t) => WeightsDone(t)'
  BY <1>1 DEF WeightsDone, Issued
<1> SUFFICES ASSUME NEW t \in S
             PROVE  /\ OneEach(state'[t].unshardedGrads,
                               {PassGrad(n) : n \in {k \in Microbatches : GradDone(t, k)'}})
                    /\ ~Issued("reduce", t, 0)' =>
                         state'[t].shardedGrads = None /\ ~state'[t].scaled
                    /\ Issued("reduce", t, 0)' =>
                         /\ WeightsDone(t)'
                         /\ state'[t].shardedGrads =
                              [terms |-> state'[t].unshardedGrads, divided |-> Divided]
  BY <1>1 DEF GradInv, OneEach, None
<1>3. CASE t # s
  <2>1. {k \in Microbatches : GradDone(t, k)'} = {k \in Microbatches : GradDone(t, k)}
    BY <1>3
  <2>2. SameGrads(t)
    BY <1>3
  <2>3. OneEach(state'[t].unshardedGrads,
                {PassGrad(n) : n \in {k \in Microbatches : GradDone(t, k)'}})
    BY <2>1, <2>2 DEF GradInv, SameGrads
  <2>4. ~Issued("reduce", t, 0)' => state'[t].shardedGrads = None /\ ~state'[t].scaled
    BY <2>2 DEF GradInv, SameGrads
  <2>5. Issued("reduce", t, 0)' =>
          WeightsDone(t)' /\ state'[t].shardedGrads =
                               [terms |-> state'[t].unshardedGrads, divided |-> Divided]
    BY <1>2, <2>2 DEF GradInv, SameGrads
  <2> QED  BY <2>3, <2>4, <2>5
<1>4. CASE t = s
  <2> DEFINE before == {PassGrad(n) : n \in {k \in Microbatches : GradDone(t, k)}}
             after == {PassGrad(n) : n \in {k \in Microbatches : GradDone(t, k)'}}
  <2>1. {k \in Microbatches : GradDone(t, k)'} = {k \in Microbatches : GradDone(t, k)} \cup {m}
    BY <1>4
  <2>2. after = before \cup {PassGrad(m)}
    BY <2>1
  <2>3. PassGrad(m) \notin before
    <3>1. \A n : PassGrad(n) = PassGrad(m) => n = m
      BY DEF PassGrad, ParamGrad
    <3> QED  BY <1>4, <3>1
  <2>4. OneEach(state[t].unshardedGrads, before)
    BY DEF GradInv
  <2>5. state'[t].unshardedGrads = state[t].unshardedGrads (+) SetToBag({PassGrad(m)})
    BY <1>4 DEF OneGrad
  <2> HIDE DEF before, after
  <2>6. OneEach(state'[t].unshardedGrads, after)
    BY <2>2, <2>3, <2>4, <2>5, OneMore
  <2>7. state'[t].shardedGrads = None /\ ~state'[t].scaled /\ ~Issued("reduce", t, 0)'
    BY <1>4 DEF GradInv, OneGrad
  <2> QED  BY <2>6, <2>7 DEF after
<1> QED  BY <1>3, <1>4

LEMMA ParamKept ==
    ASSUME ParamInv, UNCHANGED <<layout, plan, at, paramGrad>>
    PROVE  ParamInv'
<1>1. S' = S /\ Microbatches' = Microbatches /\ Divided' = Divided /\ TrainPasses' = TrainPasses
  BY DEF S, Microbatches, Divided, TrainPasses
<1>2. \A i, n : Term(i, n)' = Term(i, n)
  BY <1>1 DEF Term
<1> QED  BY <1>1, <1>2 DEF ParamInv, OneEach

-----------------------------------------------------------------------------
(* Every handler keeps the invariant.                                      *)

LEMMA ForwardStep ==
    ASSUME IndInv, NEW s \in S, NEW m \in Microbatches, Forward(s, m)
    PROVE  IndInv'
<1>1. /\ SamePass /\ done' = done \cup {<<"forward", s, m>>}
      /\ UNCHANGED counted /\ \A t \in S : SameGrads(t)
      /\ ShapeInv'
  BY ForwardEffect
<1>2. UNCHANGED <<layout, plan, at, paramGrad>> /\ UNCHANGED error
  BY <1>1 DEF SamePass
<1>3. \A k, t, n : Issued(k, t, n)' <=> Issued(k, t, n) \/ (k = "forward" /\ t = s /\ n = m)
  BY <1>1 DEF Issued
<1>4. \A t, n : BackwardDone(t, n)' <=> BackwardDone(t, n)
  BY <1>3 DEF BackwardDone
<1>5. \A t, n : GradDone(t, n)' <=> GradDone(t, n)
  BY <1>3 DEF GradDone
<1>6. \A t : Issued("reduce", t, 0)' <=> Issued("reduce", t, 0)
  BY <1>3
<1>7. CountInv'
  BY <1>1, <1>2, <1>4, CountKept DEF IndInv
<1>8. GradInv'
  <2>1. done \subseteq done'
    BY <1>1
  <2> QED  BY <1>1, <1>2, <1>5, <1>6, <2>1, GradKept DEF IndInv
<1>9. ParamInv'
  BY <1>2, ParamKept DEF IndInv
<1>10. OrderInv' /\ FlowInv'
  BY OrderStep, FlowForward
<1> QED  BY <1>1, <1>2, <1>7, <1>8, <1>9, <1>10 DEF IndInv

\* A full backward, issued as kind.
LEMMA FullBackwardStep ==
    ASSUME IndInv, NEW s \in S, NEW m \in Microbatches, NEW kind,
           Issued("forward", s, m), ~BackwardDone(s, m), ~Issued("reduce", s, 0),
           ~IsLast(layout, s) => BackwardIssued(s + 1, m),
           RunFullBackward(kind, s, m), UNCHANGED <<layout, plan, at, version, paramGrad>>,
           kind = "backward" \/ (kind = "backward_weight" /\ ~Splits(s)),
           OrderInv'
    PROVE  IndInv'
<1>1. /\ SamePass /\ done' = done \cup {<<kind, s, m>>}
      /\ counted' = [counted EXCEPT ![s] = @ + 1]
      /\ OneGrad(s, m) /\ \A t \in S : t # s => SameGrads(t)
      /\ ShapeInv'
  BY FullBackwardEffect
<1>2. UNCHANGED <<layout, plan, at, paramGrad>> /\ UNCHANGED error
  BY <1>1 DEF SamePass
<1>3. \A k, t, n : Issued(k, t, n)' <=> Issued(k, t, n) \/ (k = kind /\ t = s /\ n = m)
  BY <1>1 DEF Issued
<1>4. \A t, n : BackwardDone(t, n)' <=> BackwardDone(t, n) \/ (t = s /\ n = m)
  BY <1>3 DEF BackwardDone
<1>5. \A t, n : GradDone(t, n)' <=> GradDone(t, n) \/ (t = s /\ n = m)
  BY <1>3 DEF GradDone
<1>6. \A t : Issued("reduce", t, 0)' <=> Issued("reduce", t, 0)
  BY <1>3
<1>7. CountInv'
  BY <1>1, <1>2, <1>4, CountOneMore
<1>8. GradInv'
  <2>1. done \subseteq done'
    BY <1>1
  <2>2. ~GradDone(s, m)
    BY BackwardOrder DEF IndInv
  <2> QED  BY <1>1, <1>2, <1>5, <1>6, <2>1, <2>2, GradOneMore DEF IndInv
<1>9. ParamInv'
  BY <1>2, ParamKept DEF IndInv
<1>10. FlowInv'
  BY FlowFullBackward
<1> QED  BY <1>1, <1>2, <1>7, <1>8, <1>9, <1>10 DEF IndInv

LEMMA BackwardInputStep ==
    ASSUME IndInv, NEW s \in S, NEW m \in Microbatches, BackwardInput(s, m)
    PROVE  IndInv'
<1>1. OrderInv'
  BY OrderStep
<1>2. CASE Splits(s)
  <2>1. /\ SamePass /\ done' = done \cup {<<"backward_input", s, m>>}
        /\ counted' = [counted EXCEPT ![s] = @ + 1]
        /\ \A t \in S : SameGrads(t)
        /\ ShapeInv'
    BY <1>2, BackwardInputEffect
  <2>2. UNCHANGED <<layout, plan, at, paramGrad>> /\ UNCHANGED error
    BY <2>1 DEF SamePass
  <2>3. \A k, t, n :
          Issued(k, t, n)' <=> Issued(k, t, n) \/ (k = "backward_input" /\ t = s /\ n = m)
    BY <2>1 DEF Issued
  <2>4. \A t, n : BackwardDone(t, n)' <=> BackwardDone(t, n) \/ (t = s /\ n = m)
    BY <1>2, <2>3 DEF BackwardDone
  <2>5. \A t, n : GradDone(t, n)' <=> GradDone(t, n)
    BY <2>3 DEF GradDone
  <2>6. \A t : Issued("reduce", t, 0)' <=> Issued("reduce", t, 0)
    BY <2>3
  <2>7. ~BackwardDone(s, m)
    BY BackwardMayRun DEF BackwardInput
  <2>8. CountInv'
    BY <2>1, <2>2, <2>4, <2>7, CountOneMore
  <2>9. GradInv'
    <3>1. done \subseteq done'
      BY <2>1
    <3> QED  BY <2>1, <2>2, <2>5, <2>6, <3>1, GradKept DEF IndInv
  <2>10. ParamInv' /\ FlowInv'
    BY <1>2, <2>2, ParamKept, FlowBackwardInput DEF IndInv
  <2> QED  BY <1>1, <2>1, <2>2, <2>8, <2>9, <2>10 DEF IndInv
<1>3. CASE ~Splits(s)
  <2>1. /\ done' = done \cup {<<"backward_input", s, m>>}
        /\ UNCHANGED <<layout, plan, at, version, paramGrad, error>>
        /\ UNCHANGED <<inputs, recvOps, fwdCache, weightCache, state, counted>>
    BY <1>3 DEF BackwardInput, Issue
  <2>2. \A k, t, n :
          Issued(k, t, n)' <=> Issued(k, t, n) \/ (k = "backward_input" /\ t = s /\ n = m)
    BY <2>1 DEF Issued
  <2>3. \A t, n : /\ BackwardDone(t, n)' <=> BackwardDone(t, n)
                  /\ GradDone(t, n)' <=> GradDone(t, n)
    BY <1>3, <2>2 DEF BackwardDone, GradDone
  <2>4. \A t : Issued("reduce", t, 0)' <=> Issued("reduce", t, 0)
    BY <2>2
  <2>5. ShapeInv'
    BY <2>1 DEF IndInv, ShapeInv, S, Microbatches
  <2>6. CountInv' /\ ParamInv'
    BY <2>1, <2>3, CountKept, ParamKept DEF IndInv
  <2>7. GradInv'
    <3>1. done \subseteq done' /\ \A t \in S : SameGrads(t)
      BY <2>1 DEF SameGrads
    <3> QED  BY <2>1, <2>3, <2>4, <3>1, GradKept DEF IndInv
  <2>8. FlowInv'
    <3>1. \A k, t, n : Issued(k, t, n)' => \/ Issued(k, t, n)
                                           \/ k = "reduce"
                                           \/ k = "backward_weight"
                                           \/ k = "backward_input" /\ IsFirst(t)
      BY <1>3, <2>2 DEF Splits
    <3>2. done \subseteq done'
      BY <2>1
    <3> QED  BY <2>1, <3>1, <3>2, FlowKept
  <2> QED  BY <1>1, <2>1, <2>5, <2>6, <2>7, <2>8 DEF IndInv
<1> QED  BY <1>2, <1>3

LEMMA BackwardWeightStep ==
    ASSUME IndInv, NEW s \in S, NEW m \in Microbatches, BackwardWeight(s, m)
    PROVE  IndInv'
<1>1. OrderInv'
  BY OrderStep
<1>2. ~Issued("reduce", s, 0)
  <2>1. Issued("backward_input", s, m) /\ ~Issued("backward_weight", s, m)
    BY DEF BackwardWeight, MayBackwardWeight
  <2>2. ~WeightsDone(s)
    BY <2>1 DEF WeightsDone, IndInv, OrderInv
  <2> QED  BY <2>2 DEF IndInv, GradInv
<1>3. CASE Splits(s)
  <2>1. /\ SamePass /\ done' = done \cup {<<"backward_weight", s, m>>}
        /\ UNCHANGED <<counted, inputs, recvOps, fwdCache>>
        /\ \A t \in S, n \in Microbatches :
              ~(t = s /\ n = m) => weightCache'[t][n] = weightCache[t][n]
        /\ OneGrad(s, m) /\ \A t \in S : t # s => SameGrads(t)
        /\ ShapeInv'
    BY <1>3, BackwardWeightEffect
  <2>2. UNCHANGED <<layout, plan, at, paramGrad>> /\ UNCHANGED error
    BY <2>1 DEF SamePass
  <2>3. \A k, t, n :
          Issued(k, t, n)' <=> Issued(k, t, n) \/ (k = "backward_weight" /\ t = s /\ n = m)
    BY <2>1 DEF Issued
  <2>4. \A t, n : BackwardDone(t, n)' <=> BackwardDone(t, n)
    BY <1>3, <2>3 DEF BackwardDone
  <2>5. \A t, n : GradDone(t, n)' <=> GradDone(t, n) \/ (t = s /\ n = m)
    BY <2>3 DEF GradDone
  <2>6. \A t : Issued("reduce", t, 0)' <=> Issued("reduce", t, 0)
    BY <2>3
  <2>7. ~GradDone(s, m)
    BY DEF BackwardWeight, MayBackwardWeight, GradDone, IndInv, OrderInv
  <2>8. CountInv' /\ ParamInv'
    BY <2>1, <2>2, <2>4, CountKept, ParamKept DEF IndInv
  <2>9. GradInv'
    <3>1. done \subseteq done'
      BY <2>1
    <3> QED  BY <1>2, <2>1, <2>2, <2>5, <2>6, <2>7, <3>1, GradOneMore DEF IndInv
  <2>10. FlowInv'
    <3>1. \A k, t, n : Issued(k, t, n)' => \/ Issued(k, t, n)
                                           \/ k = "reduce"
                                           \/ k = "backward_weight"
                                           \/ k = "backward_input" /\ IsFirst(t)
      BY <2>3
    <3>2. \A t \in S, n \in Microbatches :
             ~Issued("backward_weight", t, n)' => weightCache'[t][n] = weightCache[t][n]
      BY <2>1, <2>3
    <3>3. done \subseteq done'
      BY <2>1
    <3> QED  BY <2>1, <2>2, <3>1, <3>2, <3>3, FlowKept
  <2> QED  BY <1>1, <2>1, <2>2, <2>8, <2>9, <2>10 DEF IndInv
<1>4. CASE ~Splits(s)
  BY <1>1, <1>2, <1>4, WeightOfFirst, FullBackwardStep
<1> QED  BY <1>3, <1>4

LEMMA OverlapStep ==
    ASSUME IndInv, NEW s \in S, NEW m \in Microbatches, NEW u \in S, NEW k \in Microbatches,
           OverlapFwBw(s, m, u, k)
    PROVE  IndInv'
<1>1. /\ SamePass /\ done' = done \cup {<<"forward", s, m>>, <<"backward", u, k>>}
      /\ counted' = [counted EXCEPT ![u] = @ + 1]
      /\ OneGrad(u, k) /\ \A t \in S : t # u => SameGrads(t)
      /\ ShapeInv'
  BY OverlapEffect
<1>2. UNCHANGED <<layout, plan, at, paramGrad>> /\ UNCHANGED error
  BY <1>1 DEF SamePass
<1>3. \A a, t, n : Issued(a, t, n)' <=> \/ Issued(a, t, n)
                                        \/ a = "forward" /\ t = s /\ n = m
                                        \/ a = "backward" /\ t = u /\ n = k
  BY <1>1 DEF Issued
<1>4. \A t, n : BackwardDone(t, n)' <=> BackwardDone(t, n) \/ (t = u /\ n = k)
  BY <1>3 DEF BackwardDone
<1>5. \A t, n : GradDone(t, n)' <=> GradDone(t, n) \/ (t = u /\ n = k)
  BY <1>3 DEF GradDone
<1>6. \A t : Issued("reduce", t, 0)' <=> Issued("reduce", t, 0)
  BY <1>3
<1>7. ~BackwardDone(u, k) /\ ~Issued("reduce", u, 0)
  BY BackwardMayRun DEF OverlapFwBw
<1>8. CountInv'
  BY <1>1, <1>2, <1>4, <1>7, CountOneMore
<1>9. GradInv'
  <2>1. done \subseteq done'
    BY <1>1
  <2>2. ~GradDone(u, k)
    BY <1>7, BackwardOrder DEF IndInv
  <2> QED  BY <1>1, <1>2, <1>5, <1>6, <1>7, <2>1, <2>2, GradOneMore DEF IndInv
<1>10. ParamInv'
  BY <1>2, ParamKept DEF IndInv
<1>11. OrderInv' /\ FlowInv'
  BY OrderStep, FlowOverlap
<1> QED  BY <1>1, <1>2, <1>8, <1>9, <1>10, <1>11 DEF IndInv

\* UNSHARD and RESHARD change a stage's parameter values only.
LEMMA UnshardStep ==
    ASSUME IndInv, NEW s \in S, UnshardStage(s) \/ ReshardStage(s)
    PROVE  IndInv'
<1>1. /\ UNCHANGED <<layout, plan, at, paramGrad, done, inputs, recvOps, fwdCache, weightCache,
                     counted, error>>
      /\ \/ state' = [state EXCEPT ![s] = Unsharded(@)]
         \/ state' = [state EXCEPT ![s].unsharded = None]
  BY DEF UnshardStage, ReshardStage
<1>2. /\ DOMAIN state = S
      /\ \A t \in S : state[t] = [unsharded |-> state[t].unsharded,
                                  unshardedGrads |-> state[t].unshardedGrads,
                                  shardedGrads |-> state[t].shardedGrads,
                                  scaled |-> state[t].scaled]
  BY DEF IndInv, ShapeInv
<1>3. /\ DOMAIN state' = S
      /\ \A t \in S : /\ SameGrads(t)
                      /\ state'[t] = [unsharded |-> state'[t].unsharded,
                                      unshardedGrads |-> state'[t].unshardedGrads,
                                      shardedGrads |-> state'[t].shardedGrads,
                                      scaled |-> state'[t].scaled]
  <2>1. CASE state' = [state EXCEPT ![s] = Unsharded(@)]
    BY <1>2, <2>1, UnshardedKeeps DEF SameGrads
  <2>2. CASE state' = [state EXCEPT ![s].unsharded = None]
    <3>1. DOMAIN state' = S /\ \A t \in S : t # s => state'[t] = state[t]
      BY <1>2, <2>2
    <3>2. state'[s] = [unsharded |-> None,
                       unshardedGrads |-> state[s].unshardedGrads,
                       shardedGrads |-> state[s].shardedGrads,
                       scaled |-> state[s].scaled]
      <4>1. state'[s] = [state[s] EXCEPT !.unsharded = None]
        BY <1>2, <2>2
      <4>2. PICK a, b, c, d :
              state[s] = [unsharded |-> a, unshardedGrads |-> b, shardedGrads |-> c, scaled |-> d]
        BY <1>2
      <4> QED  BY <4>1, <4>2
    <3> QED  BY <1>2, <3>1, <3>2 DEF SameGrads
  <2> QED  BY <1>1, <2>1, <2>2
<1>4. ShapeInv'
  BY <1>1, <1>3 DEF IndInv, ShapeInv, S, Microbatches
<1>5. \A k, t, n : Issued(k, t, n)' <=> Issued(k, t, n)
  BY <1>1 DEF Issued
<1>6. \A t, n : /\ BackwardDone(t, n)' <=> BackwardDone(t, n)
                /\ GradDone(t, n)' <=> GradDone(t, n)
  BY <1>5 DEF BackwardDone, GradDone
<1>7. CountInv' /\ ParamInv'
  BY <1>1, <1>6, CountKept, ParamKept DEF IndInv
<1>8. GradInv'
  BY <1>1, <1>3, <1>5, <1>6, GradKept DEF IndInv
<1>9. FlowInv'
  BY <1>1, <1>5, FlowKept
<1>10. OrderInv'
  <2>1. \A k, t, n : ~IssuesNow(k, t, n)
    BY <1>1 DEF IssuesNow
  <2> QED  BY <1>1, <2>1, OrderKept DEF IndInv
<1> QED  BY <1>1, <1>4, <1>7, <1>8, <1>9, <1>10 DEF IndInv

\* A reduction divides once.
LEMMA ReducedGrads ==
    ASSUME NEW st, st = [unsharded |-> st.unsharded, unshardedGrads |-> st.unshardedGrads,
                         shardedGrads |-> st.shardedGrads, scaled |-> st.scaled],
           ~st.scaled
    PROVE  LET r == Reduced(st)
           IN  /\ r = [unsharded |-> r.unsharded, unshardedGrads |-> r.unshardedGrads,
                       shardedGrads |-> r.shardedGrads, scaled |-> r.scaled]
               /\ r.unshardedGrads = st.unshardedGrads
               /\ r.shardedGrads = [terms |-> st.unshardedGrads, divided |-> Divided]
<1>1. PICK a, b, c, d : st = [unsharded |-> a, unshardedGrads |-> b, shardedGrads |-> c, scaled |-> d]
  OBVIOUS
<1>2. (IF layout.scaleGrads /\ ~st.scaled THEN 1 ELSE 0) = Divided
  BY DEF Divided
<1> DEFINE x == [terms |-> st.unshardedGrads,
                 divided |-> IF layout.scaleGrads /\ ~st.scaled THEN 1 ELSE 0]
<1>3. Reduced(st) = [st EXCEPT !.shardedGrads = x, !.scaled = TRUE]
  BY DEF Reduced
<1>4. x = [terms |-> st.unshardedGrads, divided |-> Divided]
  BY <1>2
<1> HIDE DEF x
<1>5. Reduced(st) = [unsharded |-> a, unshardedGrads |-> b, shardedGrads |-> x, scaled |-> TRUE]
  BY <1>1, <1>3
<1>6. st.unshardedGrads = b
  BY <1>1
<1> DEFINE r == Reduced(st)
<1>7. r = [unsharded |-> a, unshardedGrads |-> b, shardedGrads |-> x, scaled |-> TRUE]
  BY <1>5
<1> HIDE DEF r
<1>8. /\ r = [unsharded |-> r.unsharded, unshardedGrads |-> r.unshardedGrads,
               shardedGrads |-> r.shardedGrads, scaled |-> r.scaled]
      /\ r.unshardedGrads = st.unshardedGrads
      /\ r.shardedGrads = x
  BY <1>6, <1>7
<1> QED  BY <1>4, <1>8 DEF r

LEMMA ReduceStep ==
    ASSUME IndInv, NEW s \in S, ReduceGrad(s)
    PROVE  IndInv'
<1>1. /\ WeightsDone(s) /\ ~Issued("reduce", s, 0)
      /\ state' = [state EXCEPT ![s] = Reduced(@)]
      /\ done' = done \cup {<<"reduce", s, 0>>}
      /\ UNCHANGED <<layout, plan, at, paramGrad, inputs, recvOps, fwdCache, weightCache,
                     counted, error>>
  BY DEF ReduceGrad, Issue
<1>2. /\ DOMAIN state = S
      /\ \A t \in S : state[t] = [unsharded |-> state[t].unsharded,
                                  unshardedGrads |-> state[t].unshardedGrads,
                                  shardedGrads |-> state[t].shardedGrads,
                                  scaled |-> state[t].scaled]
  BY DEF IndInv, ShapeInv
<1>3. ~state[s].scaled
  BY <1>1 DEF IndInv, GradInv
<1>4. /\ state'[s] = [unsharded |-> state'[s].unsharded,
                      unshardedGrads |-> state'[s].unshardedGrads,
                      shardedGrads |-> state'[s].shardedGrads,
                      scaled |-> state'[s].scaled]
      /\ state'[s].unshardedGrads = state[s].unshardedGrads
      /\ state'[s].shardedGrads = [terms |-> state[s].unshardedGrads, divided |-> Divided]
  <2>1. state'[s] = Reduced(state[s])
    BY <1>1, <1>2
  <2> QED  BY <1>2, <1>3, <2>1, ReducedGrads
<1>5. DOMAIN state' = S /\ \A t \in S : t # s => state'[t] = state[t]
  BY <1>1, <1>2
<1>6. ShapeInv'
  BY <1>1, <1>2, <1>4, <1>5 DEF IndInv, ShapeInv, S, Microbatches
<1>7. \A k, t, n : Issued(k, t, n)' <=> Issued(k, t, n) \/ (k = "reduce" /\ t = s /\ n = 0)
  BY <1>1 DEF Issued
<1>8. \A t, n : /\ BackwardDone(t, n)' <=> BackwardDone(t, n)
                /\ GradDone(t, n)' <=> GradDone(t, n)
  BY <1>7 DEF BackwardDone, GradDone
<1>9. CountInv' /\ ParamInv'
  BY <1>1, <1>8, CountKept, ParamKept DEF IndInv
<1>10. done \subseteq done'
  BY <1>1
<1>11. FlowInv'
  BY <1>1, <1>7, <1>10, FlowKept
<1>12. OrderInv'
  <2>1. \A k, t, n : IssuesNow(k, t, n) => k = "reduce"
    BY <1>1 DEF IssuesNow
  <2> QED  BY <1>1, <1>10, <2>1, OrderKept DEF IndInv
<1>13. GradInv'
  <2>1. S' = S /\ Microbatches' = Microbatches /\ Divided' = Divided
        /\ \A n : PassGrad(n)' = PassGrad(n)
    BY <1>1 DEF S, Microbatches, Divided, PassGrad, ParamGrad
  <2>2. \A t \in S : WeightsDone(t) => WeightsDone(t)'
    BY <1>10, <2>1 DEF WeightsDone, Issued
  <2> SUFFICES ASSUME NEW t \in S
               PROVE  /\ OneEach(state'[t].unshardedGrads,
                                 {PassGrad(n) : n \in {k \in Microbatches : GradDone(t, k)'}})
                      /\ ~Issued("reduce", t, 0)' =>
                           state'[t].shardedGrads = None /\ ~state'[t].scaled
                      /\ Issued("reduce", t, 0)' =>
                           /\ WeightsDone(t)'
                           /\ state'[t].shardedGrads =
                                [terms |-> state'[t].unshardedGrads, divided |-> Divided]
    BY <2>1 DEF GradInv, OneEach, None
  <2>3. {k \in Microbatches : GradDone(t, k)'} = {k \in Microbatches : GradDone(t, k)}
    BY <1>8
  <2>4. state'[t].unshardedGrads = state[t].unshardedGrads
    BY <1>4, <1>5
  <2>5. OneEach(state'[t].unshardedGrads,
                {PassGrad(n) : n \in {k \in Microbatches : GradDone(t, k)'}})
    BY <2>3, <2>4 DEF IndInv, GradInv
  <2>6. ~Issued("reduce", t, 0)' => state'[t].shardedGrads = None /\ ~state'[t].scaled
    BY <1>5, <1>7 DEF IndInv, GradInv
  <2>7. Issued("reduce", t, 0)' =>
          WeightsDone(t)' /\ state'[t].shardedGrads =
                               [terms |-> state'[t].unshardedGrads, divided |-> Divided]
    <3>1. CASE t = s
      BY <1>1, <1>4, <2>2, <3>1
    <3>2. CASE t # s
      BY <1>5, <1>7, <2>2, <3>2 DEF IndInv, GradInv
    <3> QED  BY <3>1, <3>2
  <2> QED  BY <2>5, <2>6, <2>7
<1> QED  BY <1>1, <1>6, <1>9, <1>11, <1>12, <1>13 DEF IndInv

-----------------------------------------------------------------------------
(* The end of a pass and the optimizer step.                               *)

\* What a stage accumulates at the end of a pass: every microbatch once.
LEMMA GradTermsOfPass ==
    ASSUME IndInv, NEW s \in S, WeightsDone(s)
    PROVE  OneEach(GradTerms(state[s]), {Term(at, m) : m \in Microbatches})
<1> DEFINE bag == state[s].unshardedGrads
<1>1. OneEach(bag, {PassGrad(m) : m \in Microbatches})
  <2>1. {n \in Microbatches : GradDone(s, n)} = Microbatches
    BY DEF WeightsDone, GradDone
  <2> QED  BY <2>1 DEF IndInv, GradInv
<1>2. bag # EmptyBag
  <2>1. PICK m : m \in Microbatches
    BY MicrobatchesFinite DEF IndInv, ShapeInv
  <2>2. PassGrad(m) \in DOMAIN bag
    BY <1>1, <2>1 DEF OneEach
  <2>3. DOMAIN EmptyBag = {}
    BY OneEachEmpty DEF OneEach
  <2> QED  BY <2>2, <2>3
<1>3. EnsureReduced(state[s]).shardedGrads = [terms |-> bag, divided |-> Divided]
  <2>1. CASE Issued("reduce", s, 0)
    <3>1. state[s].shardedGrads = [terms |-> bag, divided |-> Divided]
      BY <2>1 DEF IndInv, GradInv
    <3>2. state[s].shardedGrads # None
      BY <3>1, NotNone
    <3>3. EnsureReduced(state[s]) = state[s]
      BY <3>2 DEF EnsureReduced
    <3> QED  BY <3>1, <3>3
  <2>2. CASE ~Issued("reduce", s, 0)
    <3>1. state[s].shardedGrads = None /\ ~state[s].scaled
      BY <2>2 DEF IndInv, GradInv
    <3>2. EnsureReduced(state[s]) = Reduced(state[s])
      BY <1>2, <3>1 DEF EnsureReduced
    <3>3. state[s] = [unsharded |-> state[s].unsharded,
                      unshardedGrads |-> state[s].unshardedGrads,
                      shardedGrads |-> state[s].shardedGrads,
                      scaled |-> state[s].scaled]
      BY DEF IndInv, ShapeInv
    <3>4. Reduced(state[s]).shardedGrads = [terms |-> bag, divided |-> Divided]
      BY <3>1, <3>3, ReducedGrads
    <3> QED  BY <3>2, <3>4
  <2> QED  BY <2>1, <2>2
<1> HIDE DEF bag
<1> DEFINE reduced == EnsureReduced(state[s]).shardedGrads
           Of(g) == [grad |-> g, divided |-> reduced.divided]
<1>4. reduced # None /\ reduced.terms = bag /\ reduced.divided = Divided
  BY <1>3, NotNone
<1>5. GradTerms(state[s]) = [t \in {Of(g) : g \in DOMAIN reduced.terms} |-> reduced.terms[t.grad]]
  BY <1>4 DEF GradTerms
<1> HIDE DEF reduced
<1>6. \A m : Of(PassGrad(m)) = Term(at, m)
  BY <1>4 DEF Term, PassGrad, ParamGrad
<1>7. DOMAIN GradTerms(state[s]) = {Of(g) : g \in DOMAIN bag}
  BY <1>4, <1>5
<1>8. {Of(g) : g \in DOMAIN bag} = {Term(at, m) : m \in Microbatches}
  <2>1. DOMAIN bag = {PassGrad(m) : m \in Microbatches}
    BY <1>1 DEF OneEach
  <2> HIDE DEF Of
  <2> QED  BY <1>6, <2>1
<1>9. \A g \in DOMAIN bag : GradTerms(state[s])[Of(g)] = 1
  <2> SUFFICES ASSUME NEW g \in DOMAIN bag PROVE GradTerms(state[s])[Of(g)] = 1
    OBVIOUS
  <2>1. bag[g] = 1
    BY <1>1 DEF OneEach
  <2>2. Of(g).grad = g
    OBVIOUS
  <2> QED  BY <1>4, <1>5, <2>1, <2>2
<1> HIDE DEF Of
<1> QED  BY <1>7, <1>8, <1>9 DEF OneEach

\* The training passes since the last optimizer step, one pass later.
LEMMA NextTrainPasses ==
    ASSUME IndInv, More, plan' = plan, at' = at + 1
    PROVE  /\ at \notin TrainPasses
           /\ Pass = "train" => TrainPasses' = TrainPasses \cup {at}
           /\ Pass = "eval" => TrainPasses' = TrainPasses
           /\ Pass = "opt" => TrainPasses' = {}
           /\ Pass \in {"train", "eval", "opt"}
<1>1. plan \in Seq({"train", "eval", "opt"}) /\ at \in Nat \ {0} /\ at <= Len(plan)
  BY GraphPPAssumption DEF IndInv, ShapeInv, More
<1>2. at \in Int /\ at >= 1 /\ Len(plan) \in Nat
  BY <1>1
<1>3. Pass \in {"train", "eval", "opt"}
  BY <1>1 DEF Pass
<1>4. at \notin TrainPasses
  BY <1>2 DEF TrainPasses
<1>5. TrainPasses' = {i \in 1..at : plan[i] = "train" /\ \A j \in i..at : plan[j] # "opt"}
  <2>1. at' - 1 = at
    BY <1>2
  <2> QED  BY <2>1 DEF TrainPasses
<1>6. ASSUME NEW i \in 1..(at - 1)
      PROVE  (\A j \in i..at : plan[j] # "opt") <=>
               (\A j \in i..(at - 1) : plan[j] # "opt") /\ plan[at] # "opt"
  BY <1>2
<1>7. ASSUME NEW i PROVE i \in 1..at <=> i \in 1..(at - 1) \/ i = at
  BY <1>2
<1>8. (\A j \in at..at : plan[j] # "opt") <=> plan[at] # "opt"
  BY <1>2
<1>9. Pass = "train" => TrainPasses' = TrainPasses \cup {at}
  BY <1>5, <1>6, <1>7, <1>8 DEF TrainPasses, Pass
<1>10. Pass = "eval" => TrainPasses' = TrainPasses
  BY <1>5, <1>6, <1>7, <1>8 DEF TrainPasses, Pass
<1>11. Pass = "opt" => TrainPasses' = {}
  BY <1>5, <1>6, <1>7, <1>8 DEF Pass
<1> QED  BY <1>3, <1>4, <1>9, <1>10, <1>11

LEMMA FinishStep ==
    ASSUME IndInv, FinishPass
    PROVE  IndInv'
<1>1. /\ Running /\ (Pass = "train" => \A s \in S : WeightsDone(s))
      /\ IF Pass = "train" THEN EndOfStep ELSE UNCHANGED paramGrad
      /\ at' = at + 1
      /\ state' = [s \in S |-> ClearedState]
      /\ done' = {}
      /\ inputs' = [x \in Slots(layout) |-> None]
      /\ fwdCache' = [s \in S |-> [m \in Microbatches |-> None]]
      /\ counted' = [s \in S |-> 0]
      /\ UNCHANGED <<layout, plan, weightCache, error>>
  BY DEF FinishPass
<1>2. S' = S /\ Microbatches' = Microbatches /\ Divided' = Divided
  BY <1>1 DEF S, Microbatches, Divided
<1>3. \A k, t, n : ~Issued(k, t, n)'
  BY <1>1 DEF Issued
<1>4. \A t, n : ~BackwardIssued(t, n)' /\ ~BackwardDone(t, n)' /\ ~GradDone(t, n)'
  BY <1>3 DEF BackwardIssued, BackwardDone, GradDone
<1>5. ShapeInv'
  <2>1. DOMAIN paramGrad' = S
    BY <1>1 DEF EndOfStep, IndInv, ShapeInv
  <2>2. at' \in 1..(Len(plan') + 1)
    <3>1. Len(plan) \in Nat /\ at \in 1..(Len(plan) + 1) /\ at <= Len(plan)
      BY <1>1, GraphPPAssumption DEF IndInv, ShapeInv, Running, More
    <3> QED  BY <1>1, <3>1
  <2>3. /\ layout' \in Layouts /\ plan' \in Passes
        /\ DOMAIN inputs' = Slots(layout')
        /\ DOMAIN fwdCache' = S' /\ \A s \in S' : DOMAIN fwdCache'[s] = Microbatches'
        /\ DOMAIN weightCache' = S' /\ \A s \in S' : DOMAIN weightCache'[s] = Microbatches'
        /\ DOMAIN state' = S' /\ DOMAIN counted' = S'
    BY <1>1, <1>2 DEF IndInv, ShapeInv
  <2>4. \A s \in S' : state'[s] = [unsharded |-> state'[s].unsharded,
                                   unshardedGrads |-> state'[s].unshardedGrads,
                                   shardedGrads |-> state'[s].shardedGrads,
                                   scaled |-> state'[s].scaled]
    BY <1>1, <1>2 DEF ClearedState
  <2> QED  BY <1>2, <2>1, <2>2, <2>3, <2>4 DEF ShapeInv
<1>6. ~error'
  BY <1>1 DEF IndInv
<1>7. OrderInv' /\ FlowInv'
  BY <1>3, <1>4 DEF OrderInv, FlowInv
<1>8. CountInv'
  <2>1. \A t \in S : {n \in Microbatches : BackwardDone(t, n)'} = {}
    BY <1>4
  <2>2. Cardinality({}) = 0
    BY FS_EmptySet
  <2>3. \A t \in S : counted'[t] = 0
    BY <1>1
  <2> QED  BY <1>2, <2>1, <2>2, <2>3 DEF CountInv
<1>9. GradInv'
  <2>1. \A t \in S : state'[t] = ClearedState
    BY <1>1
  <2>2. \A t \in S : {PassGrad(n)' : n \in {k \in Microbatches : GradDone(t, k)'}} = {}
    BY <1>4
  <2>3. \A t \in S : OneEach(state'[t].unshardedGrads, {})
    BY <2>1, OneEachEmpty DEF ClearedState
  <2>4. \A t \in S : state'[t].shardedGrads = None /\ ~state'[t].scaled
    BY <2>1 DEF ClearedState
  <2> QED  BY <1>2, <1>3, <2>2, <2>3, <2>4 DEF GradInv, OneEach, None
<1>10. ParamInv'
  <2> DEFINE Held(passes) == {Term(g[1], g[2]) : g \in passes \X Microbatches}
  <2>1. \A i, n : Term(i, n)' = Term(i, n)
    BY <1>2 DEF Term
  <2>2. SUFFICES ASSUME NEW s \in S PROVE OneEach(paramGrad'[s], Held(TrainPasses'))
    BY <1>2, <2>1 DEF ParamInv, OneEach
  <2>3. OneEach(paramGrad[s], Held(TrainPasses))
    BY DEF IndInv, ParamInv
  <2>4. /\ at \notin TrainPasses
        /\ Pass = "train" => TrainPasses' = TrainPasses \cup {at}
        /\ Pass = "eval" => TrainPasses' = TrainPasses
        /\ Pass \in {"train", "eval", "opt"} /\ Pass # "opt"
    BY <1>1, NextTrainPasses DEF Running
  <2>5. CASE Pass = "eval"
    <3>1. paramGrad'[s] = paramGrad[s] /\ TrainPasses' = TrainPasses
      BY <1>1, <2>4, <2>5
    <3> HIDE DEF Held
    <3> QED  BY <2>3, <3>1
  <2>6. CASE Pass = "train"
    <3>1. paramGrad'[s] = paramGrad[s] (+) GradTerms(state[s])
      BY <1>1, <2>6 DEF EndOfStep
    <3>2. OneEach(GradTerms(state[s]), {Term(at, m) : m \in Microbatches})
      BY <1>1, <2>6, GradTermsOfPass
    <3>3. \A i, m, j, n : Term(i, m) = Term(j, n) => i = j
      BY DEF Term
    <3>4. Held(TrainPasses) \cap {Term(at, m) : m \in Microbatches} = {}
      BY <2>4, <3>3
    <3>5. Held(TrainPasses \cup {at}) = Held(TrainPasses) \cup {Term(at, m) : m \in Microbatches}
      <4>1. ASSUME NEW x \in Held(TrainPasses \cup {at})
            PROVE  x \in Held(TrainPasses) \cup {Term(at, m) : m \in Microbatches}
        <5>1. PICK i \in TrainPasses \cup {at}, m \in Microbatches : x = Term(i, m)
          BY <4>1
        <5>2. CASE i = at
          BY <5>1, <5>2
        <5>3. CASE i \in TrainPasses
          <6>1. <<i, m>> \in TrainPasses \X Microbatches /\ x = Term(<<i, m>>[1], <<i, m>>[2])
            BY <5>1, <5>3
          <6> QED  BY <6>1
        <5> QED  BY <5>1, <5>2, <5>3
      <4>2. ASSUME NEW x \in Held(TrainPasses)
            PROVE  x \in Held(TrainPasses \cup {at})
        BY <4>2
      <4>3. ASSUME NEW m \in Microbatches
            PROVE  Term(at, m) \in Held(TrainPasses \cup {at})
        <5>1. /\ <<at, m>> \in (TrainPasses \cup {at}) \X Microbatches
              /\ Term(at, m) = Term(<<at, m>>[1], <<at, m>>[2])
          OBVIOUS
        <5> QED  BY <5>1
      <4> HIDE DEF Held
      <4> QED  BY <4>1, <4>2, <4>3
    <3> HIDE DEF Held
    <3>6. OneEach(paramGrad'[s], Held(TrainPasses) \cup {Term(at, m) : m \in Microbatches})
      BY <2>3, <3>1, <3>2, <3>4, OneEachSum
    <3> QED  BY <2>4, <2>6, <3>5, <3>6
  <2> QED  BY <2>4, <2>5, <2>6
<1> QED  BY <1>5, <1>6, <1>7, <1>8, <1>9, <1>10 DEF IndInv

\* Nothing is issued while the optimizer steps.
IdleInv == More /\ Pass = "opt" => done = {}

LEMMA OptimizerKeeps ==
    ASSUME IndInv, IdleInv, OptimizerStep
    PROVE  IndInv'
<1>1. /\ More /\ Pass = "opt" /\ done = {}
      /\ paramGrad' = [s \in S |-> EmptyBag]
      /\ at' = at + 1
      /\ UNCHANGED <<layout, plan, done, inputs, recvOps, fwdCache, weightCache, state, counted,
                     error>>
  BY DEF OptimizerStep, IdleInv, passVars
<1>2. S' = S /\ Microbatches' = Microbatches /\ Divided' = Divided
  BY <1>1 DEF S, Microbatches, Divided
<1>3. \A k, t, n : ~Issued(k, t, n) /\ ~Issued(k, t, n)'
  BY <1>1 DEF Issued
<1>4. \A t, n : /\ ~BackwardIssued(t, n)' /\ ~BackwardDone(t, n)' /\ ~GradDone(t, n)'
                /\ ~BackwardDone(t, n) /\ ~GradDone(t, n)
  BY <1>3 DEF BackwardIssued, BackwardDone, GradDone
<1>5. ShapeInv'
  <2>1. at' \in 1..(Len(plan') + 1)
    <3>1. Len(plan) \in Nat /\ at \in 1..(Len(plan) + 1) /\ at <= Len(plan)
      BY <1>1, GraphPPAssumption DEF IndInv, ShapeInv, More
    <3> QED  BY <1>1, <3>1
  <2> QED  BY <1>1, <1>2, <2>1 DEF IndInv, ShapeInv
<1>6. OrderInv' /\ FlowInv' /\ ~error'
  BY <1>1, <1>3, <1>4 DEF OrderInv, FlowInv, IndInv
<1>7. CountInv'
  BY <1>1, <1>4, CountKept DEF IndInv
<1>8. GradInv'
  <2>1. \A t \in S : {PassGrad(n)' : n \in {k \in Microbatches : GradDone(t, k)'}} = {}
    BY <1>4
  <2>2. \A t \in S : {PassGrad(n) : n \in {k \in Microbatches : GradDone(t, k)}} = {}
    BY <1>4
  <2>3. \A t \in S : /\ OneEach(state[t].unshardedGrads, {})
                     /\ state[t].shardedGrads = None /\ ~state[t].scaled
    BY <1>3, <2>2 DEF IndInv, GradInv
  <2> QED  BY <1>1, <1>2, <1>3, <2>1, <2>3 DEF GradInv, OneEach, None
<1>9. ParamInv'
  <2>1. TrainPasses' = {}
    BY <1>1, NextTrainPasses
  <2>2. {Term(g[1], g[2])' : g \in TrainPasses' \X Microbatches} = {}
    BY <2>1
  <2>3. \A s \in S : paramGrad'[s] = EmptyBag
    BY <1>1
  <2> QED  BY <1>2, <2>2, <2>3, OneEachEmpty DEF ParamInv, OneEach
<1> QED  BY <1>5, <1>6, <1>7, <1>8, <1>9 DEF IndInv

LEMMA IdleStep ==
    ASSUME IdleInv, [Next]_vars
    PROVE  IdleInv'
<1>1. CASE UNCHANGED vars
  BY <1>1 DEF IdleInv, More, Pass, vars, passVars
<1>2. CASE OptimizerStep \/ FinishPass
  BY <1>2 DEF OptimizerStep, FinishPass, IdleInv, passVars
<1>3. ASSUME Running, UNCHANGED <<plan, at>> PROVE IdleInv'
  BY <1>3 DEF Running, IdleInv, More, Pass
<1>4. ASSUME NEW s \in S, NEW m \in Microbatches,
             \/ Forward(s, m) \/ FullBackward(s, m)
             \/ BackwardInput(s, m) \/ BackwardWeight(s, m)
             \/ \E t \in S, n \in Microbatches : OverlapFwBw(s, m, t, n)
      PROVE  Running /\ UNCHANGED <<plan, at>>
  BY <1>4 DEF Forward, FullBackward, BackwardInput, BackwardWeight, OverlapFwBw
<1>5. ASSUME NEW s \in S, UnshardStage(s) \/ ReshardStage(s) \/ ReduceGrad(s)
      PROVE  Running /\ UNCHANGED <<plan, at>>
  BY <1>5 DEF UnshardStage, ReshardStage, ReduceGrad
<1> QED  BY <1>1, <1>2, <1>3, <1>4, <1>5 DEF Next

LEMMA InitInv ==
    ASSUME Init
    PROVE  IndInv /\ IdleInv
<1>1. /\ layout \in Layouts /\ plan \in Passes /\ at = 1
      /\ done = {} /\ error = FALSE
      /\ inputs = [x \in Slots(layout) |-> None]
      /\ fwdCache = [s \in S |-> [m \in Microbatches |-> None]]
      /\ weightCache = fwdCache
      /\ state = [s \in S |-> ClearedState]
      /\ counted = [s \in S |-> 0]
      /\ paramGrad = [s \in S |-> EmptyBag]
  BY DEF Init
<1>2. \A k, t, n : ~Issued(k, t, n)
  BY <1>1 DEF Issued
<1>3. \A t, n : ~BackwardIssued(t, n) /\ ~BackwardDone(t, n) /\ ~GradDone(t, n)
  BY <1>2 DEF BackwardIssued, BackwardDone, GradDone
<1>4. ShapeInv
  <2>1. Len(plan) \in Nat
    BY <1>1, GraphPPAssumption
  <2>2. at \in 1..(Len(plan) + 1)
    BY <1>1, <2>1
  <2>3. \A s \in S : state[s] = [unsharded |-> state[s].unsharded,
                                 unshardedGrads |-> state[s].unshardedGrads,
                                 shardedGrads |-> state[s].shardedGrads,
                                 scaled |-> state[s].scaled]
    BY <1>1 DEF ClearedState
  <2> QED  BY <1>1, <2>2, <2>3 DEF ShapeInv
<1>5. OrderInv /\ FlowInv
  BY <1>2, <1>3 DEF OrderInv, FlowInv
<1>6. CountInv
  <2>1. \A t \in S : {n \in Microbatches : BackwardDone(t, n)} = {}
    BY <1>3
  <2>2. Cardinality({}) = 0
    BY FS_EmptySet
  <2> QED  BY <1>1, <2>1, <2>2 DEF CountInv
<1>7. GradInv
  <2>1. \A t \in S : {PassGrad(n) : n \in {k \in Microbatches : GradDone(t, k)}} = {}
    BY <1>3
  <2>2. \A t \in S : /\ OneEach(state[t].unshardedGrads, {})
                     /\ state[t].shardedGrads = None /\ ~state[t].scaled
    BY <1>1, OneEachEmpty DEF ClearedState
  <2> QED  BY <1>2, <2>1, <2>2 DEF GradInv
<1>8. ParamInv
  <2>1. TrainPasses = {}
    BY <1>1 DEF TrainPasses
  <2>2. {Term(g[1], g[2]) : g \in TrainPasses \X Microbatches} = {}
    BY <2>1
  <2> QED  BY <1>1, <2>2, OneEachEmpty DEF ParamInv
<1> QED  BY <1>1, <1>4, <1>5, <1>6, <1>7, <1>8 DEF IndInv, IdleInv

LEMMA InvStep ==
    ASSUME IndInv, IdleInv, [Next]_vars
    PROVE  IndInv' /\ IdleInv'
<1>1. ASSUME UNCHANGED vars PROVE IndInv'
  <2>1. UNCHANGED <<layout, plan, at, done, inputs, recvOps, fwdCache, weightCache, state,
                    counted, paramGrad, error>>
    BY <1>1 DEF vars, passVars
  <2>2. /\ \A k, t, n : Issued(k, t, n)' <=> Issued(k, t, n)
        /\ \A k, t, n : ~IssuesNow(k, t, n)
        /\ \A t \in S : SameGrads(t)
    BY <2>1 DEF Issued, IssuesNow, SameGrads
  <2>3. \A t, n : /\ BackwardDone(t, n)' <=> BackwardDone(t, n)
                  /\ GradDone(t, n)' <=> GradDone(t, n)
    BY <2>2 DEF BackwardDone, GradDone
  <2>4. ShapeInv' /\ ~error'
    BY <2>1 DEF IndInv, ShapeInv, S, Microbatches
  <2>5. OrderInv'
    BY <2>1, <2>2, OrderKept DEF IndInv
  <2>6. FlowInv'
    BY <2>1, <2>2, FlowKept
  <2>7. CountInv' /\ ParamInv'
    BY <2>1, <2>3, CountKept, ParamKept DEF IndInv
  <2>8. GradInv'
    BY <2>1, <2>2, <2>3, GradKept DEF IndInv
  <2> QED  BY <2>4, <2>5, <2>6, <2>7, <2>8 DEF IndInv
<1>2. ASSUME NEW s \in S, NEW m \in Microbatches, Forward(s, m) PROVE IndInv'
  BY <1>2, ForwardStep
<1>3. ASSUME NEW s \in S, NEW m \in Microbatches, FullBackward(s, m) PROVE IndInv'
  <2>1. MayBackward(s, m) /\ RunFullBackward("backward", s, m)
        /\ UNCHANGED <<layout, plan, at, version, paramGrad>>
    BY <1>3 DEF FullBackward
  <2>2. OrderInv'
    BY <1>3, OrderStep
  <2> QED  BY <2>1, <2>2, BackwardMayRun, FullBackwardStep
<1>4. ASSUME NEW s \in S, NEW m \in Microbatches, BackwardInput(s, m) PROVE IndInv'
  BY <1>4, BackwardInputStep
<1>5. ASSUME NEW s \in S, NEW m \in Microbatches, BackwardWeight(s, m) PROVE IndInv'
  BY <1>5, BackwardWeightStep
<1>6. ASSUME NEW s \in S, NEW m \in Microbatches, NEW t \in S, NEW n \in Microbatches,
             OverlapFwBw(s, m, t, n)
      PROVE  IndInv'
  BY <1>6, OverlapStep
<1>7. ASSUME NEW s \in S, UnshardStage(s) \/ ReshardStage(s) PROVE IndInv'
  BY <1>7, UnshardStep
<1>8. ASSUME NEW s \in S, ReduceGrad(s) PROVE IndInv'
  BY <1>8, ReduceStep
<1>9. ASSUME FinishPass PROVE IndInv'
  BY <1>9, FinishStep
<1>10. ASSUME OptimizerStep PROVE IndInv'
  BY <1>10, OptimizerKeeps
<1> QED  BY <1>1, <1>2, <1>3, <1>4, <1>5, <1>6, <1>7, <1>8, <1>9, <1>10, IdleStep DEF Next

\* The invariant is inductive.
LEMMA InvAlways == Spec => [](IndInv /\ IdleInv)
<1>1. Init => IndInv /\ IdleInv
  BY InitInv
<1>2. IndInv /\ IdleInv /\ [Next]_vars => (IndInv /\ IdleInv)'
  BY InvStep
<1> QED  BY <1>1, <1>2, PTL DEF Spec

-----------------------------------------------------------------------------
(* What the invariant says.                                                *)

\* No handler raises for want of a receive operation, an input, a saved
\* forward or a saved weight gradient, whatever the layout and whatever the
\* order of the schedule, and the schedule counts every backward once.
THEOREM HandlersRun == Spec => []HandlersSucceed
<1>1. ASSUME IndInv PROVE HandlersSucceed
  <2>1. ~error /\ layout \in Layouts /\ OrderInv /\ CountInv
    BY <1>1 DEF IndInv, ShapeInv
  <2>2. ASSUME NEW s \in S, WeightsDone(s) PROVE counted[s] = layout.microbatches
    <3>1. {m \in Microbatches : BackwardDone(s, m)} = Microbatches
      BY <2>1, <2>2, BackwardOrder DEF WeightsDone, GradDone
    <3> QED  BY <2>1, <3>1, MicrobatchesFinite DEF CountInv
  <2> QED  BY <2>1, <2>2 DEF HandlersSucceed
<1> QED  BY <1>1, InvAlways, PTL

\* The optimizer finds, for every stage, every microbatch of every training
\* pass since its last step exactly once, each with its own saved forward and
\* its own output gradient, and divided once if the schedule scales.
THEOREM GradientsExact == Spec => []GradsExact
<1>1. ASSUME IndInv PROVE GradsExact
  <2> SUFFICES ASSUME NEW s \in S
               PROVE  /\ \A t \in DOMAIN paramGrad[s] :
                            /\ t.grad.fwd = t.grad.bwd /\ paramGrad[s][t] = 1
                            /\ t.divided = IF layout.scaleGrads THEN 1 ELSE 0
                      /\ {<<t.grad.pass, t.grad.fwd>> : t \in DOMAIN paramGrad[s]} =
                           TrainPasses \X Microbatches
    BY DEF GradsExact
  <2>1. OneEach(paramGrad[s], {Term(g[1], g[2]) : g \in TrainPasses \X Microbatches})
    BY <1>1 DEF IndInv, ParamInv
  <2>2. \A i, m : /\ Term(i, m).grad.fwd = m /\ Term(i, m).grad.bwd = m
                  /\ Term(i, m).grad.pass = i /\ Term(i, m).divided = Divided
    BY DEF Term
  <2>3. \A t \in DOMAIN paramGrad[s] : \E i \in TrainPasses, m \in Microbatches : t = Term(i, m)
    BY <2>1 DEF OneEach
  <2>4. \A i \in TrainPasses, m \in Microbatches : Term(i, m) \in DOMAIN paramGrad[s]
    <3> SUFFICES ASSUME NEW i \in TrainPasses, NEW m \in Microbatches
                 PROVE  Term(i, m) \in DOMAIN paramGrad[s]
      OBVIOUS
    <3>1. /\ <<i, m>> \in TrainPasses \X Microbatches
          /\ Term(i, m) = Term(<<i, m>>[1], <<i, m>>[2])
      OBVIOUS
    <3> QED  BY <2>1, <3>1 DEF OneEach
  <2>5. \A t \in DOMAIN paramGrad[s] :
           /\ t.grad.fwd = t.grad.bwd /\ paramGrad[s][t] = 1
           /\ t.divided = IF layout.scaleGrads THEN 1 ELSE 0
    BY <2>1, <2>2, <2>3 DEF OneEach, Divided
  <2>6. {<<t.grad.pass, t.grad.fwd>> : t \in DOMAIN paramGrad[s]} = TrainPasses \X Microbatches
    <3>1. ASSUME NEW t \in DOMAIN paramGrad[s]
          PROVE  <<t.grad.pass, t.grad.fwd>> \in TrainPasses \X Microbatches
      BY <2>2, <2>3, <3>1
    <3>2. ASSUME NEW g \in TrainPasses \X Microbatches
          PROVE  \E t \in DOMAIN paramGrad[s] : g = <<t.grad.pass, t.grad.fwd>>
      <4>1. PICK i \in TrainPasses, m \in Microbatches : g = <<i, m>>
        BY <3>2
      <4>2. /\ Term(i, m) \in DOMAIN paramGrad[s]
            /\ g = <<Term(i, m).grad.pass, Term(i, m).grad.fwd>>
        BY <2>2, <2>4, <4>1
      <4> QED  BY <4>2
    <3> QED  BY <3>1, <3>2
  <2> QED  BY <2>5, <2>6
<1> QED  BY <1>1, InvAlways, PTL

-----------------------------------------------------------------------------
(* Layouts: how the weights leave layers for the stages.                   *)

\* Induction on a set of numbers.
LEMMA NatInductionSet ==
    ASSUME NEW T, 0 \in T, \A n \in Nat : n \in T => n + 1 \in T
    PROVE  Nat \subseteq T
<1> DEFINE rest == {n \in Nat : n \notin T}
<1> SUFFICES ASSUME rest # {} PROVE FALSE
  OBVIOUS
<1>1. PICK m \in rest : \A t \in rest : <<t, m>> \notin OpToRel(<, Nat)
  BY WFMin, NatLessThanWellFounded, Zenon
<1>2. m \in Nat /\ m # 0 /\ m \notin T
  BY <1>1
<1>3. m - 1 \in Nat /\ (m - 1) + 1 = m
  BY <1>2
<1>4. m - 1 \in rest
  BY <1>2, <1>3
<1>5. <<m - 1, m>> \in Nat \X Nat /\ <<m - 1, m>>[1] = m - 1 /\ <<m - 1, m>>[2] = m
  BY <1>2, <1>3
<1>6. <<m - 1, m>> \notin OpToRel(<, Nat)
  BY <1>1, <1>4
<1> QED
  BY <1>2, <1>5, <1>6, SMT DEF OpToRel

\* The weights of an accepted layout leave layers for its first and last stage.
LEMMA LayoutWeights ==
    ASSUME NEW c \in Layouts
    PROVE  /\ NumStages(c) \in Nat /\ NumStages(c) >= 2
           /\ c.layers \in Nat /\ c.inWeight \in Int /\ c.outWeight \in Int
           /\ EffectiveLayers(c) = c.layers + c.inWeight + c.outWeight
           /\ MinLayersPerStage(c) \in Nat \ {0}
           /\ EffectiveLayers(c) % NumStages(c) \in 0..(NumStages(c) - 1)
           /\ EffectiveLayers(c) = NumStages(c) * MinLayersPerStage(c)
                                     + (EffectiveLayers(c) % NumStages(c))
           /\ c.inWeight <= MinLayersPerStage(c) /\ c.outWeight <= MinLayersPerStage(c)
<1>1. /\ c.ranks \in Nat \ {0} /\ c.layers \in Nat \ {0}
      /\ c.inWeight \in Int /\ c.outWeight \in Int
      /\ Accepted(c)
  BY GraphPPAssumption
<1>2. /\ NumStages(c) \div c.ranks >= 2 /\ NumStages(c) <= EffectiveLayers(c)
      /\ c.inWeight <= MinLayersPerStage(c) /\ c.outWeight <= MinLayersPerStage(c)
  BY <1>1 DEF Accepted
<1>3. EffectiveLayers(c) = c.layers + c.inWeight + c.outWeight
  BY DEF EffectiveLayers
<1>4. MinLayersPerStage(c) = EffectiveLayers(c) \div NumStages(c)
  BY DEF MinLayersPerStage
<1> DEFINE n == NumStages(c)
           r == c.ranks
           q == n \div r
           e == EffectiveLayers(c)
           k == MinLayersPerStage(c)
<1>5. n \in Nat \ {0} /\ q \in Nat /\ n = r * q /\ q >= 2
  BY <1>2, LayoutSizes
<1>6. e \in Int
  BY <1>1, <1>3
<1>7. r \in Nat /\ r >= 1 /\ n <= e /\ k = e \div n
  BY <1>1, <1>2, <1>4
<1> HIDE DEF n, r, q, e, k
<1>8. n >= 2
  <2>1. r * q >= r * 2
    BY <1>5, <1>7, TimesAtLeast
  <2> QED  BY <1>5, <1>7, <2>1
<1>9. k \in Int /\ e % n \in 0..(n - 1) /\ e = n * k + (e % n) /\ k >= 0
  BY <1>5, <1>6, <1>7, QuotientOf
<1>10. k # 0
  <2> SUFFICES ASSUME k = 0 PROVE FALSE
    OBVIOUS
  <2>1. n * k = 0
    BY <1>5
  <2> QED  BY <1>5, <1>6, <1>7, <1>9, <2>1
<1> QED  BY <1>1, <1>2, <1>3, <1>5, <1>8, <1>9, <1>10 DEF n, e, k

-----------------------------------------------------------------------------
(* The layers of the stages follow each other and are all the layers.      *)

\* The layers the stages before stage t take, added up.
LayersBefore(c, t) ==
    t * MinLayersPerStage(c)
      + (IF t < EffectiveLayers(c) % NumStages(c) THEN t ELSE EffectiveLayers(c) % NumStages(c))
      - (IF t = 0 THEN 0 ELSE c.inWeight)
      - (IF t = NumStages(c) THEN c.outWeight ELSE 0)

\* A stage adds its own layers, of which there are never fewer than none.
LEMMA OneStageMore ==
    ASSUME NEW c \in Layouts, NEW t \in Stages(c)
    PROVE  /\ LayersBefore(c, t) \in Int /\ LayersIn(c, t) \in Nat
           /\ LayersBefore(c, t + 1) = LayersBefore(c, t) + LayersIn(c, t)
<1> DEFINE n == NumStages(c)
           k == MinLayersPerStage(c)
           x == EffectiveLayers(c) % n
<1>1. /\ n \in Nat /\ n >= 2 /\ k \in Nat /\ x \in 0..(n - 1) /\ t \in 0..(n - 1)
      /\ c.inWeight \in Int /\ c.outWeight \in Int /\ c.inWeight <= k /\ c.outWeight <= k
  BY LayoutWeights DEF Stages
<1>2. LayersBefore(c, t) = t * k + (IF t < x THEN t ELSE x) - (IF t = 0 THEN 0 ELSE c.inWeight)
  BY <1>1 DEF LayersBefore
<1>3. LayersBefore(c, t + 1) = (t + 1) * k + (IF t + 1 < x THEN t + 1 ELSE x) - c.inWeight
                                 - (IF t + 1 = n THEN c.outWeight ELSE 0)
  BY <1>1 DEF LayersBefore
<1>4. LayersIn(c, t) = k + (IF t < x THEN 1 ELSE 0) - (IF t = 0 THEN c.inWeight ELSE 0)
                         - (IF t = n - 1 THEN c.outWeight ELSE 0)
  BY DEF LayersIn, IsFirst, IsLast
<1> HIDE DEF n, k, x
<1>5. (t + 1) * k = t * k + k /\ t * k \in Int
  BY <1>1
<1>6. LayersBefore(c, t) \in Int
  BY <1>1, <1>2, <1>5
<1>7. LayersIn(c, t) \in Nat
  BY <1>1, <1>4
<1>8. LayersBefore(c, t + 1) = LayersBefore(c, t) + LayersIn(c, t)
  BY <1>1, <1>2, <1>3, <1>4, <1>5
<1> QED  BY <1>6, <1>7, <1>8

\* The last stage ends with the last layer.
LEMMA AllLayers ==
    ASSUME NEW c \in Layouts
    PROVE  LayersBefore(c, 0) = 0 /\ LayersBefore(c, NumStages(c)) = c.layers
<1> DEFINE n == NumStages(c)
           k == MinLayersPerStage(c)
           x == EffectiveLayers(c) % n
<1>1. /\ n \in Nat /\ n >= 2 /\ k \in Nat /\ x \in 0..(n - 1) /\ c.layers \in Nat
      /\ c.inWeight \in Int /\ c.outWeight \in Int
      /\ c.layers + c.inWeight + c.outWeight = n * k + x
  BY LayoutWeights
<1>2. LayersBefore(c, 0) = 0 * k + (IF 0 < x THEN 0 ELSE x)
  BY <1>1 DEF LayersBefore
<1>3. LayersBefore(c, n) = n * k + (IF n < x THEN n ELSE x) - c.inWeight - c.outWeight
  BY <1>1 DEF LayersBefore
<1> HIDE DEF n, k, x
<1>4. 0 * k = 0 /\ n * k \in Int
  BY <1>1
<1>5. LayersBefore(c, 0) = 0
  BY <1>1, <1>2, <1>4
<1>6. LayersBefore(c, n) = c.layers
  <2>1. PICK p \in Int : p = n * k
    BY <1>4
  <2>2. c.layers + c.inWeight + c.outWeight = p + x
    BY <1>1, <2>1
  <2>3. LayersBefore(c, n) = p + x - c.inWeight - c.outWeight
    BY <1>1, <1>3, <2>1
  <2>4. c.layers \in Int /\ c.inWeight \in Int /\ c.outWeight \in Int /\ x \in Int
    BY <1>1
  <2> QED  BY <2>2, <2>3, <2>4
<1>7. n = NumStages(c)
  BY DEF n
<1> QED  BY <1>5, <1>6, <1>7

\* current_layer of the loop is the sum.
LEMMA FirstLayerIs ==
    ASSUME NEW c \in Layouts, NEW s \in 0..NumStages(c)
    PROVE  FirstLayer(c, s) = LayersBefore(c, s)
<1> DEFINE Current(f) == f = [t \in 0..s |-> IF t = 0 THEN 0 ELSE f[t - 1] + LayersIn(c, t - 1)]
           current == CHOOSE f : Current(f)
           g == [t \in 0..s |-> LayersBefore(c, t)]
<1>1. NumStages(c) \in Nat /\ s \in Nat /\ s <= NumStages(c)
  BY LayoutWeights
<1>2. \A t \in 1..s : /\ t - 1 \in Stages(c) /\ t - 1 \in 0..s
                      /\ LayersBefore(c, t) = LayersBefore(c, t - 1) + LayersIn(c, t - 1)
  <2> SUFFICES ASSUME NEW t \in 1..s
               PROVE  /\ t - 1 \in Stages(c) /\ t - 1 \in 0..s
                      /\ LayersBefore(c, t) = LayersBefore(c, t - 1) + LayersIn(c, t - 1)
    OBVIOUS
  <2>1. t - 1 \in Stages(c) /\ t - 1 \in 0..s /\ (t - 1) + 1 = t
    BY <1>1 DEF Stages
  <2>2. LayersBefore(c, (t - 1) + 1) = LayersBefore(c, t - 1) + LayersIn(c, t - 1)
    BY <2>1, OneStageMore
  <2> QED  BY <2>1, <2>2
<1>3. Current(g)
  <2>1. \A t \in 0..s : g[t] = IF t = 0 THEN 0 ELSE g[t - 1] + LayersIn(c, t - 1)
    <3> SUFFICES ASSUME NEW t \in 0..s
                 PROVE  g[t] = IF t = 0 THEN 0 ELSE g[t - 1] + LayersIn(c, t - 1)
      OBVIOUS
    <3>1. CASE t = 0
      BY <3>1, AllLayers
    <3>2. CASE t # 0
      <4>1. t \in 1..s
        BY <1>1, <3>2
      <4> QED  BY <1>2, <3>2, <4>1
    <3> QED  BY <3>1, <3>2
  <2> QED  BY <2>1
<1>4. Current(current)
  BY <1>3
<1>5. FirstLayer(c, s) = current[s]
  BY DEF FirstLayer
<1> HIDE DEF current
<1> DEFINE T == {t \in Nat : t <= s => current[t] = LayersBefore(c, t)}
<1>6. 0 \in T
  BY <1>1, <1>4, AllLayers
<1>7. ASSUME NEW t \in Nat, t \in T PROVE t + 1 \in T
  <2> SUFFICES ASSUME t + 1 <= s PROVE current[t + 1] = LayersBefore(c, t + 1)
    OBVIOUS
  <2>1. t + 1 \in 0..s /\ t + 1 # 0 /\ (t + 1) - 1 = t /\ t + 1 \in 1..s /\ t <= s
    BY <1>1
  <2>2. current[t] = LayersBefore(c, t)
    BY <1>7, <2>1
  <2>3. current[t + 1] = current[t] + LayersIn(c, t)
    BY <1>4, <2>1
  <2>4. LayersBefore(c, t + 1) = LayersBefore(c, t) + LayersIn(c, t)
    BY <1>2, <2>1
  <2> QED  BY <2>2, <2>3, <2>4
<1> HIDE DEF T
<1>8. s \in T
  BY <1>1, <1>6, <1>7, NatInductionSet
<1> QED  BY <1>1, <1>5, <1>8 DEF T

-----------------------------------------------------------------------------
(* A stage keeps the modules from one end of the previous to its own.      *)

\* Modules of the whole model before the stage's, and up to its last.
Start(c, s) == IF IsFirst(s) THEN 0 ELSE FirstLayer(c, s) + 1
End(c, s) == IF IsLast(c, s) THEN c.layers + 3 ELSE FirstLayer(c, s + 1) + 1

\* No stage starts below the first layer or ends above the last one.
LEMMA StageEnds ==
    ASSUME NEW c \in Layouts, NEW s \in Stages(c)
    PROVE  /\ FirstLayer(c, s) \in Nat /\ LayersIn(c, s) \in Nat
           /\ FirstLayer(c, s) + LayersIn(c, s) <= c.layers
           /\ IsFirst(s) => FirstLayer(c, s) = 0
           /\ IsLast(c, s) => FirstLayer(c, s) + LayersIn(c, s) = c.layers
           /\ ~IsLast(c, s) => FirstLayer(c, s + 1) = FirstLayer(c, s) + LayersIn(c, s)
<1> DEFINE n == NumStages(c)
<1>1. /\ n \in Nat /\ n >= 2 /\ c.layers \in Nat /\ s \in 0..(n - 1)
      /\ s \in 0..n /\ s + 1 \in 0..n
  BY LayoutWeights DEF Stages
<1>2. /\ FirstLayer(c, s) = LayersBefore(c, s)
      /\ FirstLayer(c, s + 1) = LayersBefore(c, s + 1)
  BY <1>1, FirstLayerIs
<1>3. /\ LayersBefore(c, s) \in Int /\ LayersIn(c, s) \in Nat
      /\ LayersBefore(c, s + 1) = LayersBefore(c, s) + LayersIn(c, s)
  BY OneStageMore
<1>4. LayersBefore(c, 0) = 0 /\ LayersBefore(c, n) = c.layers
  BY AllLayers
<1> DEFINE up == {t \in Nat : t <= n => LayersBefore(c, t) \in Nat}
           down == {d \in Nat : d <= n => LayersBefore(c, n - d) <= c.layers}
<1>5. ASSUME NEW t \in Nat, t < n
      PROVE  /\ LayersBefore(c, t) \in Int /\ LayersIn(c, t) \in Nat
             /\ LayersBefore(c, t + 1) = LayersBefore(c, t) + LayersIn(c, t)
  <2>1. t \in Stages(c)
    BY <1>1, <1>5 DEF Stages
  <2> QED  BY <2>1, OneStageMore
<1> HIDE DEF n
<1>6. s \in up
  <2>1. 0 \in up
    BY <1>4
  <2>2. ASSUME NEW t \in Nat, t \in up PROVE t + 1 \in up
    <3> SUFFICES ASSUME t + 1 <= n PROVE LayersBefore(c, t + 1) \in Nat
      OBVIOUS
    <3>1. t < n /\ LayersBefore(c, t) \in Nat
      BY <1>1, <2>2
    <3> QED  BY <1>5, <3>1
  <2> HIDE DEF up
  <2> QED  BY <1>1, <2>1, <2>2, NatInductionSet
<1>7. n - (s + 1) \in down
  <2>1. 0 \in down
    BY <1>1, <1>4
  <2>2. ASSUME NEW d \in Nat, d \in down PROVE d + 1 \in down
    <3> SUFFICES ASSUME d + 1 <= n PROVE LayersBefore(c, n - (d + 1)) <= c.layers
      OBVIOUS
    <3> DEFINE t == n - (d + 1)
    <3>1. t \in Nat /\ t < n /\ t + 1 = n - d /\ LayersBefore(c, n - d) <= c.layers
      BY <1>1, <2>2
    <3> HIDE DEF t
    <3>2. /\ LayersBefore(c, t) \in Int /\ LayersIn(c, t) \in Nat
          /\ LayersBefore(c, t + 1) = LayersBefore(c, t) + LayersIn(c, t)
      BY <1>5, <3>1
    <3>3. LayersBefore(c, t) <= c.layers
      BY <1>1, <3>1, <3>2
    <3> QED  BY <3>3 DEF t
  <2> HIDE DEF down
  <2>3. n - (s + 1) \in Nat
    BY <1>1
  <2> QED  BY <2>1, <2>2, <2>3, NatInductionSet
<1>8. LayersBefore(c, s) \in Nat /\ LayersBefore(c, s + 1) <= c.layers
  <2>1. n - (s + 1) <= n /\ n - (n - (s + 1)) = s + 1
    BY <1>1
  <2> QED  BY <1>1, <1>6, <1>7, <2>1
<1>9. IsFirst(s) => FirstLayer(c, s) = 0
  BY <1>2, <1>4 DEF IsFirst
<1>10. IsLast(c, s) => LayersBefore(c, s + 1) = c.layers
  <2>1. IsLast(c, s) => s + 1 = n
    BY <1>1 DEF IsLast, n
  <2> QED  BY <1>4, <2>1
<1> QED  BY <1>2, <1>3, <1>8, <1>9, <1>10

\* The stages meet: a stage starts where the one before it ends.
LEMMA StagesMeet ==
    ASSUME NEW c \in Layouts, NEW s \in Stages(c)
    PROVE  /\ Start(c, s) \in Nat /\ End(c, s) \in Nat
           /\ Start(c, s) <= End(c, s) /\ End(c, s) <= c.layers + 3
           /\ IsFirst(s) => Start(c, s) = 0
           /\ IsLast(c, s) => End(c, s) = c.layers + 3
           /\ ~IsLast(c, s) => Start(c, s + 1) = End(c, s)
           /\ ~(IsFirst(s) /\ IsLast(c, s))
<1>1. /\ NumStages(c) \in Nat /\ NumStages(c) >= 2 /\ c.layers \in Nat
      /\ s \in 0..(NumStages(c) - 1)
  BY LayoutWeights DEF Stages
<1>2. /\ FirstLayer(c, s) \in Nat /\ LayersIn(c, s) \in Nat
      /\ FirstLayer(c, s) + LayersIn(c, s) <= c.layers
      /\ ~IsLast(c, s) => FirstLayer(c, s + 1) = FirstLayer(c, s) + LayersIn(c, s)
  BY StageEnds
<1>3. ~IsFirst(s + 1) /\ ~(IsFirst(s) /\ IsLast(c, s))
  BY <1>1 DEF IsFirst, IsLast
<1>4. End(c, s) \in Nat /\ End(c, s) <= c.layers + 3
  BY <1>1, <1>2 DEF End
<1>5. Start(c, s) \in Nat /\ Start(c, s) <= End(c, s)
  BY <1>1, <1>2 DEF Start, End
<1> QED  BY <1>3, <1>4, <1>5 DEF Start, End

\* The modules of the whole model by their place.
LEMMA WholeModelIs ==
    ASSUME NEW c \in Layouts
    PROVE  /\ Len(WholeModel(c)) = c.layers + 3
           /\ DOMAIN WholeModel(c) = 1..(c.layers + 3)
           /\ WholeModel(c)[1] = Embeddings
           /\ \A i \in 1..c.layers : WholeModel(c)[i + 1] = LayerName(i - 1)
           /\ WholeModel(c)[c.layers + 2] = OutputModules[1]
           /\ WholeModel(c)[c.layers + 3] = OutputModules[2]
<1> DEFINE names == {Embeddings, OutputModules[1], OutputModules[2]} \cup {LayerName(i) : i \in Int}
           a == <<Embeddings>>
           b == [i \in 1..c.layers |-> LayerName(i - 1)]
           d == OutputModules
<1>1. c.layers \in Nat
  BY LayoutWeights
<1>2. a \in Seq(names) /\ Len(a) = 1 /\ a[1] = Embeddings
  OBVIOUS
<1>3. b \in Seq(names) /\ Len(b) = c.layers /\ \A i \in 1..c.layers : b[i] = LayerName(i - 1)
  <2>1. \A i \in 1..c.layers : LayerName(i - 1) \in names
    BY <1>1
  <2> HIDE DEF names
  <2> QED  BY <1>1, <2>1
<1>4. d \in Seq(names) /\ Len(d) = 2
  BY DEF OutputModules
<1>5. WholeModel(c) = a \o b \o d
  BY DEF WholeModel
<1> HIDE DEF a, b, d, names
<1> DEFINE ab == a \o b
<1>6. /\ ab \in Seq(names) /\ Len(ab) = c.layers + 1 /\ ab[1] = Embeddings
      /\ \A i \in 1..c.layers : ab[i + 1] = LayerName(i - 1)
  <2>1. /\ ab \in Seq(names) /\ Len(ab) = Len(a) + Len(b)
        /\ \A i \in 1..(Len(a) + Len(b)) : ab[i] = IF i <= Len(a) THEN a[i] ELSE b[i - Len(a)]
    BY <1>2, <1>3, ConcatProperties
  <2>2. \A i \in 1..Len(ab) : ab[i] = IF i <= Len(a) THEN a[i] ELSE b[i - Len(a)]
    BY <2>1
  <2>3. ASSUME NEW i \in 1..c.layers PROVE ab[i + 1] = LayerName(i - 1)
    <3>1. i + 1 \in 1..Len(ab) /\ ~(i + 1 <= Len(a)) /\ (i + 1) - Len(a) = i
      BY <1>1, <1>2, <1>3, <2>1
    <3> QED  BY <1>3, <2>2, <3>1
  <2> QED  BY <1>1, <1>2, <1>3, <2>1, <2>2, <2>3
<1> HIDE DEF ab
<1>7. /\ Len(ab \o d) = c.layers + 3 /\ DOMAIN (ab \o d) = 1..(c.layers + 3)
      /\ \A i \in 1..Len(ab \o d) :
            (ab \o d)[i] = IF i <= Len(ab) THEN ab[i] ELSE d[i - Len(ab)]
  <2>1. /\ ab \o d \in Seq(names) /\ Len(ab \o d) = Len(ab) + Len(d)
        /\ \A i \in 1..(Len(ab) + Len(d)) :
              (ab \o d)[i] = IF i <= Len(ab) THEN ab[i] ELSE d[i - Len(ab)]
    BY <1>4, <1>6, ConcatProperties
  <2> QED  BY <1>1, <1>4, <1>6, <2>1
<1>8. /\ (ab \o d)[1] = Embeddings
      /\ \A i \in 1..c.layers : (ab \o d)[i + 1] = LayerName(i - 1)
      /\ (ab \o d)[c.layers + 2] = d[1]
      /\ (ab \o d)[c.layers + 3] = d[2]
  <2>1. (ab \o d)[1] = ab[1]
    BY <1>1, <1>6, <1>7
  <2>2. ASSUME NEW i \in 1..c.layers PROVE (ab \o d)[i + 1] = ab[i + 1]
    BY <1>1, <1>6, <1>7
  <2>6. ASSUME NEW i \in 1..(c.layers + 3), ~(i <= c.layers + 1)
        PROVE  (ab \o d)[i] = d[i - (c.layers + 1)]
    BY <1>6, <1>7, <2>6
  <2>7. /\ c.layers + 2 \in 1..(c.layers + 3) /\ ~(c.layers + 2 <= c.layers + 1)
        /\ c.layers + 3 \in 1..(c.layers + 3) /\ ~(c.layers + 3 <= c.layers + 1)
    BY <1>1
  <2>3. (ab \o d)[c.layers + 2] = d[(c.layers + 2) - (c.layers + 1)]
    BY <2>6, <2>7
  <2>4. (ab \o d)[c.layers + 3] = d[(c.layers + 3) - (c.layers + 1)]
    BY <2>6, <2>7
  <2>5. (c.layers + 2) - (c.layers + 1) = 1 /\ (c.layers + 3) - (c.layers + 1) = 2
    BY <1>1
  <2> QED  BY <1>6, <2>1, <2>2, <2>3, <2>4, <2>5
<1> QED  BY <1>5, <1>7, <1>8 DEF ab, d

\* What a stage is given by name is what lies between its two ends.
LEMMA NamedBetween ==
    ASSUME NEW c \in Layouts, NEW s \in Stages(c), NEW i \in 1..(c.layers + 3)
    PROVE  WholeModel(c)[i] \in ModuleNames(c, s) <=> Start(c, s) < i /\ i <= End(c, s)
<1> DEFINE w == WholeModel(c)
           first == FirstLayer(c, s)
           own == {j \in 0..(c.layers - 1) : first <= j /\ j < first + LayersIn(c, s)}
<1>1. /\ c.layers \in Nat /\ first \in Nat /\ LayersIn(c, s) \in Nat
      /\ first + LayersIn(c, s) <= c.layers
      /\ IsFirst(s) => first = 0
      /\ IsLast(c, s) => first + LayersIn(c, s) = c.layers
      /\ ~IsLast(c, s) => FirstLayer(c, s + 1) = first + LayersIn(c, s)
  BY StageEnds, LayoutWeights
<1>2. /\ w[1] = Embeddings
      /\ \A j \in 1..c.layers : w[j + 1] = LayerName(j - 1)
      /\ w[c.layers + 2] = OutputModules[1]
      /\ w[c.layers + 3] = OutputModules[2]
  BY WholeModelIs
<1>3. /\ \A j, k : LayerName(j) = LayerName(k) => j = k
      /\ \A j : /\ LayerName(j) # Embeddings
                /\ LayerName(j) # OutputModules[1] /\ LayerName(j) # OutputModules[2]
      /\ Embeddings # OutputModules[1] /\ Embeddings # OutputModules[2]
  BY DEF LayerName, Embeddings, OutputModules
<1>4. \A m : m \in ModuleNames(c, s) <=> \/ \E j \in own : m = LayerName(j)
                                         \/ IsFirst(s) /\ m = Embeddings
                                         \/ IsLast(c, s) /\ m \in {OutputModules[1], OutputModules[2]}
  BY DEF ModuleNames
<1>5. /\ Start(c, s) = IF IsFirst(s) THEN 0 ELSE first + 1
      /\ End(c, s) = IF IsLast(c, s) THEN c.layers + 3 ELSE first + LayersIn(c, s) + 1
  BY <1>1 DEF Start, End
<1> HIDE DEF w, first
<1>6. CASE i = 1
  BY <1>1, <1>2, <1>3, <1>4, <1>5, <1>6 DEF w
<1>7. CASE i \in 2..(c.layers + 1)
  <2>1. i - 1 \in 1..c.layers /\ (i - 1) + 1 = i /\ (i - 1) - 1 = i - 2
    BY <1>1, <1>7
  <2>2. w[i] = LayerName(i - 2)
    BY <1>2, <2>1
  <2>3. w[i] \in ModuleNames(c, s) <=> i - 2 \in own
    BY <1>3, <1>4, <2>2
  <2>4. i - 2 \in own <=> first <= i - 2 /\ i - 2 < first + LayersIn(c, s)
    BY <1>1, <1>7
  <2> QED  BY <1>1, <1>5, <1>7, <2>3, <2>4 DEF w
<1>8. CASE i > c.layers + 1
  <2>1. i = c.layers + 2 \/ i = c.layers + 3
    BY <1>1, <1>8
  <2>2. w[i] = OutputModules[1] \/ w[i] = OutputModules[2]
    BY <1>2, <2>1
  <2>3. w[i] \in ModuleNames(c, s) <=> IsLast(c, s)
    BY <1>3, <1>4, <2>2
  <2>4. Start(c, s) < i /\ i <= End(c, s) <=> IsLast(c, s)
    BY <1>1, <1>5, <2>1
  <2> QED  BY <2>3, <2>4 DEF w
<1> QED  BY <1>1, <1>6, <1>7, <1>8

\* Taking out what is not named leaves the modules between the two ends, in order.
LEMMA SplitModuleIs ==
    ASSUME NEW c \in Layouts, NEW s \in Stages(c)
    PROVE  SplitModule(c, s) =
             [j \in 1..(End(c, s) - Start(c, s)) |-> WholeModel(c)[Start(c, s) + j]]
<1> DEFINE w == WholeModel(c)
           n == Len(w)
           lo == Start(c, s)
           hi == End(c, s)
           Kept(f) == f = [i \in 0..n |-> IF i = 0 THEN <<>>
                                          ELSE IF w[i] \in ModuleNames(c, s)
                                            THEN Append(f[i - 1], w[i]) ELSE f[i - 1]]
           kept == CHOOSE f : Kept(f)
           Upto(i) == IF i <= lo THEN 0 ELSE IF i <= hi THEN i - lo ELSE hi - lo
           g == [i \in 0..n |-> [j \in 1..Upto(i) |-> w[lo + j]]]
<1>1. n = c.layers + 3 /\ n \in Nat
  BY WholeModelIs, LayoutWeights
<1>2. lo \in Nat /\ hi \in Nat /\ lo <= hi /\ hi <= n
  BY <1>1, StagesMeet
<1>3. \A i \in 1..n : w[i] \in ModuleNames(c, s) <=> lo < i /\ i <= hi
  BY <1>1, NamedBetween
<1>4. SplitModule(c, s) = kept[n]
  BY DEF SplitModule
<1> HIDE DEF w, n, lo, hi
<1>5. ASSUME NEW i \in 1..n
      PROVE  g[i] = IF w[i] \in ModuleNames(c, s) THEN Append(g[i - 1], w[i]) ELSE g[i - 1]
  <2>1. i \in 0..n /\ i - 1 \in 0..n
    BY <1>1
  <2>2. /\ g[i] = [j \in 1..Upto(i) |-> w[lo + j]]
        /\ g[i - 1] = [j \in 1..Upto(i - 1) |-> w[lo + j]]
    BY <2>1
  <2> HIDE DEF g
  <2>3. CASE lo < i /\ i <= hi
    <3>1. Upto(i) = Upto(i - 1) + 1 /\ Upto(i - 1) \in Nat /\ lo + Upto(i) = i
      BY <1>1, <1>2, <2>3
    <3> DEFINE u == Upto(i - 1)
    <3> HIDE DEF Upto, u
    <3>2. /\ g[i] = [j \in 1..(u + 1) |-> w[lo + j]] /\ g[i - 1] = [j \in 1..u |-> w[lo + j]]
          /\ u \in Nat /\ lo + (u + 1) = i
      BY <2>2, <3>1 DEF u
    <3>3. Append(g[i - 1], w[i]) = g[i]
      BY <1>2, <3>2
    <3> QED  BY <1>3, <2>3, <3>3
  <2>4. CASE ~(lo < i /\ i <= hi)
    <3>1. Upto(i) = Upto(i - 1)
      BY <1>1, <1>2, <2>4
    <3> QED  BY <1>3, <2>2, <2>4, <3>1
  <2> QED  BY <2>3, <2>4
<1>6. g[0] = <<>>
  BY <1>1, <1>2
<1>7. Kept(g)
  <2>1. \A i \in 0..n : g[i] = IF i = 0 THEN <<>>
                               ELSE IF w[i] \in ModuleNames(c, s)
                                 THEN Append(g[i - 1], w[i]) ELSE g[i - 1]
    <3> HIDE DEF g
    <3> QED  BY <1>1, <1>5, <1>6
  <2>2. DOMAIN g = 0..n /\ g = [i \in 0..n |-> g[i]]
    OBVIOUS
  <2> HIDE DEF g
  <2> QED  BY <2>1, <2>2
<1>8. Kept(kept)
  <2> HIDE DEF g
  <2> QED  BY <1>7
<1> HIDE DEF kept, g
<1> DEFINE T == {i \in Nat : i <= n => kept[i] = g[i]}
<1>9. 0 \in T
  BY <1>1, <1>6, <1>8
<1>10. ASSUME NEW i \in Nat, i \in T PROVE i + 1 \in T
  <2> SUFFICES ASSUME i + 1 <= n PROVE kept[i + 1] = g[i + 1]
    OBVIOUS
  <2>1. i + 1 \in 0..n /\ i + 1 # 0 /\ (i + 1) - 1 = i /\ i + 1 \in 1..n /\ i <= n
    BY <1>1
  <2>2. kept[i] = g[i]
    BY <1>10, <2>1
  <2> QED  BY <1>5, <1>8, <2>1, <2>2
<1> HIDE DEF T
<1>11. n \in T
  BY <1>1, <1>9, <1>10, NatInductionSet
<1>12. kept[n] = g[n]
  BY <1>1, <1>11 DEF T
<1>13. Upto(n) = hi - lo
  BY <1>1, <1>2
<1>14. g[n] = [j \in 1..(hi - lo) |-> w[lo + j]]
  <2>1. n \in 0..n
    BY <1>1
  <2>2. g[n] = [j \in 1..Upto(n) |-> w[lo + j]]
    BY <2>1 DEF g
  <2> HIDE DEF Upto
  <2> QED  BY <1>13, <2>2
<1> QED  BY <1>4, <1>12, <1>14 DEF w, lo, hi

\* An activation that went through the first n modules, with the parameters of version v.
Trace(c, n, v) == [j \in 1..n |-> <<WholeModel(c)[j], v>>]

\* The modules of a stage after those before it.
LEMMA TraceGrows ==
    ASSUME NEW c \in Layouts, NEW s \in Stages(c), NEW v
    PROVE  LET modules == SplitModule(c, s)
           IN  Trace(c, Start(c, s), v) \o [i \in DOMAIN modules |-> <<modules[i], v>>]
                 = Trace(c, End(c, s), v)
<1> DEFINE lo == Start(c, s)
           hi == End(c, s)
           w == WholeModel(c)
           modules == SplitModule(c, s)
           more == [i \in 1..(hi - lo) |-> <<w[lo + i], v>>]
<1>1. lo \in Nat /\ hi \in Nat /\ lo <= hi
  BY StagesMeet
<1>2. modules = [j \in 1..(hi - lo) |-> w[lo + j]]
  BY SplitModuleIs
<1>3. [i \in DOMAIN modules |-> <<modules[i], v>>] = more
  <2> HIDE DEF modules, hi, lo, w
  <2> QED  BY <1>2
<1>4. Trace(c, lo, v) = [j \in 1..lo |-> <<w[j], v>>] /\ Trace(c, hi, v) = [j \in 1..hi |-> <<w[j], v>>]
  BY DEF Trace
<1> DEFINE all == {<<w[j], v>> : j \in Nat}
           old == [j \in 1..lo |-> <<w[j], v>>]
           new == [j \in 1..hi |-> <<w[j], v>>]
<1> HIDE DEF modules, hi, lo, w
<1>5. old \in Seq(all) /\ Len(old) = lo /\ more \in Seq(all) /\ Len(more) = hi - lo
      /\ new \in Seq(all) /\ Len(new) = hi
  BY <1>1
<1>6. /\ old \o more \in Seq(all) /\ Len(old \o more) = hi
      /\ \A j \in 1..hi : (old \o more)[j] = IF j <= lo THEN old[j] ELSE more[j - lo]
  <2>1. Len(old) + Len(more) = hi
    BY <1>1, <1>5
  <2> HIDE DEF old, more, all
  <2> QED  BY <1>1, <1>5, <2>1, ConcatProperties
<1>7. ASSUME NEW j \in 1..hi PROVE (old \o more)[j] = new[j]
  <2>1. CASE j <= lo
    <3>1. old[j] = <<w[j], v>>
      BY <1>1, <2>1
    <3> QED  BY <1>6, <2>1, <3>1
  <2>2. CASE ~(j <= lo)
    <3>1. j - lo \in 1..(hi - lo) /\ lo + (j - lo) = j
      BY <1>1, <2>2
    <3>2. more[j - lo] = <<w[j], v>>
      BY <3>1
    <3> QED  BY <1>6, <2>2, <3>2
  <2> QED  BY <2>1, <2>2
<1>8. old \o more = new
  <2> HIDE DEF old, more, new, all
  <2> QED  BY <1>1, <1>5, <1>6, <1>7, SeqEqual
<1> QED  BY <1>3, <1>4, <1>8 DEF modules, lo, hi

-----------------------------------------------------------------------------
(* What each microbatch has gone through.                                  *)

\* An unsharded value of this pass is of the parameters as they are.
UnshardedInv == \A s \in S : state[s].unsharded \in {None, [of |-> version]}

\* What waits for a stage went through every module before the stage's.
InputInv ==
    \A s \in S, m \in Microbatches :
        ~IsFirst(s) /\ Issued("forward", s - 1, m) /\ ~Issued("forward", s, m) =>
            inputs[Slot("F", s, m)] =
              [mb |-> m, path |-> Trace(layout, Start(layout, s), version)]

\* The losses are those of the first microbatches, in turn.
WholeLoss(m) == [mb |-> m, path |-> Trace(layout, layout.layers + 3, version)]
LossInv ==
    \E k \in Nat :
        /\ losses = [i \in 1..k |-> WholeLoss(i)]
        /\ \A m \in Microbatches : Issued("forward", NumStages(layout) - 1, m) <=> m <= k

PathInv == UnshardedInv /\ InputInv /\ LossInv

\* Nothing is unsharded while the optimizer steps.
ShardedInv == More /\ Pass = "opt" => \A s \in S : state[s].unsharded = None

\* The forward of (s, m) sends the microbatch through the stage's modules.
LEMMA ForwardTrace ==
    ASSUME IndInv, PathInv, NEW s \in S, NEW m \in Microbatches, MayForward(s, m)
    PROVE  /\ Unsharded(state[s]).unsharded = [of |-> version]
           /\ ForwardOutput(s, m) = [mb |-> m, path |-> Trace(layout, End(layout, s), version)]
<1> DEFINE u == Unsharded(state[s])
           lo == Start(layout, s)
           hi == End(layout, s)
           input == ForwardInput(s, m)
           modules == SplitModule(layout, s)
           more == [i \in DOMAIN modules |-> <<modules[i], version>>]
<1>1. layout \in Layouts /\ s \in Stages(layout)
  BY DEF IndInv, ShapeInv, S
<1>2. u.unsharded = [of |-> version]
  <2>1. state[s].unsharded \in {None, [of |-> version]}
    BY DEF PathInv, UnshardedInv
  <2>2. PICK a, b, d, e : state[s] = [unsharded |-> a, unshardedGrads |-> b, shardedGrads |-> d, scaled |-> e]
    BY DEF IndInv, ShapeInv
  <2>3. CASE state[s].unsharded = None
    <3>1. u = [state[s] EXCEPT !.unsharded = [of |-> version]]
      BY <2>3 DEF Unsharded
    <3> QED  BY <2>2, <3>1
  <2>4. CASE state[s].unsharded # None
    BY <2>1, <2>4 DEF Unsharded
  <2> QED  BY <2>3, <2>4
<1>3. input = [mb |-> m, path |-> Trace(layout, lo, version)]
  <2>1. CASE IsFirst(s)
    <3>1. lo = 0
      BY <2>1 DEF Start
    <3>2. Trace(layout, 0, version) = <<>>
      BY DEF Trace
    <3> QED  BY <2>1, <3>1, <3>2 DEF ForwardInput
  <2>2. CASE ~IsFirst(s)
    <3>1. Issued("forward", s - 1, m) /\ ~Issued("forward", s, m)
      BY <2>2 DEF MayForward, InTurn
    <3> QED  BY <2>2, <3>1 DEF PathInv, InputInv, ForwardInput
  <2> QED  BY <2>1, <2>2
<1>4. ForwardOutput(s, m) = [input EXCEPT !.path = @ \o [i \in DOMAIN modules |->
                                                           <<modules[i], u.unsharded.of>>]]
  BY DEF ForwardOutput
<1>5. u.unsharded.of = version
  BY <1>2
<1>6. Trace(layout, lo, version) \o more = Trace(layout, hi, version)
  BY <1>1, TraceGrows
<1> HIDE DEF u, lo, hi, input, modules
<1>7. [i \in DOMAIN modules |-> <<modules[i], u.unsharded.of>>] = more
  BY <1>5
<1> HIDE DEF more
<1>8. ForwardOutput(s, m) = [mb |-> m, path |-> Trace(layout, lo, version) \o more]
  BY <1>3, <1>4, <1>7
<1> QED  BY <1>2, <1>6, <1>8 DEF u, hi

\* A step that sends microbatch m through stage s, whatever else it does backward.
LEMMA ForwardPaths ==
    ASSUME IndInv, PathInv, NEW s \in S, NEW m \in Microbatches, MayForward(s, m),
           UNCHANGED <<layout, version>>,
           \A t, n : Issued("forward", t, n)' <=> Issued("forward", t, n) \/ (t = s /\ n = m),
           \A t \in S : state'[t].unsharded =
              IF t = s THEN Unsharded(state[s]).unsharded ELSE state[t].unsharded,
           \A t \in S, n \in Microbatches :
              inputs'[Slot("F", t, n)] =
                IF t = s + 1 /\ n = m THEN ForwardOutput(s, m) ELSE inputs[Slot("F", t, n)],
           losses' = IF IsLast(layout, s) THEN Append(losses, ForwardOutput(s, m)) ELSE losses
    PROVE  PathInv'
<1> DEFINE out == ForwardOutput(s, m)
           last == NumStages(layout) - 1
<1>1. /\ Unsharded(state[s]).unsharded = [of |-> version]
      /\ out = [mb |-> m, path |-> Trace(layout, End(layout, s), version)]
  BY ForwardTrace
<1>2. S' = S /\ Microbatches' = Microbatches /\ layout \in Layouts /\ S = Stages(layout)
  BY DEF S, Microbatches, IndInv, ShapeInv
<1>3. ~Issued("forward", s, m) /\ (m > 1 => Issued("forward", s, m - 1))
  BY DEF MayForward, InTurn
<1>4. UnshardedInv'
  BY <1>1, <1>2 DEF PathInv, UnshardedInv, None
<1>5. InputInv'
  <2> SUFFICES ASSUME NEW t \in S, NEW n \in Microbatches, ~IsFirst(t),
                      Issued("forward", t - 1, n)', ~Issued("forward", t, n)'
               PROVE  inputs'[Slot("F", t, n)] =
                        [mb |-> n, path |-> Trace(layout, Start(layout, t), version)]
    BY <1>2 DEF InputInv, Slot, Trace
  <2>1. t \in Int /\ s \in Int
    BY <1>2, Neighbours
  <2>2. CASE t = s + 1 /\ n = m
    <3>1. ~IsLast(layout, s)
      BY <1>2, <2>2, Neighbours
    <3>2. Start(layout, t) = End(layout, s)
      BY <1>2, <2>2, <3>1, StagesMeet
    <3> QED  BY <1>1, <2>2, <3>2
  <2>3. CASE ~(t = s + 1 /\ n = m)
    <3>1. ~(t - 1 = s /\ n = m)
      BY <2>1, <2>3
    <3>2. Issued("forward", t - 1, n) /\ ~Issued("forward", t, n)
      BY <3>1
    <3> QED  BY <2>3, <3>2 DEF PathInv, InputInv
  <2> QED  BY <2>2, <2>3
<1>6. LossInv'
  <2>1. PICK k \in Nat :
          /\ losses = [i \in 1..k |-> WholeLoss(i)]
          /\ \A n \in Microbatches : Issued("forward", last, n) <=> n <= k
    BY DEF PathInv, LossInv
  <2>2. \A i : WholeLoss(i)' = WholeLoss(i)
    BY DEF WholeLoss, Trace
  <2>3. CASE s = last
    <3>1. IsLast(layout, s)
      BY <2>3 DEF IsLast
    <3>2. m \in Nat /\ m >= 1 /\ (m > 1 => m - 1 \in Microbatches)
      BY <1>2, LayoutSizes DEF Microbatches
    <3>3. m = k + 1
      BY <1>3, <2>1, <2>3, <3>2
    <3>4. out = WholeLoss(k + 1)
      BY <1>1, <1>2, <3>1, <3>3, StagesMeet DEF WholeLoss
    <3>5. losses' = Append([i \in 1..k |-> WholeLoss(i)], WholeLoss(k + 1))
      BY <2>1, <3>1, <3>4
    <3>6. losses' = [i \in 1..(k + 1) |-> WholeLoss(i)]
      <4> HIDE DEF out, last
      <4> QED  BY <3>5
    <3>7. \A n \in Microbatches : Issued("forward", last, n)' <=> n <= k + 1
      <4>1. Microbatches \subseteq Nat
        BY DEF Microbatches
      <4>2. \A n \in Microbatches : Issued("forward", last, n)' <=> n <= k \/ n = k + 1
        BY <2>1, <2>3, <3>3
      <4> HIDE DEF last
      <4> QED  BY <4>1, <4>2
    <3>8. losses' = [i \in 1..(k + 1) |-> WholeLoss(i)']
      <4> HIDE DEF out, last
      <4> QED  BY <2>2, <3>6
    <3>9. k + 1 \in Nat
      OBVIOUS
    <3> QED  BY <1>2, <3>7, <3>8, <3>9 DEF LossInv
  <2>4. CASE s # last
    <3>1. ~IsLast(layout, s)
      BY <2>4 DEF IsLast
    <3>2. losses' = [i \in 1..k |-> WholeLoss(i)']
      BY <2>1, <2>2, <3>1
    <3>3. \A n \in Microbatches : Issued("forward", last, n)' <=> n <= k
      BY <2>1, <2>4
    <3> QED  BY <1>2, <3>2, <3>3 DEF LossInv
  <2> QED  BY <2>3, <2>4
<1> QED  BY <1>4, <1>5, <1>6 DEF PathInv

\* A step that runs no forward and hands none on.
LEMMA PathsKept ==
    ASSUME IndInv, PathInv, UNCHANGED <<layout, version, losses>>,
           \A t, n : Issued("forward", t, n)' <=> Issued("forward", t, n),
           \A t \in S : state'[t].unsharded \in {None, [of |-> version]},
           \A t \in S, n \in Microbatches : inputs'[Slot("F", t, n)] = inputs[Slot("F", t, n)]
    PROVE  PathInv'
<1>1. S' = S /\ Microbatches' = Microbatches
  BY DEF S, Microbatches
<1>2. UnshardedInv'
  BY <1>1 DEF UnshardedInv, None
<1>3. InputInv'
  <2> SUFFICES ASSUME NEW t \in S, NEW n \in Microbatches, ~IsFirst(t),
                      Issued("forward", t - 1, n)', ~Issued("forward", t, n)'
               PROVE  inputs'[Slot("F", t, n)] =
                        [mb |-> n, path |-> Trace(layout, Start(layout, t), version)]
    BY <1>1 DEF InputInv, Slot, Trace
  <2> QED  BY DEF PathInv, InputInv
<1>4. LossInv'
  <2>1. PICK k \in Nat :
          /\ losses = [i \in 1..k |-> WholeLoss(i)]
          /\ \A n \in Microbatches : Issued("forward", NumStages(layout) - 1, n) <=> n <= k
    BY DEF PathInv, LossInv
  <2>2. \A i : WholeLoss(i)' = WholeLoss(i)
    BY DEF WholeLoss, Trace
  <2>3. losses' = [i \in 1..k |-> WholeLoss(i)']
    BY <2>1, <2>2
  <2> QED  BY <1>1, <2>1, <2>3 DEF LossInv
<1> QED  BY <1>2, <1>3, <1>4 DEF PathInv

\* What a backward hands on is none of a forward's inputs.
LEMMA BackwardSlots ==
    ASSUME layout \in Layouts, NEW s \in S, NEW peer, NEW m \in Microbatches, NEW value,
           NEW buffers, DOMAIN buffers = Slots(layout)
    PROVE  \A t \in S, n \in Microbatches :
              HandedTo("B", s, peer, m, value, buffers)[Slot("F", t, n)] = buffers[Slot("F", t, n)]
<1> SUFFICES ASSUME NEW t \in S, NEW n \in Microbatches
             PROVE  HandedTo("B", s, peer, m, value, buffers)[Slot("F", t, n)]
                      = buffers[Slot("F", t, n)]
  OBVIOUS
<1>1. Slot("F", t, n) \in Slots(layout) /\ Slot("F", t, n) # Slot("B", peer, m)
  BY SlotOf DEF Slot
<1>2. \A x \in Slots(layout) :
         HandedTo("B", s, peer, m, value, buffers)[x] =
           IF peer \in S /\ x = Slot("B", peer, m) THEN value ELSE buffers[x]
  BY Handing
<1> QED  BY <1>1, <1>2

\* The forward alone.
LEMMA ForwardPathStep ==
    ASSUME IndInv, PathInv, NEW s \in S, NEW m \in Microbatches, Forward(s, m)
    PROVE  PathInv'
<1>1. MayForward(s, m) /\ layout \in Layouts /\ DOMAIN inputs = Slots(layout) /\ DOMAIN state = S
  BY DEF Forward, IndInv, ShapeInv
<1> DEFINE out == ForwardOutput(s, m)
<1>2. /\ Issue({<<"forward", s, m>>})
      /\ state' = [state EXCEPT ![s] = Unsharded(@)]
      /\ losses' = IF IsLast(layout, s) THEN Append(losses, out) ELSE losses
      /\ inputs' = HandedTo("F", s, s + 1, m, out, inputs)
      /\ UNCHANGED <<layout, version>>
  BY <1>1, ForwardWillRun DEF Forward
<1> HIDE DEF out
<1>3. \A t, n : Issued("forward", t, n)' <=> Issued("forward", t, n) \/ (t = s /\ n = m)
  BY <1>2 DEF Issue, Issued
<1>4. \A t \in S : state'[t].unsharded =
        IF t = s THEN Unsharded(state[s]).unsharded ELSE state[t].unsharded
  BY <1>1, <1>2
<1>5. ASSUME NEW t \in S, NEW n \in Microbatches
      PROVE  inputs'[Slot("F", t, n)] =
               IF t = s + 1 /\ n = m THEN out ELSE inputs[Slot("F", t, n)]
  <2>1. Slot("F", t, n) \in Slots(layout)
        /\ (Slot("F", t, n) = Slot("F", s + 1, m) <=> t = s + 1 /\ n = m)
    BY SlotOf DEF Slot
  <2>2. \A x \in Slots(layout) :
           inputs'[x] = IF s + 1 \in S /\ x = Slot("F", s + 1, m) THEN out ELSE inputs[x]
    BY <1>1, <1>2, Handing
  <2> QED  BY <2>1, <2>2
<1> QED  BY <1>1, <1>2, <1>3, <1>4, <1>5, ForwardPaths DEF out

\* The forward of a stage with the backward of another.
LEMMA OverlapPathStep ==
    ASSUME IndInv, PathInv, NEW s \in S, NEW m \in Microbatches, NEW t \in S, NEW n \in Microbatches,
           OverlapFwBw(s, m, t, n)
    PROVE  PathInv'
<1>1. /\ MayForward(s, m) /\ MayBackward(t, n) /\ s # t
      /\ layout \in Layouts /\ DOMAIN inputs = Slots(layout) /\ DOMAIN state = S
  BY DEF OverlapFwBw, IndInv, ShapeInv
<1>2. ForwardReady(s, m) /\ BackwardReady(t, n)
  BY <1>1, ForwardWillRun, BackwardMayRun, BackwardWillRun
<1> DEFINE out == ForwardOutput(s, m)
           between == HandedTo("F", s, s + 1, m, out, inputs)
<1>3. PICK g, grad :
        /\ Issue({<<"forward", s, m>>, <<"backward", t, n>>})
        /\ state' = [state EXCEPT ![s] = Unsharded(@), ![t] = Accumulated(@, g)]
        /\ losses' = IF IsLast(layout, s) THEN Append(losses, out) ELSE losses
        /\ inputs' = HandedTo("B", t, t - 1, n, [mb |-> grad], between)
        /\ UNCHANGED <<layout, version>>
  BY <1>2 DEF OverlapFwBw
<1> HIDE DEF out
<1>4. \A u, k : Issued("forward", u, k)' <=> Issued("forward", u, k) \/ (u = s /\ k = m)
  BY <1>3 DEF Issue, Issued
<1>5. ASSUME NEW u \in S
      PROVE  state'[u].unsharded =
               IF u = s THEN Unsharded(state[s]).unsharded ELSE state[u].unsharded
  <2>1. /\ u = s => state'[u] = Unsharded(state[u])
        /\ u = t => state'[u] = Accumulated(state[u], g)
        /\ u # s /\ u # t => state'[u] = state[u]
    BY <1>1, <1>3
  <2>2. Accumulated(state[u], g).unsharded = state[u].unsharded
    <3>1. PICK a, b, d, e : state[u] = [unsharded |-> a, unshardedGrads |-> b,
                                        shardedGrads |-> d, scaled |-> e]
      BY DEF IndInv, ShapeInv
    <3> QED  BY <3>1 DEF Accumulated
  <2> QED  BY <2>1, <2>2
<1>6. /\ DOMAIN between = Slots(layout)
      /\ \A x \in Slots(layout) :
            between[x] = IF s + 1 \in S /\ x = Slot("F", s + 1, m) THEN out ELSE inputs[x]
  BY <1>1, Handing
<1>7. ASSUME NEW u \in S, NEW k \in Microbatches
      PROVE  inputs'[Slot("F", u, k)] =
               IF u = s + 1 /\ k = m THEN out ELSE inputs[Slot("F", u, k)]
  <2>1. Slot("F", u, k) \in Slots(layout)
        /\ (Slot("F", u, k) = Slot("F", s + 1, m) <=> u = s + 1 /\ k = m)
    BY SlotOf DEF Slot
  <2> HIDE DEF between
  <2>2. inputs'[Slot("F", u, k)] = between[Slot("F", u, k)]
    BY <1>1, <1>3, <1>6, BackwardSlots
  <2> QED  BY <1>6, <2>1, <2>2
<1> QED  BY <1>1, <1>3, <1>4, <1>5, <1>7, ForwardPaths DEF out

\* The backward handlers.
LEMMA BackwardPathStep ==
    ASSUME IndInv, PathInv, NEW s \in S, NEW m \in Microbatches,
           FullBackward(s, m) \/ BackwardInput(s, m) \/ BackwardWeight(s, m)
    PROVE  PathInv'
<1>1. layout \in Layouts /\ DOMAIN inputs = Slots(layout) /\ DOMAIN state = S
  BY DEF IndInv, ShapeInv
<1>2. UNCHANGED <<layout, version, losses>>
  BY DEF FullBackward, BackwardInput, BackwardWeight, RunFullBackward, Fail
<1>3. PICK kind :
        /\ kind \in {"backward", "backward_input", "backward_weight"}
        /\ done' = done \/ done' = done \cup {<<kind, s, m>>}
  BY DEF FullBackward, BackwardInput, BackwardWeight, RunFullBackward, Fail, Issue
<1>4. \/ state' = state
      \/ \E g : state' = [state EXCEPT ![s] = Accumulated(@, g)]
  BY DEF FullBackward, BackwardInput, BackwardWeight, RunFullBackward, Fail
<1>5. \/ inputs' = inputs
      \/ \E value : inputs' = HandedTo("B", s, s - 1, m, value, inputs)
  BY DEF FullBackward, BackwardInput, BackwardWeight, RunFullBackward, Fail
<1>6. \A t, n : Issued("forward", t, n)' <=> Issued("forward", t, n)
  BY <1>3 DEF Issued
<1>7. \A t \in S, n \in Microbatches : inputs'[Slot("F", t, n)] = inputs[Slot("F", t, n)]
  BY <1>1, <1>5, BackwardSlots
<1>8. ASSUME NEW t \in S PROVE state'[t].unsharded = state[t].unsharded
  <2>1. CASE state' = state
    BY <2>1
  <2>2. ASSUME NEW g, state' = [state EXCEPT ![s] = Accumulated(@, g)]
        PROVE  state'[t].unsharded = state[t].unsharded
    <3>1. state'[t] = IF t = s THEN Accumulated(state[t], g) ELSE state[t]
      BY <1>1, <2>2
    <3>2. PICK a, b, d, e : state[t] = [unsharded |-> a, unshardedGrads |-> b,
                                        shardedGrads |-> d, scaled |-> e]
      BY DEF IndInv, ShapeInv
    <3>3. Accumulated(state[t], g).unsharded = state[t].unsharded
      BY <3>2 DEF Accumulated
    <3> QED  BY <3>1, <3>3
  <2> QED  BY <1>4, <2>1, <2>2
<1>9. \A t \in S : state'[t].unsharded \in {None, [of |-> version]}
  BY <1>8 DEF PathInv, UnshardedInv
<1> QED  BY <1>2, <1>6, <1>7, <1>9, PathsKept

\* UNSHARD, RESHARD and REDUCE_GRAD.
LEMMA StagePathStep ==
    ASSUME IndInv, PathInv, NEW s \in S, UnshardStage(s) \/ ReshardStage(s) \/ ReduceGrad(s)
    PROVE  PathInv'
<1>1. UNCHANGED <<layout, version, losses, inputs>>
  BY DEF UnshardStage, ReshardStage, ReduceGrad
<1>2. \A t, n : Issued("forward", t, n)' <=> Issued("forward", t, n)
  BY DEF UnshardStage, ReshardStage, ReduceGrad, Issue, Issued
<1>3. DOMAIN state = S /\ \A t \in S : state[t].unsharded \in {None, [of |-> version]}
  BY DEF IndInv, ShapeInv, PathInv, UnshardedInv
<1>4. PICK a, b, d, e : state[s] = [unsharded |-> a, unshardedGrads |-> b,
                                    shardedGrads |-> d, scaled |-> e]
  BY DEF IndInv, ShapeInv
<1>5. state'[s].unsharded \in {None, [of |-> version]} /\ \A t \in S : t # s => state'[t] = state[t]
  <2>1. CASE UnshardStage(s)
    <3>1. /\ state' = [state EXCEPT ![s] = Unsharded(@)] /\ state[s].unsharded = None
      BY <2>1 DEF UnshardStage
    <3>2. state'[s] = [state[s] EXCEPT !.unsharded = [of |-> version]]
      BY <1>3, <3>1 DEF Unsharded
    <3> QED  BY <1>3, <1>4, <3>1, <3>2
  <2>2. CASE ReshardStage(s)
    <3>1. state' = [state EXCEPT ![s].unsharded = None]
      BY <2>2 DEF ReshardStage
    <3>2. state'[s] = [state[s] EXCEPT !.unsharded = None]
      BY <1>3, <3>1
    <3> QED  BY <1>3, <1>4, <3>1, <3>2
  <2>3. CASE ReduceGrad(s)
    <3>1. state' = [state EXCEPT ![s] = Reduced(@)]
      BY <2>3 DEF ReduceGrad
    <3>2. state'[s] = Reduced(state[s])
      BY <1>3, <3>1
    <3>3. Reduced(state[s]).unsharded = state[s].unsharded
      BY <1>4 DEF Reduced
    <3> QED  BY <1>3, <3>1, <3>2, <3>3
  <2> QED  BY <2>1, <2>2, <2>3
<1>6. \A t \in S : state'[t].unsharded \in {None, [of |-> version]}
  BY <1>3, <1>5
<1> QED  BY <1>1, <1>2, <1>6, PathsKept

\* Between passes there is no loss, no input and no unsharded value.
LEMMA FreshPaths ==
    ASSUME layout' \in Layouts, done' = {}, losses' = <<>>,
           \A s \in S' : state'[s].unsharded = None
    PROVE  PathInv'
<1>1. \A k, t, n : ~Issued(k, t, n)'
  BY DEF Issued
<1>2. UnshardedInv' /\ InputInv'
  BY <1>1 DEF UnshardedInv, InputInv, None
<1>3. LossInv'
  <2>1. losses' = [i \in 1..0 |-> WholeLoss(i)']
    OBVIOUS
  <2>2. \A n \in Microbatches' : ~(n <= 0)
    <3>1. layout'.microbatches \in Nat
      BY LayoutSizes
    <3> QED  BY <3>1 DEF Microbatches
  <2>3. 0 \in Nat
    OBVIOUS
  <2> QED  BY <1>1, <2>1, <2>2, <2>3 DEF LossInv
<1> QED  BY <1>2, <1>3 DEF PathInv

\* Every step keeps the paths.
LEMMA PathStep ==
    ASSUME IndInv, IdleInv, PathInv, ShardedInv, [Next]_vars
    PROVE  PathInv' /\ ShardedInv'
<1>1. layout \in Layouts
  BY DEF IndInv, ShapeInv
<1>2. CASE UNCHANGED vars
  <2>1. UNCHANGED <<layout, plan, at, version, done, losses, state, inputs>>
    BY <1>2 DEF vars, passVars
  <2>2. PathInv'
    BY <2>1, PathsKept DEF Issued, PathInv, UnshardedInv
  <2>3. ShardedInv'
    BY <2>1 DEF ShardedInv, More, Pass, S, None
  <2> QED  BY <2>2, <2>3
<1>3. CASE FinishPass
  <2>1. /\ UNCHANGED layout /\ done' = {} /\ losses' = <<>>
        /\ state' = [s \in S |-> ClearedState]
    BY <1>3 DEF FinishPass
  <2>2. S' = S /\ \A s \in S : state'[s].unsharded = None
    BY <2>1 DEF S, ClearedState
  <2>3. PathInv'
    BY <1>1, <2>1, <2>2, FreshPaths
  <2> QED  BY <2>2, <2>3 DEF ShardedInv, None
<1>4. CASE OptimizerStep
  <2>1. More /\ Pass = "opt" /\ UNCHANGED <<layout, done, losses, state>>
    BY <1>4 DEF OptimizerStep, passVars
  <2>2. done = {} /\ \A s \in S : state[s].unsharded = None
    BY <2>1 DEF IdleInv, ShardedInv
  <2>3. losses = <<>>
    <3>1. PICK k \in Nat :
            /\ losses = [i \in 1..k |-> WholeLoss(i)]
            /\ \A n \in Microbatches : Issued("forward", NumStages(layout) - 1, n) <=> n <= k
      BY DEF PathInv, LossInv
    <3>2. 1 \in Microbatches
      BY <1>1, LayoutSizes DEF Microbatches
    <3>3. ~Issued("forward", NumStages(layout) - 1, 1)
      BY <2>2 DEF Issued
    <3>4. k = 0
      BY <3>1, <3>2, <3>3
    <3> QED  BY <3>1, <3>4
  <2>4. S' = S
    BY <2>1 DEF S
  <2>5. PathInv'
    BY <1>1, <2>1, <2>2, <2>3, <2>4, FreshPaths
  <2> QED  BY <2>1, <2>2, <2>4, <2>5 DEF ShardedInv, None
<1>5. ASSUME Running, UNCHANGED <<plan, at>> PROVE ShardedInv'
  BY <1>5 DEF Running, ShardedInv, More, Pass
<1>6. ASSUME NEW s \in S, NEW m \in Microbatches, Forward(s, m) PROVE PathInv' /\ ShardedInv'
  <2>1. Running /\ UNCHANGED <<plan, at>>
    BY <1>6 DEF Forward
  <2> QED  BY <1>5, <1>6, <2>1, ForwardPathStep
<1>7. ASSUME NEW s \in S, NEW m \in Microbatches,
             FullBackward(s, m) \/ BackwardInput(s, m) \/ BackwardWeight(s, m)
      PROVE  PathInv' /\ ShardedInv'
  <2>1. Running /\ UNCHANGED <<plan, at>>
    BY <1>7 DEF FullBackward, BackwardInput, BackwardWeight
  <2> QED  BY <1>5, <1>7, <2>1, BackwardPathStep
<1>8. ASSUME NEW s \in S, NEW m \in Microbatches, NEW t \in S, NEW n \in Microbatches,
             OverlapFwBw(s, m, t, n)
      PROVE  PathInv' /\ ShardedInv'
  <2>1. Running /\ UNCHANGED <<plan, at>>
    BY <1>8 DEF OverlapFwBw
  <2> QED  BY <1>5, <1>8, <2>1, OverlapPathStep
<1>9. ASSUME NEW s \in S, UnshardStage(s) \/ ReshardStage(s) \/ ReduceGrad(s)
      PROVE  PathInv' /\ ShardedInv'
  <2>1. Running /\ UNCHANGED <<plan, at>>
    BY <1>9 DEF UnshardStage, ReshardStage, ReduceGrad
  <2> QED  BY <1>5, <1>9, <2>1, StagePathStep
<1> QED  BY <1>2, <1>3, <1>4, <1>6, <1>7, <1>8, <1>9 DEF Next

\* Every loss is of the whole model: whatever the layout splits its layers
\* into, wherever the stages are and in whatever order the schedule runs them,
\* each microbatch in turn goes through every module once, in the model's
\* order, with the parameters of the last optimizer step.
THEOREM LossesOfWholeModel == Spec => []WholeModelInOrder
<1>1. Init => PathInv /\ ShardedInv
  <2> SUFFICES ASSUME Init PROVE PathInv /\ ShardedInv
    OBVIOUS
  <2>1. /\ layout \in Layouts /\ done = {} /\ losses = <<>>
        /\ \A s \in S : state[s].unsharded = None
    BY DEF Init, ClearedState
  <2>2. \A k, t, n : ~Issued(k, t, n)
    BY <2>1 DEF Issued
  <2>3. LossInv
    <3>1. losses = [i \in 1..0 |-> WholeLoss(i)]
      BY <2>1
    <3>2. \A n \in Microbatches : ~(n <= 0)
      BY <2>1, LayoutSizes DEF Microbatches
    <3> QED  BY <2>2, <3>1, <3>2 DEF LossInv
  <2> QED  BY <2>1, <2>2, <2>3 DEF PathInv, UnshardedInv, InputInv, ShardedInv
<1>2. IndInv /\ IdleInv /\ PathInv /\ ShardedInv /\ [Next]_vars => PathInv' /\ ShardedInv'
  BY PathStep
<1>3. IndInv /\ PathInv => WholeModelInOrder
  <2> SUFFICES ASSUME IndInv, PathInv PROVE WholeModelInOrder
    OBVIOUS
  <2>1. PICK k \in Nat : losses = [i \in 1..k |-> WholeLoss(i)]
    BY DEF PathInv, LossInv
  <2>2. DOMAIN WholeModel(layout) = 1..(layout.layers + 3)
    BY WholeModelIs DEF IndInv, ShapeInv
  <2>3. \A i \in DOMAIN losses : losses[i] = WholeLoss(i)
    BY <2>1
  <2>4. \A i : /\ WholeLoss(i).mb = i
               /\ WholeLoss(i).path = [j \in DOMAIN WholeModel(layout) |->
                                         <<WholeModel(layout)[j], version>>]
    BY <2>2 DEF WholeLoss, Trace
  <2> QED  BY <2>3, <2>4 DEF WholeModelInOrder
<1>4. Spec => [](PathInv /\ ShardedInv)
  BY <1>1, <1>2, InvAlways, PTL DEF Spec
<1> QED  BY <1>3, <1>4, InvAlways, PTL
=============================================================================
