----------------------------- MODULE RolloutGroup -----------------------------
(***************************************************************************)
(* One rollout group from its prompt to the batch of a training step       *)
(* (experiments/rl/rollout/rollouter.py, environment/token.py, and         *)
(* BatchPacking): the siblings run concurrently, each alternating between  *)
(* the generator and its environment, until every one has ended; then the  *)
(* group is scored, turned into samples and packed.                        *)
(*                                                                         *)
(* The generator, the user's environment, the rubric and the renderer are  *)
(* external: an action chooses what they return or raise, an answer        *)
(* without a token (an aborted request) included.  A token is a tuple that *)
(* says who wrote it, so that a test can tell tokens apart.                *)
(***************************************************************************)
EXTENDS BatchPacking, FiniteSetsExt

CONSTANTS GroupSize,       \* siblings of the group
          CompletionLens,  \* CompletionLens[i]: lengths the generator may answer sibling i with
          MaxRolloutTokens,\* max_rollout_tokens
          MaxNumTurns,     \* max_num_turns
          BatchConfigs,    \* batcher configurations
          FirstPrompts,    \* lengths of the opening prompt
          Rewards          \* what the rubric may give: a set of functions of the siblings

ASSUME RolloutAssumption ==
    /\ GroupSize \in Nat \ {0} /\ MaxRolloutTokens \in Nat /\ MaxNumTurns \in Nat \ {0}
    /\ \A i \in 1..GroupSize : CompletionLens[i] \subseteq Nat
    /\ BatchConfigs \subseteq [seqLen : Nat \ {0}, rows : Nat \ {0}, ranks : Nat \ {0},
                              multiple : Nat \ {0}]
    /\ FirstPrompts \subseteq Nat \ {0} /\ Rewards \subseteq [1..GroupSize -> Int]

Siblings == 1..GroupSize

\* A token: what it is, whose rollout, of which turn, at which place.
PromptToken(k)           == <<"prompt", 0, 0, k>>
CompletionToken(i, t, k) == <<"completion", i, t, k>>
EnvToken(i, t)           == <<"reply", i, t, 1>>
Edited(token)            == [token EXCEPT ![1] = "edited"]

VARIABLES batchConfig,  \* the Batcher's configuration
          opening,      \* the opening prompt, shared by the siblings
          at,           \* at[i]: where the coroutine of sibling i waits
          prompt,       \* prompt[i]: next_prompt_token_ids of the last env output
          answer,       \* answer[i]: the completion generate_fn returned
          turns,        \* turns[i]: the RolloutTurns recorded so far
          group,        \* what has become of the group
          rollouts,     \* the scored rollouts: turns, reward, advantage
          samples,      \* the training samples
          batch,        \* the microbatch grid
          validTokens   \* num_global_valid_tokens

batchVars == <<batch, validTokens>>
groupVars == <<batchConfig, opening, at, prompt, answer, turns, group, rollouts, samples, batchVars>>

NoAnswer == [tokens |-> <<>>, finish |-> "none"]

GroupInit ==
    /\ batchConfig \in BatchConfigs
    /\ opening \in {[k \in 1..n |-> PromptToken(k)] : n \in FirstPrompts}
    /\ at = [i \in Siblings |-> "init"]
    /\ prompt = [i \in Siblings |-> <<>>]
    /\ answer = [i \in Siblings |-> NoAnswer]
    /\ turns = [i \in Siblings |-> <<>>]
    /\ group = "rolling"
    /\ rollouts = <<>> /\ samples = <<>> /\ batch = <<>> /\ validTokens = 0

-----------------------------------------------------------------------------
(***************************************************************************)
(* A sibling's rollout.                                                    *)
(***************************************************************************)
IsPromptTooLong(p) == Len(p) >= MaxRolloutTokens

Later == <<batchConfig, opening, group, rollouts, samples, batchVars>>

\* A terminal RolloutStatus (which one, nothing below looks at).
Terminate(i) == at' = [at EXCEPT ![i] = "ended"]

\* A mistake for mutation: an opening prompt over the budget does not end the rollout.
BugEnvInit(i) ==
    /\ at[i] = "init"
    /\ prompt' = [prompt EXCEPT ![i] = opening]
    /\ IF IsPromptTooLong(opening) THEN UNCHANGED at
         ELSE at' = [at EXCEPT ![i] = "generate"]
    /\ UNCHANGED <<answer, turns, Later>>

EnvInit(i) ==
    /\ at[i] = "init"
    /\ prompt' = [prompt EXCEPT ![i] = opening]
    /\ IF IsPromptTooLong(opening)
         THEN Terminate(i)
         ELSE at' = [at EXCEPT ![i] = "generate"]
    /\ UNCHANGED <<answer, turns, Later>>

\* Any exception of the environment or of the generator ends the rollout with
\* what it has recorded; the turn under way is lost.
RolloutRaises(i) ==
    /\ at[i] # "ended"
    /\ Terminate(i)
    /\ answer' = [answer EXCEPT ![i] = NoAnswer]
    /\ UNCHANGED <<prompt, turns, Later>>

Generate(i) ==
    /\ at[i] = "generate"
    /\ \E n \in CompletionLens[i], finish \in {"stop", "cut"} :
          answer' = [answer EXCEPT ![i] =
              [tokens |-> [k \in 1..n |-> CompletionToken(i, Len(turns[i]) + 1, k)],
               finish |-> finish]]
    /\ at' = [at EXCEPT ![i] = "step"]
    /\ UNCHANGED <<prompt, turns, Later>>

\* finish_reason: "stop", or "length" or "abort", which the environment treats alike.
\* The logprob of a completion token is named by the token it belongs to.
RecordTurn(i) ==
    /\ turns' = [turns EXCEPT ![i] = Append(@, [prompt |-> prompt[i],
                                                 completion |-> answer[i].tokens,
                                                 logprobs |-> answer[i].tokens])]
    /\ answer' = [answer EXCEPT ![i] = NoAnswer]

\* TokenEnv.step ends the rollout: the parser raises, the completion was cut
\* (length, abort), the environment times out or is done.
StepEnds(i) ==
    /\ at[i] = "step"
    /\ Terminate(i)
    /\ RecordTurn(i)
    /\ UNCHANGED <<prompt, Later>>

\* The next prompt: the renderer bridges from the tokens, or renders the
\* conversation again, which may come out the same or with the turns before
\* edited (thinking stripped, another tokenization).
NextPrompts(i) ==
    LET said  == prompt[i] \o answer[i].tokens
        reply == << EnvToken(i, Len(turns[i]) + 1) >>
    IN  { said \o reply,
          prompt[i] \o [k \in DOMAIN answer[i].tokens |-> Edited(answer[i].tokens[k])] \o reply,
          opening \o reply }

StepContinues(i) ==
    /\ at[i] = "step"
    /\ answer[i].finish = "stop"
    /\ IF Len(turns[i]) + 1 >= MaxNumTurns
         THEN Terminate(i) /\ UNCHANGED prompt
         ELSE \E p \in NextPrompts(i) :
                IF IsPromptTooLong(p)
                  THEN Terminate(i) /\ UNCHANGED prompt
                  ELSE /\ prompt' = [prompt EXCEPT ![i] = p]
                       /\ at' = [at EXCEPT ![i] = "generate"]
    /\ RecordTurn(i)
    /\ UNCHANGED Later

-----------------------------------------------------------------------------
(***************************************************************************)
(* The group.                                                              *)
(***************************************************************************)
Coroutines == <<batchConfig, opening, at, prompt, answer, turns>>

AllEnded == \A i \in Siblings : at[i] = "ended"

\* AdvantageEstimator, times GroupSize to stay an integer.
Advantage(reward, i) == GroupSize * reward[i] - MapThenSumSet(LAMBDA j : reward[j], Siblings)

ScoreGroup ==
    /\ group = "rolling" /\ AllEnded
    /\ \E reward \in Rewards :
          rollouts' = [i \in Siblings |-> [turns |-> turns[i], reward |-> reward[i],
                                           advantage |-> Advantage(reward, i)]]
    /\ group' = "scored"
    /\ UNCHANGED <<samples, batchVars, Coroutines>>

\* The rubric raises: the worker hands in an empty group.
ScoreRaises ==
    /\ group = "rolling" /\ AllEnded
    /\ group' = "scored"
    /\ UNCHANGED <<rollouts, samples, batchVars, Coroutines>>

\* build_from_group.  When it raises, the batcher loop ends, and the run with it.
Build ==
    /\ group = "scored"
    /\ IF BuildRaises(rollouts, TRUE)
         THEN group' = "raised" /\ UNCHANGED samples
         ELSE /\ samples' \in {BuildFromGroup(rollouts, TRUE)}
              /\ group' = IF samples' = <<>> THEN "untrainable" ELSE "built"
    /\ UNCHANGED <<rollouts, batchVars, Coroutines>>

\* Batcher.add_training_samples, for a batch of this one group.
Pack ==
    /\ group = "built"
    /\ \E kept \in {KeptSamples(samples, batchConfig)} :
          IF kept = <<>>
            THEN group' = "oversized" /\ UNCHANGED <<samples, batchVars>>
            ELSE /\ samples' = kept
                 /\ \E rows \in {PackedRows(kept, batchConfig)} :
                       /\ batch' \in {MicrobatchGrid(rows, batchConfig)}
                       /\ validTokens' = ValidTokens(rows, batchConfig)
                 /\ group' = "packed"
    /\ UNCHANGED <<rollouts, Coroutines>>

-----------------------------------------------------------------------------
RolloutSteps(i) == Generate(i) \/ StepEnds(i) \/ StepContinues(i)

GroupNext ==
    \/ \E i \in Siblings : EnvInit(i) \/ RolloutRaises(i) \/ RolloutSteps(i)
    \/ ScoreGroup \/ ScoreRaises \/ Build \/ Pack

GroupSpec == GroupInit /\ [][GroupNext]_groupVars

\* A Build or a Pack step, told by what it does to group alone.
BatcherMoves ==
    /\ group \in {"scored", "built"}
    /\ group' \in {"raised", "untrainable", "built", "oversized", "packed"} \ {group}

\* The batcher loop waits for nothing outside, so it goes on.  That the calls of
\* the coroutines return is no part of this: it is the premise of GroupEnds.
FairSpec == GroupSpec /\ WF_group(BatcherMoves)

-----------------------------------------------------------------------------
(***************************************************************************)
(* Properties.                                                             *)
(***************************************************************************)

\* The states of the module.
GroupTypeOK ==
    /\ batchConfig \in BatchConfigs
    /\ at \in [Siblings -> {"init", "generate", "step", "ended"}]
    /\ group \in {"rolling", "scored", "raised", "untrainable", "built", "oversized", "packed"}

\* The trained cells of the batch: where they are.
Places == {p \in (DOMAIN batch) \X (1..batchConfig.rows) \X (1..batchConfig.seqLen) :
              batch[p[1]][p[2]][p[3]].trained}

\* What cell c of a row is trained on, and the inputs the model sees before it
\* predicts it: attention does not cross a position 0.
Seen(cells, c) ==
    LET first == c - cells[c].position
    IN  [token |-> cells[c].label, logprob |-> cells[c].logprob, advantage |-> cells[c].advantage,
         context |-> IF first < 1 THEN <<>>
                     ELSE [k \in 1..(c - first + 1) |-> cells[first + k - 1].input]]

\* The tokens a sibling sampled and handed in, with what they were sampled from.
SampledAt(turn, k, advantage) ==
    [token |-> turn.completion[k], logprob |-> turn.logprobs[k], advantage |-> advantage,
     context |-> turn.prompt \o SubSeq(turn.completion, 1, k - 1)]
Sampled(i) ==
    UNION {{SampledAt(turns[i][t], k, rollouts[i].advantage) : k \in DOMAIN turns[i][t].completion}
              : t \in DOMAIN turns[i]}

TrainedCells == {Seen(batch[p[1]][p[2]], p[3]) : p \in Places}

AllFit == \A i \in DOMAIN rollouts :
              LET all == RolloutToTrainingSamples(rollouts[i].turns, rollouts[i].advantage)
              IN  \A k \in DOMAIN all : FitsRow(all[k], batchConfig)

\* However the turns of a rollout branch and however its samples are packed,
\* a sampled token is trained in exactly one cell, under the very context it
\* was sampled from, against its own logprob and with the advantage of its
\* rollout; only a sample too long for a row is missing; and the number the
\* loss is divided by counts exactly these cells (training_sample_builder.py,
\* batcher.py).
TrainedInContext ==
    group = "packed" =>
        /\ TrainedCells \subseteq UNION {Sampled(i) : i \in Siblings}
        /\ AllFit => TrainedCells = UNION {Sampled(i) : i \in Siblings}
        /\ Cardinality(TrainedCells) = Cardinality(Places)
        /\ validTokens = Cardinality(Places)

\* No data-parallel rank gets a microbatch of padding only, as long as there
\* are rows for all (the example of _build_microbatch_grid: "none is all
\* padding"): a rank without a trained token would divide nothing.
NoRankIdles ==
    group = "packed" =>
        LET real == {p \in (DOMAIN batch) \X (1..batchConfig.rows) :
                        batch[p[1]][p[2]] # PackRow(<<>>, batchConfig)}
        IN  Cardinality(real) >= Cardinality(DOMAIN batch) =>
              \A mb \in DOMAIN batch : \E p \in real : p[1] = mb

\* What a coroutine awaits returns, unless it raises: the environment's init and
\* close and the rubric, which nothing bounds, the generator, and the
\* environment's step, which has a timeout unless step_timeout_s is None.
ExternalReturns ==
    /\ \A i \in Siblings : WF_groupVars(EnvInit(i)) /\ WF_groupVars(RolloutSteps(i))
    /\ WF_groupVars(ScoreGroup)

\* If the generator, the environment and the rubric return or raise, whatever
\* they do, the group comes to an end: it is in a batch, or it carries nothing to
\* train on, or its samples cannot be built and the batcher loop raises.
GroupEnds ==
    ExternalReturns => <>(group \in {"untrainable", "oversized", "packed", "raised"})
=============================================================================
