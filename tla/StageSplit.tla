----------------------------- MODULE StageSplit -----------------------------
(***************************************************************************)
(* distributed/pipeline_parallel.py: how a model becomes pipeline stages.  *)
(* How many virtual stages there are, which modules each gets, what is     *)
(* left of the model in a stage, and which stages a rank holds.            *)
(*                                                                         *)
(* A layout is a record                                                    *)
(*   [style, ranks, layers, layersPerStage, inWeight, outWeight]           *)
(* with layersPerStage = 0 for the default; the schedule is one of several *)
(* stages per rank (a runtime schedule always is).                         *)
(***************************************************************************)
EXTENDS Integers, Sequences

\* _get_pipeline_metadata: the ceiling of the effective layers over the
\* layers of a stage, or two stages for each rank.
EffectiveLayers(c) == c.layers + c.inWeight + c.outWeight
NumStages(c) ==
    IF c.layersPerStage = 0
      THEN 2 * c.ranks
      ELSE (EffectiveLayers(c) + c.layersPerStage - 1) \div c.layersPerStage

MinLayersPerStage(c) == EffectiveLayers(c) \div NumStages(c)

\* The layouts the code accepts: the others raise a ValueError or fail an
\* assertion before any stage exists.
Accepted(c) ==
    /\ NumStages(c) % c.ranks = 0
    /\ NumStages(c) \div c.ranks >= 2
    /\ NumStages(c) <= EffectiveLayers(c)
    /\ c.inWeight <= MinLayersPerStage(c)
    /\ c.outWeight <= MinLayersPerStage(c)
    /\ c.style = "v" => NumStages(c) \div c.ranks = 2

Stages(c) == 0..(NumStages(c) - 1)
IsFirst(s) == s = 0
IsLast(c, s) == s = NumStages(c) - 1

(***************************************************************************)
(* _generate_llm_fqn_per_model_part.                                       *)
(***************************************************************************)
Embeddings == <<"tok_embeddings">>
LayerName(i) == <<"layers", i>>
OutputModules == <<<<"norm">>, <<"lm_head">>>>

\* Mutant: the weight of the output modules is left out of the last stage.
BugLayersIn(c, s) ==
    MinLayersPerStage(c) + (IF s < EffectiveLayers(c) % NumStages(c) THEN 1 ELSE 0)
      - (IF IsFirst(s) THEN c.inWeight ELSE 0)
      - (IF IsLast(c, s) THEN c.outWeight + 1 ELSE 0)

\* Transformer layers of a stage: its share of the effective layers without
\* the weight of the input and output modules.
LayersIn(c, s) ==
    MinLayersPerStage(c) + (IF s < EffectiveLayers(c) % NumStages(c) THEN 1 ELSE 0)
      - (IF IsFirst(s) THEN c.inWeight ELSE 0)
      - (IF IsLast(c, s) THEN c.outWeight ELSE 0)

\* current_layer when the stage's turn comes.
FirstLayer(c, s) ==
    LET current[t \in 0..s] == IF t = 0 THEN 0 ELSE current[t - 1] + LayersIn(c, t - 1)
    IN  current[s]

ModuleNames(c, s) ==
    {LayerName(i) : i \in {j \in 0..(c.layers - 1) :
                             FirstLayer(c, s) <= j /\ j < FirstLayer(c, s) + LayersIn(c, s)}}
      \cup (IF IsFirst(s) THEN {Embeddings} ELSE {})
      \cup (IF IsLast(c, s) THEN {OutputModules[1], OutputModules[2]} ELSE {})

(***************************************************************************)
(* _split_module: a copy of the whole model, without what is not named, in *)
(* the model's own order.                                                  *)
(***************************************************************************)
WholeModel(c) == <<Embeddings>> \o [i \in 1..c.layers |-> LayerName(i - 1)] \o OutputModules
SplitModule(c, s) ==
    LET whole == WholeModel(c)
        names == ModuleNames(c, s)
        kept[i \in 0..Len(whole)] ==
          IF i = 0 THEN <<>>
          ELSE IF whole[i] \in names THEN Append(kept[i - 1], whole[i]) ELSE kept[i - 1]
    IN  kept[Len(whole)]

(***************************************************************************)
(* _get_pp_rank_to_stage_indices_mapping.                                  *)
(***************************************************************************)
\* Mutant: the V schedules get the stages of a looped one.
BugRankStages(c, r) == {r + k * c.ranks : k \in 0..(NumStages(c) \div c.ranks - 1)}

RankStages(c, r) ==
    IF c.style = "v"
      THEN {r, NumStages(c) - 1 - r}
      ELSE {r + k * c.ranks : k \in 0..(NumStages(c) \div c.ranks - 1)}
=============================================================================
