---------------------------- MODULE MCStageGraphs ----------------------------
(***************************************************************************)
(* The stages TLC runs: every shape of trace, and under a pipeline not     *)
(* every policy for it.  With FSDP under a pipeline only the default       *)
(* policy and what builds on it saves the gathered parameters, which the   *)
(* split needs: "full" and "eager" are left out there, as is               *)
(* sac_and_offload of parameters put together from parts, which violates   *)
(* StageGraphsExact.                                                       *)
(***************************************************************************)
EXTENDS StageGraphs

Shapes == [last : BOOLEAN, chunked : BOOLEAN, rich : BOOLEAN, fsdp : {"none", "twice", "parts"}]
Option(s, policy, pp) ==
    [last |-> s.last, chunked |-> s.chunked, rich |-> s.rich, fsdp |-> s.fsdp, policy |-> policy, pp |-> pp,
     ep |-> FALSE, overlap |-> FALSE]

AfterPolicy(s, policy) == s.fsdp = "none" \/ policy = "default" \/ (policy = "sac_and_offload" /\ s.fsdp = "twice")
StageOptions ==
    {Option(p[1], p[2], TRUE) : p \in {q \in Shapes \X Policies : (q[1].chunked => q[1].last) /\ AfterPolicy(q[1], q[2])}}
WholeOptions == {Option(s, policy, FALSE) : s \in {t \in Shapes : t.last}, policy \in Policies}

\* Chunked by layer or by mixture of experts, along the batch or the sequence
\* (not through attention), two layers once.
EpOption(layers, module, seq, early, policy) ==
    [layers |-> layers, pattern |-> module, seq |-> seq, early |-> early, policy |-> policy, pp |-> FALSE, ep |-> TRUE, overlap |-> TRUE]
Layer == <<"layers", "*">>
Moe == <<"layers", "*", "moe">>
EpOptions ==
    {EpOption(1, Layer, FALSE, early, policy) : early \in BOOLEAN, policy \in {"default", "full", "eager"}}
      \cup {EpOption(1, Moe, seq, early, policy) : seq \in BOOLEAN, early \in BOOLEAN, policy \in {"default", "full", "eager"}}
      \cup {EpOption(2, module, FALSE, early, policy) : module \in {Layer, Moe}, early \in BOOLEAN, policy \in {"default", "eager"}}

\* FSDP's buckets and dense regions alone, without the overlap of exchanges.
Whole(o) == [o EXCEPT !.overlap = FALSE]
PlainOptions == {Whole(EpOption(layers, Moe, FALSE, FALSE, policy)) : layers \in {1, 2}, policy \in {"default", "full", "eager"}}

MCOptions == StageOptions \cup WholeOptions \cup EpOptions \cup PlainOptions
=============================================================================
