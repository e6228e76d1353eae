# A verification development of torchtitan

torchtitan is a PyTorch platform for training large models.  Most of it is
tensor programs, for which a model checker is the wrong tool.  Around the
arithmetic there is *control*: an asynchronous reinforcement learning loop made
of many tasks, generators that serve requests while their weights are
exchanged, checkpoints written and deleted in the background, datasets that
resume in the middle of a packed row, ranks that write into one another's
memory, and compiler passes that rewrite a training step and cut it into
pieces which a pipeline schedule runs out of order.  These are hard to test, and
they are what this directory specifies in TLA+, model-checks with TLC and, for
the parts that matter most, proves with TLAPS.

All paths below are relative to `torchtitan/` in the repository; `rl/` stands
for `experiments/rl/`, `gt/` for `experiments/graph_trainer/`.

## 1. Inventory

### 1.1 The asynchronous RL loop (`rl/controller.py`)

`Controller.run()` starts one task each for the data input, the batcher and the
trainer, and one rollout worker per slot of the work buffer.  They share one
asyncio event loop and talk through two queues and a budget:

    data input -> work buffer -> rollout workers -> work buffer
       -> batcher -> training_batch_queue (size 1) -> trainer -> weight sync
                         ^                                          |
                         +------------- slots given back -----------+

| component | state | operations |
|---|---|---|
| work buffer, `rl/components/work_buffer.py` | FIFO dict of groups (WAITING, INFLIGHT, FINALIZED), active slots, peak, closed | `wait_for_slot`, `add_work`, `claim_next`, `finalize_work`, `take_finalized`, `release_active_groups`, `close`, `metrics` |
| weight sync, `rl/components/weight_sync.py` | push task, pull task | `start_async_push_pull`, `wait_prev_push`, `wait_prev_pull`, `wait_inflight_push_pull` |
| batcher, `rl/components/batcher.py` | groups and samples accumulated for the next batch | `add_training_samples`, packing into rows, microbatches and ranks |
| sample builder, `rl/components/training_sample_builder.py` | none | `build_from_group`: turns with a growing prefix become one sample |
| rollouts, `rl/rollout/`, `rl/environment/` | messages, tokens sent so far, turn count | `init`, `step`, `run_group`, scoring |
| policy trainer, `rl/actors/trainer.py` | weights, optimizer, `policy_version` | `forward_backward`, `optim_step`, `push_model_state_dict`, `save_checkpoint` |
| controller | program counters of its tasks, `group_index`, `step` | the five loops, `run` with its shutdown |

*Correct* means: no sample older than `max_offpolicy_steps` is trained on;
groups are consumed in order, none twice; slots are conserved between admission
and release; a pull never reads weights that are being replaced; every sampled
token is trained once, in the context it was sampled from; the run ends,
either trained or with the failure raised.  Two of these have limits in the code:
a pull is awaited on rank 0 of each generator only, and a run that loses too many
slots, or waits for a call that never returns, does not end (section 3).

*Hard*: every task suspends at every await; a slot granted before a thread call
is used after it; two tasks release slots; `optim_step` mutates weights that a
push may be copying; failures of background tasks are only seen by whoever
awaits them; shutdown meets blocked puts and tasks that have already failed; a
prompt rendered again need not be an extension of the tokens sent before.

### 1.2 Serving rollouts (`rl/routing/`, `rl/actors/generator.py`)

The *inter-generator router* sends each turn of a session to one of several
generator meshes (least loaded, round robin, or sticky with a bounded session
map) and each weight pull to all.  Without hot swap a generator is drained
before its pull.  State: a serving/syncing flag, reserved load and idle event
per generator, a serving event, the strategy's counter and session map.
*Correct*: the load counts the calls in flight, a drained generator is empty, no
call is lost or sent to nobody, no drain is starved.

A *generator mesh* has one process per rank, each running an engine loop.
Rank 0 receives `generate`, `pull_model_state_dict` and `close`, keeps a future
per call, decides (close, then pull, then step), broadcasts the decision, and
resolves futures with what its own engine and, over a port, its peers' engines
finish.  *Correct*: no request is lost or handled twice, every caller is
answered, and versions stamped on a completion bracket those its tokens were
sampled with.  *Hard*: peers lag behind rank 0, any loop may crash, calls arrive
between any two steps.

### 1.3 Checkpointing (`components/checkpoint.py`, `trainer.py`)

State: the directories on disk, the save in flight and its staged copy, the
queue of directories to delete and the thread that deletes them, the schedule.
Operations: `save`, `maybe_wait_for_staging`, `maybe_wait_for_saving`, `load`,
`close`, the purge thread.  *Correct*: whatever is interrupted, a restart finds a
complete checkpoint, no older than before, and little is lost.  *Hard*: writing,
deleting and training overlap; a crash may fall between any two of them; what
earlier starts left behind counts among the directories.

### 1.4 Training data (`hf_datasets/`, `components/dataloader.py`)

Text, chat and multimodal datasets are generators over a Hugging Face source.
State: the position in the source, the epoch, a token buffer, a pending sample or a
packer's buffer; `InterleavedDataset` adds a random generator.  Operations:
`__iter__`, `state_dict`, `load_state_dict`, the stateful data loader over
them.  *Correct*: rows are well formed, no token is lost or repeated, and a run
resumed from a checkpoint sees what an uninterrupted run would have seen.
*Hard*: a generator is suspended in the middle of its loop when its state is
read, and what it keeps in locals is in no state dict.

### 1.5 Expert parallelism (`models/common/token_dispatcher.py`, `distributed/minimal_async_ep/`)

A token picks `top_k` experts; its rows are sorted by expert, moved to the ranks
that own the experts, computed, moved back and summed.  The all-to-all
dispatchers compute index permutations; MinimalAsyncEP writes rows straight into
the memory of its peers, into receive buffers used in turn, with barriers on
signal pads.  *Correct*: every dispatcher computes what one rank with all
experts would; no rank writes a buffer that another still reads.  *Hard*: ranks
run ahead of each other; a returned tensor is a view of a buffer that is
used again.

### 1.6 Pipelines over graphs (`distributed/pipeline_parallel.py`, `gt/`)

The model is split into stages; the graph trainer traces the step of a stage,
rewrites the trace with a sequence of passes (normalization, FSDP unshard and
reshard, memory policy, offload, recomputation), cuts it into forward,
backward, unshard, reduce and halves, and a runner executes those in the order a
schedule gives.  State: the graphs, and in the runner the buffers of
activations, gradients, unsharded parameters and received values per
microbatch.  *Correct*: whatever passes are on and in whatever order the
callables run, the losses, the gradients and the buffers are those of the traced
step.  *Hard*: values are matched by position; storage is freed and copied
asynchronously; in-place writes must stay in order with reads that were
duplicated or moved.

With expert parallelism the trace is also *chunked*: the nodes of a layer, or of its
mixture of experts, are doubled, each copy takes half of the batch or of the sequence,
and what the rest of the graph reads is put together again by concatenation
or, for parameter gradients, by a sum.  A *schedule* then orders the copies so that
one chunk computes while the exchange of the other is under way, and the shapes
that tracing left symbolic become numbers.  *Correct*: every reader still
gets the whole value, and the graph still computes the traced step.  *Hard*:
whether a node belongs to a region, and whether a value can be halved, is
inferred from where it was traced and from its shape; recomputed nodes belong to no region.

FSDP's collectives are *bucketed*: the gathers, and the reductions, of the modules of a
plan become one collective per direction, the graph is sorted again so that each starts
one bucket ahead, and at the end launches *move* into the attention of the
neighboring layer, where they disturb no exchange of tokens.  *Correct*: each parameter and each
gradient comes back from its bucket as it went in, nothing is read before its wait, and
a launch has something to overlap with.  *Hard*: what belongs to a bucket is matched by
position and module name, and the sort that follows knows of data flow only.

### 1.7 The rest

Models, kernels, losses, optimizers, quantization, configuration,
observability, the adapters to other systems, and scripts are listed in
`PROJECT.json` with the reason each is left out; see section 6.

## 2. Modules

| module | models | source |
|---|---|---|
| `WorkBuffer` | `RolloutGroupWorkBuffer` under callers that keep its protocol | `rl/components/work_buffer.py` |
| `WeightSync` | `WeightSyncManager`, the trainer's update and push, the generators' pulls | `rl/components/weight_sync.py`, ends of `rl/actors/*.py` |
| `OffPolicyWindow` | *abstract*: one stream of groups with a window on it | what the two above and the controller promise together |
| `LoopConstants` | the sizes that the loop and the window share | `rl/controller.py` |
| `AsyncLoop` | `Controller.run()` and its loops; instantiates `WorkBuffer` and `WeightSync`, implements `OffPolicyWindow` | `rl/controller.py`, `rl/components/batcher.py` |
| `BatchPacking` | turns to samples, samples to rows, rows to microbatches and ranks | `rl/components/training_sample_builder.py`, `batcher.py` |
| `RolloutGroup` | one group from its prompt to the batch; uses `BatchPacking` | `rl/rollout/rollouter.py`, `rl/environment/token.py` |
| `GeneratorRouter` | the inter-generator router with its strategies | `rl/routing/` |
| `GeneratorEngine` | one generator mesh | `rl/actors/generator.py`, `rl/routing/intra_generator_router.py` |
| `Checkpoint` | the checkpoint manager and the train loop that drives it | `components/checkpoint.py`, `trainer.py` |
| `DatasetSource`, `TextDataset`, `ChatDataset`, `MMDataset` | a source and the three datasets over it | `hf_datasets/text_datasets.py`, `hf_datasets/multimodal/` |
| `DataStream` | composes the datasets: interleaving, data loader, checkpoints, restarts | `hf_datasets/interleaved.py`, `components/dataloader.py` |
| `TokenDispatch` | routing, the local dispatcher, MinimalAsyncEP's row arithmetic | `models/common/token_dispatcher.py`, `moe.py`, `minimal_async_ep/kernels.py` |
| `AllToAllDispatch` | the all-to-all dispatchers, padded or not, and the sequence-parallel index arithmetic | `models/common/token_dispatcher.py` |
| `AsyncEP` | receive buffers, barriers and copies of MinimalAsyncEP | `distributed/minimal_async_ep/` |
| `StageSplit` | the pipeline split | `distributed/pipeline_parallel.py` |
| `GraphPP` | the pipeline runtime; uses `StageSplit` | `gt/graph_pp/runner.py` |
| `FxGraph` | graphs, their execution, the utilities all passes use | `gt/graph_pp/utils.py`, `gt/common_utils.py` |
| `GraphNormalize` | no-op removal, deduplicated unshards, the FSDP patterns | `gt/remove_noop_passes.py`, `fsdp_patterns.py`, `passes.py` |
| `MemoryPolicy`, `CpuOffload`, `SelectiveRemat` | which activations are saved, offloaded, recomputed, and the passes that do it | `gt/memory_policy.py`, `cpu_offload.py`, `selective_activation_remat.py` |
| `StagePartition` | the joint graph cut into callables | `gt/graph_pp/partition.py`, `split_*.py`, `graph_multiplex.py` |
| `StageTrace` | the traced step of a stage, its input | `gt/graph_pp/graph_builder.py`, `chunked_loss.py` |
| `EpTrace` | the traced step with experts, and its execution half by half | `models/common/token_dispatcher.py`, `models/common/moe.py` |
| `EpChunk` | the chunking pass | `gt/ep_chunk_pass.py` |
| `EpOverlap` | the schedule of the chunks' exchanges, and concrete shapes | `gt/ep_overlap_pass.py`, `ep_pass_utils.py` |
| `FsdpSchedule` | FSDP's buckets, their prefetch order, and the move of launches to dense regions | `gt/fsdp_passes.py`, `common_utils.py` |
| `StageGraphs` | composes all graph modules: passes, cut, and a schedule running the callables | `gt/graph_pp/graph_builder.py`, `passes.py` |

A module `MCx` extends `x` and holds the model values and sets that its `.cfg`
files need; where none are needed the `.cfg` names `x` itself.  `xProofs` holds the
theorems.  `PROJECT.json` maps every definition to the
lines it stands for.  Definitions named `Bug...` are plausible mistakes, each of
which makes a property fail; they are never part of a specification.

### Correspondence

**WorkBuffer.**  Every method holds one asyncio condition and awaits nothing but
its own predicate while it does, so each is one atomic action whose guard is that
predicate.  `work` is the insertion-ordered dict as a sequence.  `groupIndex` and
`departed` belong to the environment; `AsyncLoop` substitutes what the real
loops have for them and is proved to keep the protocol (`KeepsProtocols`).

**WeightSync.**  Weights are abstracted to the number of optimizer steps they went
through, `Torn` when they mix two.  The store key is unusable while a push runs;
`optim_step` tears a push that is under way.  A generator is here rank 0 of its mesh,
which answers the pull when its own copy is done and stamps the minimum version; what is
said of the weights is said of it alone.  The peers, which may read after the next push
has begun, are in `GeneratorEngine`.

**AsyncLoop.**  An action is what one task does between two awaits that may
suspend it.  A group is its id and the version that one of its samples was
generated under, chosen by the model: what holds of any sample holds of the
oldest.  Whether a rollout raises, a group is untrainable, or its samples are
longer than `seq_len` is decided where the code finds out.  Any call the batcher loop
or the trainer loop makes may raise (`BatcherRaises`, `TrainerRaises`).  `close()` and the
cancellations are two steps although no await separates them, which only adds
behaviours.  Pushes and pulls under way are not cancelled by a shutdown, as in
the code.

**RolloutGroup and BatchPacking.**  A token is a tuple that names its writer, so
that a trained token can be compared with the one that was sampled.  The
generator, the user's environment, the rubric and the renderer are external: an
action chooses what they answer, among them a turn that is rendered again with a
changed prefix or a completion without a token, and what they raise.  `TokenEnv` decides whether a prompt
continues the tokens sent before; the builder then merges the turns or starts a
new branch.  `BatchPacking` is the arithmetic from there to the tensors, as
functions.

**GeneratorRouter.**  The router runs on one event loop.  The gathered pull
coroutines reach their first await one after the other with nothing in between
(`PullRound`); a call woken by `Event.set()` stands before the next round in the
ready queue and does not look at the event again (`RouteResumes`).  All calls cost 1
and carry a session id, as the controller makes them.  A pull that raises ends
the round for the controller while the others go on.

**GeneratorEngine.**  A rank is a data-parallel rank; its tensor-parallel group is in
lockstep.  Decisions queue in `inbox`, at most `MaxBehind` of them because the
broadcast is a rendezvous; waiting for a crashed peer times out
(`BroadcastFails`).  The choice of a rank for a request is open, so the results
hold of every strategy.  `minVersion` is what rank 0 stamps when it has shared a
decision, `version[d]` what the serving rank reports; `saw` records what was really used.

**Checkpoint.**  A directory is absent, partial (no metadata), broken (metadata over
missing or mixed shards), or complete, with the model only or the full state.  The
distributed-checkpoint library, which is external, writes shards and then
metadata.  Deleting is not atomic and may fail, and a crash may happen in any
state.  `config` is fixed; the schedule may be another one at each restart.
Ranks are one process: the saves are collective.  The order of deletions in the
purge queue is left open.

**DataStream.**  A token is `<<epoch, sample, k>>`.  A dataset's generator is a
program counter and its locals; an action runs it from one read or yield to the
next, so that `state_dict` sees it where it is suspended.  A map-style source is
positioned by skipping, a streaming one by its own state, as the code does.  The
data loader draws a batch ahead of nothing (no workers); its state is saved
between two batches, a restart builds everything anew and loads it.  The run's
history is kept twice, once for the interrupted and once for the uninterrupted run,
whose draws are the same.

**TokenDispatch, AllToAllDispatch, AsyncEP.**  A tensor is a function from row
numbers; its content is a value that is only moved, and a sum is the set of its
terms, so that the index arithmetic is exact and the numerics are absent.  In
`AsyncEP` every rank is a process whose steps are single writes to a peer's
buffer, signals, waits and reads.  A view handed to the caller stays a
reference to its buffer, and autograd's saved tensors are such references.

**StageSplit and GraphPP.**  The split is functions of a layout.  In the runtime an
activation is the modules a microbatch went through, each with the version of its
parameters, and a gradient the set of (forward, output gradient) pairs that made it.  The
schedule is upstream's; it may issue actions in any order that respects the data
flow, which includes every schedule the code can be configured with.

**FxGraph to StageGraphs.**  A graph is a sequence of nodes; a pass is an operator
from graphs to graphs that follows the loops of the code.  `Execute` gives graphs a
meaning that covers what the passes can get wrong: storage shared by
views, in-place writes, collectives that have not been waited for, copies to the
host and storage freed by a keep-alive.  A value is the term that computed it,
so two executions agree exactly when they computed the same from the same.  The
traces of `StageTrace` hold one instance of every pattern that the passes
match.  In the traces with experts (`EpTrace`) a tensor is a function from the
halves of the selected dimension to terms: a value that a node computes row by row
has two, a reduction over rows is a sum of two, and a tensor that mixes its rows in
an exchange has halves that are undone by the exchange back.  So a chunk that
gets the wrong half, a concatenation in the wrong order, or a sum of what had to
be concatenated is a different value, and a size that does not fit is `Bad`.
The chunking pass works on these graphs as the code does on FX graphs:
regions grown from annotated anchors, the plan of every escaping value, lowering
region by region, forward before backward.  Its errors, which the code raises,
are a result of their own (`ok`, `NoSchedule`).  A bucket is a value that holds others in
order; packing, the collective and unpacking act on each of them (`EachMoved`), so a
part taken from the wrong place is another parameter.  `_manual_reorder_graph` becomes a set of
pairs (what must come before what) and `StableSorted`, the depth-first sort
that the code falls back to where PyTorch has no `_move_overlap_nodes`; a
move is `ChainMoved`, with the nodes that `PinnedAt` holds back.

## 3. Model checking

| run | question | instance |
|---|---|---|
| `work_buffer` | slots conserved, strict FIFO, every admitted group leaves | 3 slots, 5 groups |
| `async_loop` | rank 0 of each generator has the weights it stamps and is never behind the released version; slots, age and order along the pipeline; the protocols of buffer and sync are kept; the loop implements the window; if calls return and enough slots are left, the run ends, trained or raised, and a failed push or pull is raised | 2 generators, K=1, 2 groups a step, steps 2..4 after a restore, one untrainable and one oversized group; the loss may diverge, and data, sample builder or Batcher, the trainer's calls, push, pull and save may raise |
| `router` | load = calls in flight, drained pulls, no call without a server, sticky sessions, no forgotten call, no starved drain | 2 generators, 3 sessions, 2 pins, all strategies, both pull modes |
| `engine` | each request in one place, load, stamps, labels against weights, callers answered, close ends | 2 ranks, 2 requests, bursts of 2, 2 tokens, 2 pulls, crashes anywhere |
| `engine_overtaken` | *violation*: every rank's pull is awaited before the next push | the same |
| `checkpoint` | the resume point never regresses; bounded loss | 4 steps, 2 schedules, keep 0 or 2, 3 starts, 3 async modes |
| `data_stream` | the resumed stream is the uninterrupted one; rows well formed, no token lost or repeated; `next()` returns | 3 kinds of datasets, 2 or 3 documents each, rows of 3, batches of 2, alone (finite, infinite, map-style, streaming) and in pairs; 2 saves, 1 restart |
| `async_ep` | every exchange delivers; the saved output survives; all dispatchers agree; the step ends | 2 ranks of 2 experts, top-2 of 2 tokens, 2 layers, 2 buffers, 16 routings |
| `async_ep_saved` | *violation*: the saved input survives | the same |
| `rollout_group` | trained exactly once and in context; no idle rank; every group ends if what it awaits returns | 2 siblings, up to 3 turns and 6 tokens, completions of 0 to 2 tokens, 3 batch shapes |
| `graph_pp` | losses are the whole model's; gradients exact; no handler raises | 6 layouts of 2 or 3 ranks, looped and V, up to 3 microbatches; train, train, optimizer, evaluation |
| `stage_graphs` | after the passes, and cut into callables in every order, the step computes what was traced | all shapes of trace under every policy without a pipeline; with one, under every policy where parameters are not sharded, with FSDP under the default policy and, parameters gathered whole, `sac_and_offload`; 2 microbatches; with experts, 1 layer chunked by layer or by MoE, along batch or sequence, gradients joined early or late, under three policies, and 2 layers under two; FSDP's buckets and dense regions with the overlap, and without it for 1 and 2 layers under three policies |

K is `max_offpolicy_steps`.

### Why the bounds are enough

* `work_buffer`: five groups through three slots let every position of the FIFO
  be the straggler and every slot be reused.
* `async_loop`: K=1 with two groups a step has a batch in training, one in the queue
  and one in the making at the same time; three steps reach the steady state in
  which every slot has been through a push and a pull.  `StartStep = 1` makes
  versions that count from zero visible.  `Faults` says which calls
  may raise, each at any time: of the dataset (`data`), of the sample builder and the
  Batcher (`build`), of `sync_log_step`, `forward_backward` and `optim_step` (`step`), of
  push, pull and save; `nan` is a loss that is not finite.  A rollout that raises is an
  untrainable group.  The properties were also checked with K=0.
* `MaxUntrainable` and `MaxOversized` count how often data may be useless.  With one
  oversized group the run goes on with a slot less; together with a failed
  push or pull, or with more such groups than K steps hold, it may stall, which the two
  liveness properties exclude by name (`WindowHoldsBatch`) and `Starved` shows:
  see *What the code does otherwise*.
* `router`: three sessions over two pins force an eviction; with two generators one
  can serve while the other drains, and both can be drained.  `CounterPeriod`
  only folds a counter that is used modulo 1 or 2.
* `engine`: two ranks give one peer that lags; with `MaxSeqs` 1 a second request
  waits inside an engine across a pull; two tokens let a pull fall between them.
  `MaxVersion` 2 allows a push right after a pull.
* `checkpoint`: three starts are needed for a left-over of one crash to meet the purge
  of the next start and a crash after it; with `keep_latest_k` 2, the smallest
  the configuration accepts, the purge is as eager as it can be.
* `data_stream`: the corpora have documents shorter than, equal to and longer
  than a row, conversations that are too long, and samples that cannot be
  processed; six rows go through at least two epochs, and a restart may fall after
  any batch of either.  `MaxDraws` bounds the draws of the interleaver.
* `async_ep`: two layers let a rank run one operation ahead of its peer across a
  layer; the routings spread the tokens, send all to one rank, and send both tokens
  alike.  Sequence-parallel degrees 1 to 3 with batches of up to 2 and sequences of
  up to 6 tokens need padding or do not.
* `rollout_group`: three turns give a branch between two that continue; the
  batch shapes have tight rows, several samples to a row, rounding up, and
  samples that are too long.
* `graph_pp`: the layouts deal layers evenly and unevenly, with weights on either
  end, and have a rank with one and with several stages; two training passes
  accumulate before the optimizer, and the evaluation follows it.
* `stage_graphs`: a first, a middle and a last stage with two layers each, so that
  there is a layer to defer and one to prefetch; two microbatches may be forward
  at once in either order of their backwards.  With experts, two layers give regions whose
  inputs are already chunked by the region before and a backward that sums over both;
  two chunks are what the code supports.  Two layers are also the fewest for which a launch has a
  neighboring layer to move to, upwards and downwards.

`MaxGroups` of `WorkBuffer`, `LastStep`, `MaxStep`, `MaxStarts`, `MaxVersion`, `MaxRows`, `MaxSaves`,
`MaxRestarts` and `MaxReshards` only end the
exploration.  Where a bound makes the system stop (`engine`, `checkpoint`) or a
step ends for good (`async_ep`, `rollout_group`, `graph_pp`, `stage_graphs`), the
configuration turns the deadlock check off; a `checkpoint` instance also stops
when the newest directory is
a model-only one, which `load()` refuses.  That nothing stops early is then a
property: `StepEnds`, `GroupEnds`, `CloseEndsAll`; in `graph_pp` the handlers'
own failures are states (`HandlersSucceed`).  All other runs check for
deadlock; the end of a run that is meant to end is a
stuttering step (`Terminated` in `AsyncLoop`, `Finished` in `DataStream`), as is
the stall of `AsyncLoop` (`Starved`).

### Fairness

* `AsyncLoop`: weak fairness of the steps the event loop runs by itself (`LoopGoesOn`):
  asyncio runs every ready task in turn, and the Batcher's thread ends.  That calls to the dataset, the
  generators and the trainer return is no fairness of the code, which bounds few of them:
  it is the premise `CallsReturn` of `TrainingCompletes` and `FailureSurfaces`.  A
  `generate` made after a crash of its engine breaks it (below).
  Failures are not fair: nothing has to fail.
* `WorkBuffer`: weak fairness of workers and batcher, which loop for ever; none of the
  producer, which owes the buffer nothing.
* `GeneratorRouter`: weak fairness of woken calls, of answers and of the steps of a
  pull; sessions and the controller call when they please.
* `GeneratorEngine`: weak fairness of every engine loop, of the drain task and of a
  close that was called; nobody is obliged to call.
* `RolloutGroup`: weak fairness of the batcher loop.  That what a coroutine awaits returns
  or raises is the premise `ExternalReturns` of `GroupEnds`: the environment's step has
  a timeout unless `step_timeout_s` is None, the generator answers while its loops run
  (`CallsAnswered`), and the environment's `init` and `close` and the rubric have no
  timeout at all (`rl/environment/token.py:118`, `rl/rollout/rollouter.py:216`).
* `DataStream`: weak fairness of the caller that asks for rows and of the generator it
  runs, which is one thread; saves and restarts are not fair.
* `AsyncEP`: weak fairness of every rank, whose kernels run on its stream; a kernel that
  waits at a barrier is not enabled until the signal is there.
* `WeightSync`, `OffPolicyWindow`, `Checkpoint`, `GraphPP` and `StageGraphs` make only
  safety claims.

No strong fairness is assumed: asyncio's ready queue is first in, first out, and a
task that waits for a condition is not promised that it will still hold.

### Findings

**The input rows that the experts' backward reads are overwritten**
(`async_ep_saved`).  `distributed/minimal_async_ep/api.py:293-294` promises callers
a readable buffer.  `dispatch` returns a view of one of the two receive buffers, and
the experts' grouped matmul saves that view for the gradients of w1 and w3.  The backward of
`combine` takes the same buffer for the incoming gradients before the
experts' backward reads the view, so the weight gradients pair gradients with
gradients.  The corresponding view on the output side is safe with two buffers
(`SavedOutputIntact`).

**A pull is not awaited on every rank before the next push** (`engine_overtaken`).
`rl/controller.py:969-971` and `rl/components/weight_sync.py:30-32` say of the generator
pull: "Awaited before next push (weights changes then)".  Rank 0 alone holds the future of a pull and
resolves it when its own copy is done (`rl/actors/generator.py:1262`).  A peer
that is a decision behind reads the store later, by then with the weights of the next push, and
samples with weights 2 under the label 1.  The error is on the safe side, and that is
checked and proved (`LabelsNeverAhead`, `LabelsHold`): a peer's weights are never older than
its label, and those of rank 0, whose label is the minimum of a completion, are exactly those
of its label.

### What the code does otherwise

While modelling, these behaviours of the code were met that no run shows as a violation; most are
listed as hazards, with the condition that keeps them out of a property.

* **A run can stall without an error.**  The batcher drops samples longer than
  `seq_len` after the loop has looked for an empty group
  (`rl/components/batcher.py:115-134`), so a group that loses all of them never
  gives its slot back.  Once more than `max_offpolicy_steps * num_groups_per_train_step`
  slots are lost, no batch can be filled, and every loop waits for another.  One group
  costs one slot; a failed push or pull costs those of a step.
* **With `max_offpolicy_steps = 0` a failed push or pull is never raised.**  The value is legal
  (`rl/controller.py:166`).  The failed handoff holds the only slots there are, so
  nothing is admitted, and the trainer, which would await the failed task, waits
  in `training_batch_queue.get()` (`rl/controller.py:994`): the run neither trains nor
  crashes, against "run until training completes or a stage crashes"
  (`rl/controller.py:681`).  Without the words `~WindowHoldsBatch` in `FailureSurfaces`
  TLC prints this for K=0 and one group a step in twenty states: train a step, start the handoff, the push
  fails, save, and nothing more.
* **A rollout of several turns with an empty one ends the run.**  The builder skips a turn
  without tokens only when it is the rollout's only one, and raises otherwise
  (`rl/components/training_sample_builder.py:185-194`); nothing catches it in the batcher
  loop.  The comment there expects empty turns only where the first prompt is too long; a
  generator that answers a later turn with no token gets there too, and `RolloutGroup` does.
* **Some of what a rollout awaits has no timeout**: the environment's `init` and `close`
  and the rubric.  One that hangs stalls the batcher at the head of the buffer.
* **A call after a crash hangs.**  A crash fails the futures it finds, but the
  endpoints only test whether the loop was started (`rl/actors/generator.py:954`),
  so a later call waits until the close, and its rollout with it.
* **A restart on another schedule** may lose the last complete checkpoint:
  `_purge_stale_checkpoints` counts directories without metadata among the
  newest.  With an interval of 2, a crash while step 2 is written, and a restart
  with an interval of 1 and `keep_latest_k = 2`, the save of step 1 deletes step 0 while
  step 1 is still in flight.  `LeftOversHarmless` states the condition; without it TLC
  prints that trace.  On one schedule the resume point is safe (proved).
* **What suspended generators hold is lost on resume**: the rows left in the buffer of
  a finite text dataset (`hf_datasets/text_datasets.py:149` finds no sample left),
  multimodal rows popped but not yet yielded (`hf_datasets/multimodal/mm_datasets.py:398`),
  and which sources of a mixture were exhausted
  (`hf_datasets/interleaved.py:113`, against `docs/datasets.md:164` of the repository, which promises
  identical continuations).  `complete` marks checkpoints that avoid these.
* **`sac_and_offload` under a pipeline** may offload an unsharded parameter put
  together from parts, and `wait_tensor` frees it in the first microbatch
  (`gt/cpu_offload.py:429`).  `MCOptions` leaves this combination out; with it
  `StageGraphsExact` fails.
* **`full` and `eager` memory policies with FSDP under a pipeline** fail when the stage is
  built: the unsharded parameters are recomputed and not saved, and
  `gt/graph_pp/pipeline.py` only rejects the reshard policy "always".
* **An in-place write after the forward's last output** is dropped by the partition
  (`gt/graph_pp/partition.py:302`), and **a parameter the forward does not read** shifts the
  flat indices (`gt/graph_pp/graph_builder.py:295`).  No trace of the model has either.
* **Two gradient slots that are one node** of the backward graph would share the first
  microbatch's tensor, which `+=` then adds to twice (`gt/graph_pp/runner.py:100`).
* **Chunking with the `full` memory policy cannot be scheduled.**  The backward
  recomputes the exchanges that both chunks of a region read, so both chunks claim the same
  nodes and a ready block lists them twice
  (`gt/ep_overlap_pass.py:511-569`); the phases then depend on
  each other in a circle and the sort that follows asserts.  The failure is loud
  and never a wrong graph, which is what `StageGraphsExact` says of this policy;
  under the other policies it says that the schedule succeeds.
* **The sort after bucketing may let counts be read early.**  Of the two copies of the
  token counts to the CPU only the second blocks, and the first is read after it
  (`models/common/token_dispatcher.py:305-317`).  No edge of the graph says so.  The
  depth-first sort (`gt/fsdp_passes.py:371` and `:147`, used
  until PyTorch has `_move_overlap_nodes`) puts the blocking copy first.  The overlap
  schedule chooses anew which copy blocks; without it nothing does, so a plain step may
  read a count that has not arrived.  `SortedCopies` names these graphs, and
  `StepUnchanged` judges them as if every copy blocked.
* **Launches may meet exchanges in the backward.**  A comment says that dense regions
  keep them apart (`gt/fsdp_passes.py:764-768`).  Forward they do, which
  `StageGraphsExact` claims; backward, a recomputed norm of the neighbor's attention
  counts as dense and may stand among that layer's exchanges.
* **A duplicate may be placed after the node it is given to**: a loss-region node that
  reads a recomputed tensor (`gt/selective_activation_remat.py`), and
  a storage whose last reader comes after the first backward node
  (`gt/cpu_offload.py:689`).  The traces have neither.

## 4. Proofs

| theorem | says | for every |
|---|---|---|
| `WeightSyncProofs`, of the work buffer: `Typing`, `Slots`, `Fifo`, `Peak`, `Lifecycle` | types; slots conserved and within capacity; admission order; the peak bounds the gauge; a result is there exactly when FINALIZED | capacity and number of groups |
| `WeightSyncProofs`, of the weight sync: `SyncTyping`, `Stamps`, `Following`, `Monotone` | types; rank 0 of each generator has the weights it stamps and reads no key that is being written; it follows; its version never goes back | set of generators, start step |
| `WeightSyncProofs`, of the window: `Capacity`, `Freshness` | the window is never exceeded; the next batch lags at most K | K, groups per step, start step |
| `AsyncLoopProofs`: `Typing`, `ProtocolsKept`, `SlotAccounting`, `StampsHold`, `GeneratorsKeepUp`, `WindowImplemented`, `NoStaleSamples` | types; the loops call buffer and sync as these expect; so rank 0 of each generator has the weights it stamps, and follows; every slot has a group, a credit or a pending release; the loop implements the window; what the trainer is handed lags at most K | set of generators, K, groups per step, first and last step, how many groups are untrainable or too long, which calls fail |
| `RolloutProofs`, of the router: `Typing`, `LoadAccounting`, `DrainEmpties`, `NoEmptyChoice`, `StickySessions` | types; load counts the calls in flight; a drained generator is empty while it pulls; a call let through finds a server; a session stays with its generator unless that one is not serving or as many other sessions as the map holds came since | number of generators, sessions, strategy, size of the session map |
| `RolloutProofs`, of a group: `GroupTyping`, `TrainedOnceInContext`, `RanksAllBusy` | types; each sampled token is trained in one cell, in the context it was sampled from, nothing else is, and the loss is divided by their number; no rank gets padding only while there are rows for all | number of siblings and turns, lengths, rewards, `seq_len`, rows, ranks, padding multiple; every completion, empty ones included, re-rendered prompt and exception |
| `GeneratorEngineProofs`: `Typing`, `RequestsInOnePlace`, `LoadAccounting`, `StampsCover`, `LabelsHold` | types; no request is lost or handled twice while rank 0 serves; what is reserved is given back once; the versions on a completion bracket those its tokens were sampled under; rank 0's weights are those of its label, a peer's at least as new | number of ranks, requests, burst, token limit, broadcast depth, versions; every choice of rank and every crash |
| `CheckpointProofs`: `Typing`, `NoRegress`, `LossLimit` | types; the resume point never moves back or onto a mixed directory; a crash loses at most the checkpoint under way or just failed and the one due now | set of schedules, `keep_latest_k`, number of steps and starts |
| `DataStreamProofs`: `ResumesExactly` | wherever a run is killed and from whichever checkpoint it goes on, it delivers the rows of the run that is never interrupted, up to the same end | kinds of dataset, samples and lengths, sources and their order, `seq_len`, batch and packing buffer; every draw, every number of checkpoints and restarts |
| `GraphPPProofs`: `HandlersRun`, `GradientsExact`, `LossesOfWholeModel` | no handler raises and each backward is counted once; the optimizer finds every microbatch of every pass exactly once; the losses are of the whole model, a microbatch each in order, with the parameters of the last optimizer step | accepted layout, number of microbatches, sequence of passes; every order of actions that respects the data flow |
| `AsyncEPProofs`, of the receive buffers: `Typing`, `ExchangesAgree`, `SavedOutputStays` | types; each exchange, forward, recomputed and backward, delivers what one rank with all the experts would compute; the output kept for the backward is unchanged when it is read | number of ranks, experts, tokens, top-k, layers, receive buffers (two at least); every routing and every interleaving of writes, signals and reads |
| `AsyncEPProofs`, of the dispatchers: `DispatchersSame` | through the all-to-all exchanges, with padded groups or without, a token sums the expert outputs it sums on one rank; sequence-parallel ranks write each row of the output once, with the token read there | number of ranks, experts, tokens, top-k, padding multiple; every routing; degrees, batches and lengths, where the degree divides the length or there is one sequence |

They rest on the named assumptions of the modules (positive sizes, finite sets,
`NoGroup` not a group, what `Config.__post_init__` accepts) and on nothing else.
Those of the weight sync have theirs as a premise (`SyncAssumption`: a generator at least,
steps in the naturals), because `AsyncLoop`, which uses the module, assumes it of its own
constants.

**OffPolicyWindow.**  `NextBatchFresh` speaks of the next batch only and is not
inductive: a group may be sampled early and wait.  `EveryGroupOnTime` strengthens
it to every position: a group at position i is consumed (i - 1) div G steps from
now, and must be fresh then.  With `WithinWindow`, which bounds i at admission and
sampling (a sample is at least as new as the published version, and the slots
not yet published count against the window), it is inductive.

**AsyncLoop.**  `KeepsProtocols` says that every step of the loop is a step, or a
stutter, of `WorkBuffer` in the environment it allows and of `WeightSync`.  Its
proof needs the slots to be accounted for (the buffer's environment may release
only what has departed), and once it stands the invariants of both components hold
of the loop without a second proof.  What is left of `IInv` is the loop's own:
where each group is between the buffer, the batcher, the ready and the waiting
batches, and which control states of the controller, the trainer and the
generators go together.  The mapping to the window concatenates these places,
oldest first, into one stream: `HeadApart`, `OneDropped` and `ThreeInARow` are what its
steps need of sequences.  A trained batch leaves at the front, a group that is given up
leaves from the middle, a sampled entry changes in place, an admitted one joins at the
end; anything else is a stutter.  `NoStaleSamples` is then `Freshness`, read through the
mapping.

**WeightSync.**  The invariant ties the phases of the two tasks to the versions: what
`store` holds in each phase of the push, and that while a rank 0 reads, the
push is done and the trainer's next one has not begun.  That its premises hold of the
loop is `ProtocolsKept`; with it `StampsHold` and `GeneratorsKeepUp` follow without
another induction.

**GeneratorRouter.**  `RouterInv` adds to the load equation that the serving event
says whether there is a candidate, that a woken call implies a candidate (pulls
start only once woken calls have run), and that a draining or reading generator is
SYNCING and hence takes no call.  `StickySessions` needs to know what the order of the
session map means.  `PinInv` says that every live session was either left behind by
`max_sessions` others, or has a pin in the map with its generator behind which stand only
sessions used since.  When a full map evicts a pin, `max_sessions` distinct sessions stand
behind it, so that many were used since:
that is counted by comparing cardinalities, not by induction on the map.

**RolloutGroup.**  The invariant is small: turn t of sibling i recorded a prompt and the
tokens `CompletionToken(i, t, k)` up to some k (`Turned`), a scored group's rollouts hold
these turns, and samples, rows and batch are what the functions of `BatchPacking` make of them.
What is hard is what those make.  One relation goes through all of
them.  `Sound(samples, said)`: each sample opens untrained and trains something, what a trained
cell shows (its token, logprob, advantage and the tokens before it) was sampled so,
and no token is trained twice; `All`: everything sampled is there.  A turn keeps both
(`GrownSound`) because whether it lengthens the last sample or starts one, the
sample ends up equal to its prompt and completion (`Tells`): the prompt is
compared with all the tokens before, so the shared prefix is the context.  Dropping the long samples keeps
`Sound`, and `All` when there are none (`KeptSound`).  Next-fit puts the samples in rows
in their order, and no row overflows (`PlaceSampleFills`).  In a row each sample stands whole, shifted by one, its
positions from 0, which is how the model finds where its context begins (`RowShows`).  The grid
takes each row once, by division with remainder in both directions (`GridIs`); that
the stride is the number of (microbatch, rank) pairs gives `RanksAllBusy`.  Then counting
trained cells by place, by row and by token are bijections (`ValidTokensCount`,
`BatchTrains`).

**GeneratorEngine.**  The invariant speaks of sets: the requests in the queue, in the
decision, in each decision on its way to a rank, in each engine, in each message on the
port.  That these are apart (`ReservedInv`, `ApartInv`) holds whatever crashes: a
request under way carries the reservation of the rank it goes to, so two ranks cannot
share one, and within a rank the decision, the inbox and the engine are passed through
in order.  Whose caller waits (`CallInv`) does depend on rank 0: as long as it serves,
the futures are exactly the requests that are somewhere, which makes the fan-in find
every future and the load equation survive each release.  The stamps need the order
of the decisions: `Reaches` says that by the time a rank takes its decision i it has
version v, by what it holds, by the pull it is doing or by a pull before i in its inbox,
and `FollowInv` that everything rank 0 has, a peer reaches by the end of its inbox.  So a
request stamped by rank 0 is served under that version or a later one, and the serving
rank's own version, which never goes back, closes the bracket.  `TokenInv` (an unfinished
request has tokens left to take) is there for the types.

**Checkpoint.**  `IndInv` has three parts.  `PurgeInv`: whatever is doomed, being
removed or damaged has two newer directories, so it is not the newest complete
one.  `WriterInv`: what the writer writes and from which copy, in each state of the
loop.  `ScheduleInv`: under an unchanged schedule only the directory due next may
be newer than the resume point, so a left-over is written over before a purge can
count it.  The maximum of a set of steps is obtained from the well-foundedness of
the naturals.  `LossLimit` adds `LossInv`: a step is pending when a save was
due at it, the resume point is older, and no two directories are newer (as they are above
one that a purge took).  While the run lives at most one step is pending, and unless a
save has failed it is the one being written.

**GraphPP.**  The schedule is upstream's and may issue anything the data flow allows, so
the invariant follows each microbatch through each stage.  `OrderInv` is what the
schedule guarantees.  `FlowInv` says that whatever a handler will read is there from the moment
its neighbor has run until the handler itself has: the input or its receive operation,
the saved forward, the saved values of a split backward.  The hand-over is between two views
of where a stage is, upstream's `Home` and the code's `RankStages`; `SameHome` proves that
they agree for every layout the code accepts, looped or V.  `GradInv` and `ParamInv`
say that a bag holds each microbatch exactly once; that a REDUCE_GRAD comes
after the stage's last backward keeps the two ways to reduce, by the schedule or
at the end of the step, from counting one twice.  `IdleInv` is there because a
gradient names its pass, which the optimizer step ends.  For `LossesOfWholeModel` the cut
itself has to be right: a stage's first layer is the sum of the layers of the stages
before it (`FirstLayerIs`), so `SplitModuleIs` gives each stage the next modules and the
stages together all of them, in order.  `PathInv` then says that unsharded values
are of the current version, that what waits for a stage has gone through the
modules before it, and that the losses are those of the first k microbatches.

**AsyncEP.**  No rank ever knows where another is, so the proof has a spatial and a
temporal half.  In space, an exchange is right if the place a sender computes is the
one its receiver expects: both are sums of prefixes of the same table of counts, over
different ranges, and from these it is proved that the two maps (`There`, `Back`) are inverse to
each other, that no two rows share a place, and that all fit the capacity.  In time,
`CountInv` says that the index of a buffer and the counters of its handles count the
operations of the program, and `GateInv` that a rank has passed a barrier only if every
rank has signalled it, which keeps ranks within one operation of each other.
`CountsInv` and `MetaInv` say that the counts which a rank reads are those of its
layer.  `DataInv` joins the halves: what a rank has written for an operation is in its place until
somebody starts the operation that takes the same buffer next.  That one is `BufferCount`
operations later, so nobody is there while a peer still reads.  `BufferCount >= 2`
is an assumption, and a necessary one: with one buffer a rank that is
done could overwrite what a slower peer has yet to read.  The code's constant is two.

`DispatchersSame` is about the routings only, which no step changes, so it needs of the
invariant just their type.  It follows one row: where it lies among the rows sent
(`SentStartIs`: the splits cut the sorted rows at the first expert of each rank), among
those received by source (`Landing`) and among those grouped by expert (`Seat`).
`JourneyIs` says that the exchange and the permutation agree on the three, and
`PermutedOnce` and `PaddedOnce` that no other row, padding included, names its
place, which is what the scatter of `_unpermute` needs.  For the output, `StrideIs`
shows that the shards of a sequence are all of the stride unless there is
one sequence, and then `PlaceIs` that a rank's index is the place that is read: the two
conditions of `SpCases` are what the code relies on.

**DataStream.**  `ResumeExact` compares the rows of a timeline with those seen before, and
says nothing of what will be delivered next.  Its invariant needs the whole future:
`Timeline` is the run that is never interrupted, as a function on the naturals of the
configuration and the draws, and `OnTimeline` says that the run is in one of its
states, `SavedOnTimeline` that what the checkpoint brings back is.  That function exists
(`RunExists`) and grows (`TimelineGrows`) by induction over a set of numbers, from the
well-foundedness of the naturals; that the naturals are well-founded is the library's.  A state of
the run is compared source by source and up to what a restart may change.  A text
source is known by the tokens it has delivered, since a restored one reads on before it cuts
the rows it holds: `SliceFixed` and `TextYields` say that the row does not depend on how far
it has read, and `HasRow` that an epoch's end does not either.  A restored chat source
has its pending sample still to add, but does so before it does anything else.  A restored
multimodal source may be flushing without knowing: its buffer is then empty, so packing it
again changes nothing (`PackedKeeps`, from the two loops of the packer, `ScanRuns` and
`PackRuns`).  What `HoldsMore` says of a checkpoint is exactly what these three need.  `Timeline`
cannot be evaluated, so TLC checks `ResumeExact` and not this invariant.

### Only model-checked

Liveness (`EveryGroupLeaves`, `TrainingCompletes`, `FailureSurfaces`,
`BlockedCallRuns`, `PullEnds`, `CallsAnswered`, `CloseEndsAll`, `NextReturns`, `StepEnds`,
`GroupEnds`) is beyond the prover, as are ENABLED and recursive operators, with which the graph modules
write their passes (`StepUnchanged`, `StageGraphsExact`).  What a recursive function or a fold computes has to be
proved by induction over a set of numbers, one definition at a time.  It is done where
turns become samples and samples rows, where a text row is packed, where a stage's first
layer is found and where prefixes of counts are summed; it is not for `StreamFaithful`,
which counts the tokens of a whole stream.

## 5. Plan

Done, in this order, from the most important behaviour outwards: `WorkBuffer` and
`WeightSync` with their proofs, the abstract `OffPolicyWindow` with its proof,
`AsyncLoop` on top of the three, `GeneratorRouter`, `GeneratorEngine`,
`Checkpoint`; then `DataStream` with its datasets, the dispatchers and
`AsyncEP`, `RolloutGroup` with `BatchPacking`, `GraphPP` with
`StageSplit`, and the graph passes under `StageGraphs`, `FsdpSchedule` last.

Proofs followed the models: `AsyncLoopProofs`, on top of the three it composes, then
`GeneratorEngineProofs`, the router's part of `RolloutProofs` and `CheckpointProofs`, then
`GraphPPProofs`, `DataStreamProofs`, `AsyncEPProofs` and the group's part of `RolloutProofs`.
What may follow is the proof of the one safety invariant outside the graph modules that
is only model-checked: of `DataStream`, that a whole stream holds every token once.

## 6. Not modelled

* *Numerics*: kernels, attention, norms, losses, optimizers, quantization,
  gradient clipping, the model definitions and their state-dict adapters.  What could be wrong
  there is arithmetic over tensors, for which neither TLC nor a set-theoretic
  abstraction says anything a unit test does not.
* *Declarations*: configuration classes, model registries (`models/*/__init__.py`), job
  configurations, and command-line parsing.  They have no run-time state.
* *Drivers of PyTorch internals*: CUDA graphs, Inductor, precompilation, the tracer,
  wrapped modules and meshes.  Their state is PyTorch's.
* *Scripts and tools*: conversion, benchmarks, numerics comparison, CI, documentation.
* *Validation between steps, metrics, tracing, recording.*
* `setup_async` of the controller: spawning meshes, the first push and pull; the model
  starts after it.
* Checkpoints named by an explicit `load_step` (which may overwrite a complete
  directory on purpose), `load_only`, `initial_load_path`, Hugging Face formats.
  The last save returns before the purge, so one directory more than
  `keep_latest_k` remains: modelled, but nothing in the source bounds their number.
  `close()` does not wait for a save in flight: modelled as the loss of that save.
  The RL trainer, which does not wait for staging (`rl/actors/trainer.py:458`).
* The position of the RL dataset, which a checkpoint does not record
  (`rl/controller.py:844`).
* A second pull overwriting the future of the first (`rl/actors/generator.py:1216`): the
  controller never overlaps pulls, which `KeepsProtocols` checks.
* A run in which *every* group is untrainable (`training_sample_builder.py:76`): the loop
  then turns for ever without a step, as its TODO says; `MaxUntrainable` bounds
  such groups.
* Of the graph passes: CUDA graphs and Inductor regions; bucketing of steps without experts,
  where a plan is a whole layer; PyTorch's own `_move_overlap_nodes`; of the dense regions the
  non-strict mode, the guess at the owner of collectives that no bucket names (`gt/fsdp_passes.py:825-880`,
  for old graphs), and gradients of a chunked loss added up in the tail.
  Of EP chunking: casts (they are linear like a view here), arguments that are raw
  symbolic integers, strides and the validation of shapes, eager chunking of
  modules, and process groups of their own for the exchanges.
* DeepEP and HybridEP, which call external libraries.
* Failures inside collectives, the GPU's memory model, and anything of PyTorch, vLLM,
  Monarch or TorchStore beyond what the comments of the modules name as external.

These are most of the repository's lines, and the reason why the map covers a
minor part of them: models, configuration, kernels and scripts alone are well over half,
and in a modelled file the construction of objects, validation of arguments,
logging and metrics stand for nothing in the specification.
