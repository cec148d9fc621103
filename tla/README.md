# Formal models of MP-OPD

TLA+ models, TLC runs and TLAPS proofs for this repository. MP-OPD distils one
student response from several prompt-conditioned views of a frozen teacher; it is
built on the vendored `verl` tree, of which it runs the Ray/FSDP trainer. What is
modelled is the control that MP-OPD adds to that tree, and the parts of the tree whose
correctness depends on the order of events: checkpoints and crashes, collectives across
ranks, and the fully asynchronous recipe.

`PROJECT.json` lists the components, runs, mutants, theorems, hazards, findings and,
for every definition that models code, the source lines it stands for.

## 1. The system

| Component | State | Operations | Interacts with | Hard behaviour | What makes it correct | Module |
|---|---|---|---|---|---|---|
| Trainer checkpointing (`verl/trainer/ppo/ray_trainer.py`, `utils/checkpoint/`) | folders `last`, `best_valid`, `global_step_N`; tracker file; step, dataloader position, best metric | `_save_checkpoint`, `_resolve_resume_path`, `_load_checkpoint`, the loops `fit` and `_fit_mpopd` | every rank writes and reads its shard; the dataloader restores its own position | crash between any two file operations; torn files; ranks that fail to load while others wait in a barrier | a resume never mixes saves; at most one save interval is repeated; `last` is the newest; training ends | `TrainerCheckpoint` |
| Expert packing, scoring, update (`expert_prompt_utils.py`, `fsdp_workers.py`, `dp_actor.py`) | flat expert batch, expert mask, per-rank chunks and micro-batches, scores | `prepare_expert_prompt_inputs`, `prepare_mpopd_log_probs`, `compute_topk_log_probs_on_ids`, `update_policy_mpopd` | ranks meet in every FSDP forward | uneven work per rank, reordering by length, one rank raising | a score returns to its own sample and expert; no rank waits for one that left; nothing non-finite is trained | `ExpertScoring` |
| Target fusion (`core_algos.py`) | none | `build_mpopd_target` | called by the update | placeholders of disabled experts, a clamped divisor | the weights are the softmax over the enabled experts | `ExpertFusion` |
| Message queue (`recipe/fully_async_policy/message_queue.py`) | bounded deque, counters, condition | `put_sample`, `get_sample`, `clear_queue`, `shutdown` | rollouter puts, trainer gets | several sleeping gets, shutdown, overflow | no lost wake-up; the newest samples in order; counters add up | `MessageQueue`, `SampleQueue` |
| Fully asynchronous rollouter, trainer and synchronizer (`fully_async_rollouter.py`, `fully_async_trainer.py`, `param_sync.py`) | queues of samples, active tasks, one asyncio lock and condition, staleness counter, versions | processor, consumer, monitor and main coroutines; `pause`, `update_param_version`, `resume`; `sync_weights`; the training loop | remote calls in both directions, the message queue, the generation servers | coroutines that queue for one lock, state read before an await, interrupted samples, exceptions that nobody awaits, an end of data in the middle of a synchronization | no sample lost or duplicated; bounded staleness; on-policy batches at threshold 0; training ends | `FullyAsync` |
| Schedule and PACE controller, scoring passes (`ray_trainer.py: fit`, `fsdp_workers.py: prepare_opd_log_probs`) | step, weights, PACE state, old log-probs, `meta_info` of each thread | `_get_hetero_update_mode`, `_update_pace_controller`, GRPO and OPD updates, validation, save, resume | every rank's scoring threads issue collectives on one process group | two updates in one step, kill and resume, thread order | the schedule is followed across restarts; PACE sees each reward once; log-probs are of the weights being updated; ranks stay in step | `HeteroTraining` |
| One-step-off-policy recipe (`one_step_off_policy/ray_trainer.py`) | a future of depth one, calls at the rollout workers, dataloader | `_async_gen_next_batch`, `sync_rollout_weights`, `fit` | rollout workers on GPUs of their own, early rewards | the next generation starts before the batch of the last is trained; kill; end of data | weights at most one update old; scores stay with rows; batches in order | `OneStepOff` |
| Agent loop and server choice (`agent_loop.py`, `tool_agent_loop.py`) | heap of request counts, LRU of sessions, the data of each conversation | `_choose_server`, the five states of `ToolAgentLoop` | servers, tools, a simulated user | eviction of a live session, cuts at several lengths | sticky sessions; the mask selects the model's tokens | `ServerChoice`, `ToolAgentLoop` |
| Tools and rate limit (`sandbox_fusion_tools.py`, `base_tool.py`) | semaphore, tool instances | `acquire`, `release`, `execute`, `create` | a named actor shared by all conversations | release by a message nobody awaits | at most `rate_limit` at work, no token lost | `ToolAgentLoop` |
| Partial-rollout servers and agent loop (`fully_async_policy/vllm_rollout/`, `agent_loop/`) | request table, cancel events, the outputs of each response | `generate_for_partial`, `cancel`, `resume`, the continuation of a cut response | rollouter, synchronizer | cancellation racing arrival and completion | a cut response continues where it was cut; its versions bracket it | `PartialRollout` |
| Reward router (`experimental/reward/router/`) | load per worker | `_make_async_request` | reward servers | failing workers | - | not modelled, section 6 |
| DataProto, dispatch, balancing | batches | pad, split, union, reorder, partition | every worker group | padding, permutations | round trips | only what `ExpertScoring` and `OneStepOff` use |
| Data pipeline, launch scripts, docs | none or files | conversion | - | none | - | not modelled |
| Engines (FSDP, vLLM, SGLang, Megatron), teacher rollout worker, other recipes | external or not run by MP-OPD | - | - | - | - | not modelled |

## 2. Modules

### TrainerCheckpoint
`disk` maps each folder to its items (actor directory, data.pt, meta.pt, two shards per
rank: the model, and the optimizer with the extra state, files written and read one after
the other); each item is absent, torn, or holds a `Snap`, the record of what was saved. One
action is one file operation: `RemoveItem` is one entry of `rmtree`, `WriteItem` one
`torch.save`, `OpenTracker`/`FinishSave` the tracker. `Crash` is possible anywhere or,
with `CrashInSave = FALSE`, only outside saves; a crash while a file is being written
leaves it torn. The launch actions follow `_load_checkpoint`: fresh, resume, fallback
after an exception, a failure outside its `try`, and a hang when some ranks raise and
others wait in the barrier. `Loop` selects `fit` or `_fit_mpopd`, which number their
steps differently.

### ExpertScoring
All data-parallel ranks between rollout and optimizer step. A tensor row is a record
naming what it was computed from, so that a misplaced row is visible. `Forward` is a
collective: it fires when every rank has entered a forward of the same policy. Static
micro-batches are cut by size, dynamic ones in any way and any order that respects the
token cap, which covers whatever the balancing algorithm returns; `Restored` is the
inverse permutation. The row-major order of an expert mask is `NonZero`: the places where
the mask holds, `Ascending`, which gives a set's members by their rank rather than by a
recursive selection, so that it can be proved about. The rest of a prompt is two token
counts, because left truncation tells the instruction from the chat. `Result` looks at
what the forward reads: for an expert row the prompt alone.

Each place where a rank raises is an action that ends the job: a tensor wider than the
token cap (`FailWidthAssert`), more micro-batches agreed than rows (`FailCountAssert`), an
expert tensor without room for the response positions (`FailNarrow`), a non-finite target,
before the forward of its micro-batch and on one rank (`FailTarget`), a non-finite loss or a
sample without experts that may not be skipped, after the forward that all ranks joined
(`FailLoss`). A non-finite gradient raises nowhere: `OptimizerStep` drops the mini-batch
(`dropped`).

### ExpertFusion
One token of `build_mpopd_target` in integers: strengths are numerators over a common
scale, and the exponential is a constant function `Exp` of which only positivity is
assumed (the run instantiates it with powers of two). The softmax over the top-k axis and
the reverse KL are left out, their exponentials being irrational. It has operators only;
`ExpertScoring` extends it and looks up in `Averaged` what the fusion under the mask of a
scored sample averages.

### MessageQueue and SampleQueue
The queue actor: every method runs under the lock, and `get_sample` sleeps on the
condition, so that a step of the model is what a coroutine does between two
suspensions. `SampleQueue` is the promise: a FIFO of bounded length that forgets its
oldest element, whose calls return a sample once, or nothing after shutdown.
`IsSampleQueue` says that `MessageQueue` implements it. `FullyAsync` uses the operator
`PutInto` of the same abstract module for its queue.

### FullyAsync and BoundedStaleness
Three processes: the rollouter's event loop, the trainer, and the synchronizer, whose
remote calls run as coroutines of the rollouter.

* `lock` is the FIFO of the asyncio lock: its head holds it. `Enters`, `InLock` are the
  fast path (nobody holds it) or the hand-over to the head; `Enqueue`, `AskLock` queue.
* The processor is `[at, is]`: the statement and whether it runs, is queued for the
  lock, waits for a task while holding it, sleeps on the condition, or was woken. While
  it is "running" it keeps the event loop, so other coroutines fire under `LoopFree`.
  Its three waiting loops (`drain` before a pause, `limit` of concurrency, `finish`
  after "DONE") share `AwaitTask`, `TasksGone` and `Reap`.
* `generating` and `done` together are `active_tasks`: running tasks and tasks that
  finished but have not been taken out.
* `CountLocal` and `CountQueue` are the two halves of `update_param_version` around its
  await; `MonitorLook` and `MonitorResume` the two halves of the monitor around the lock.
  The monitor takes the lock a second time, at the head of its loop to read `running`:
  `MonitorTurn` is that turn when it had to queue, `MonitorPass` the one that finds the lock
  free.
* `SyncWeights` returns to the trainer while `update_param_version` and `resume` still
  run, as `sync_weights` does; `StartSync` first waits for them (`wait_last_valid`).
* `born` is the version of the weights a sample's generation began with: history only.

What it abstracts: no clock (the monitor may look whenever it is asleep, a remote call
takes arbitrarily long); the feeder keeps `pending_queue` non-empty
(`PendingAssumption`: its capacity, 128 in the code, exceeds the concurrency limit, so at
most 7 servers of 16 samples, or a small `max_required_samples`);
`pause` and `resume` reach all servers at once, the lock being held meanwhile; one sample
stands for its `rollout.n` responses; `val_reward_fn` is set, `val_before_train` is true and the initial synchronization is over (`Init`).

Exceptions: `config.faulty` are the samples whose generation (`GenerationRaises`) or
merging (`ConsumerRaises`) may raise. `raised` is an exception that waits in
`active_tasks`: `Reap` meets it and the processor ends, or `PauseDone` swallows it
(`return_exceptions=True`). `Stranded` names the two states which nothing leads out of:
the consumer is dead, or the processor is while the feeder waits for room. `Starved` is a
third, in which the staleness counter is at its limit with less than a batch in flight
(section 5).

`BoundedStaleness` is the promise of the whole recipe, with none of its machinery: samples
are issued in order, at most a window of them is in flight, a sample in flight joins the
batch or is given up for good, a batch of the required size is trained whole, and the
version counts the batches. `IsBoundedStaleness` says that `FullyAsync` implements it under
the mapping `Stream`: in flight is what was taken and neither trained, dropped nor lost,
the window is `max_required_samples` and two. Locks, pauses, cut generations, queues and
the two halves of a synchronization are stuttering steps there.

### HeteroTraining
The weights are the list of the updates that made them, `<<step, kind>>`, and PACE's
state the list of the steps whose reward it absorbed, so that an invariant can compare
the weights' own history with what the schedule means. One action is one statement of
`fit` that changes state, in its order: the deferred validation, old log-probs, PACE,
GRPO, scoring, OPD, save. In `opd_score` the driver waits for the ranks: `Issue(r)` is a
thread of rank r that enters the next collective of its pass, `ForwardRuns` fires when
all ranks are in the same one, and `meta` is the copy of `meta_info` each thread has.
`Crash` and the launch use the state saved; a save is one step here (its files are
`TrainerCheckpoint`).

### OneStepOff
`future` is the batch in generation and the weights that generate it; `calls` is the
queue of the rollout workers, which run copies of weights, validations and generations
in the order submitted. The dataloader is a position in a stream of numbered batches;
drawing may raise, which the code takes for the end of the data. `Balance` permutes rows
and `Reward` takes early scores or computes them. `trained` lists the batches whose step is
done: each trained the critic, and the actor once the warm-up was over (`ActorUpdates`).

### ServerChoice, ToolAgentLoop, PartialRollout, AgentLoops
`ServerChoice` is the state and the operation of `AsyncLLMServerManager`: request counts
that never go down, and an LRU list of (request id, server). Both loops extend it.
`ToolAgentLoop`: a conversation is the record `AgentData`; each of its states is an
action (`Begin`, `Ask` and `Answer`, the tool calls, `ToolsReturned`, `Interact`). A
token is known by its origin only. The bucket is its permits and the releases under way,
since `release.remote` is not awaited; calls reach `acquire` in any order, from threads of
a pool whose size (`num_workers`) delays them and no more. `enable_global_rate_limit` is
on: without it `rate_limit_worker` is `None` and every `execute` raises. `PartialRollout`: a token
is its position, the weights that generated it and whether it ends the response, which
is what a wrong continuation would get wrong; `CancelServer` and `ResumeServer` reach one
server after the other, unlike in `FullyAsync`. `AgentLoops` composes the three: a job
runs one of the two recipes over the same servers.


## 3. Runs

| Run | Instance | What it shows |
|---|---|---|
| `checkpoint_clean` | 2 ranks, 2 epochs of 2 batches, up to 2 crashes between saves | the tracker names whole copies; the last step is saved; at most `save_freq` steps repeat; training ends |
| `checkpoint_midsave` | 2 ranks (symmetric), 2 batches, a save after each, 2 metric values, a crash at any file operation | a folder never mixes saves; weights, step and dataloader come back together; a whole `last` is the newest but for best ones; best metric in memory = on disk; `best_valid` gives way only to a better one |
| `checkpoint_mpopd_end` | `_fit_mpopd`, 4 batches | violation, see section 5 |
| `expert` | 2 ranks of 3 rows, 2 experts, chunks of 3, dynamic micro-batches: all experts enabled, equal counts spread in any way, a target, a loss or a gradient that is not finite, too few pairs on a rank, prompts wider than the token cap and narrower than the response; deltas in -2..2, moderate priors | scores come home; each sample trains once, on its enabled experts; the fused target is the average over these; a non-finite sample never trains; on even loads the ranks meet at every collective and every step ends |
| `expert_uneven` | any masks, static micro-batches | violation, see section 5 |
| `expert_prompt_only` | one batch, every expert enabled | violation, see section 5 |
| `queue` | capacity 2, 4 puts, 3 gets | no lost wake-up, counters; implements `SampleQueue`; shutdown releases every get |
| `async` | five configurations, see below | conservation of samples; implements `BoundedStaleness`; at threshold 0 on-policy batches and no overflow; without partial rollout all samples used and training ends |
| `async_partial_stuck` | partial rollout, threshold 1, batch of 1, 4 samples | violation, see section 5 |
| `hetero` | six set-ups of 2 to 5 steps, 1 or 2 ranks, 2 groups, 2 forwards a pass, 2 crashes | the schedule across restarts; PACE sees each reward once; scores of the current weights; ranks in step; every job ends |
| `one_step_off` | five set-ups of 3 to 6 steps over 3 to 6 batches, 1 error, 2 crashes | weights at most one update old; scores with their rows; batches in order; recent validation; every run ends |
| `agent_loop` | 3 servers, cache of 2; tools: 2 or 3 conversations, responses of 3 tokens; partial rollout: 2 responses of 2 tokens, 2 synchronizations or early submissions | mask, bucket, continuation, versions, sticky sessions; every loop ends |

Bounds. Two ranks are enough for one to wait for another and for one to differ from the
rest; two experts and three rows for an order to be wrong at a boundary of sample,
expert, chunk and rank at once. In `expert` clean rows are padded to 5 tokens of prompt and
2 of response, just within the token cap of 7; expert prompts are cut to a budget of 8, so
that the longest exceed the cap and the shortest are no longer than a response. In `checkpoint_clean` the second crash hits what the first
one's resume did; in `checkpoint_midsave` one crash is enough to meet every half-written
folder, and what it checks is proved for any number of crashes (section 4).
Three gets let one be woken and find its sample taken by another while a third sleeps.

The configurations of `async`: threshold 0 with batches of 2, 2 per synchronization and
9 samples (two synchronizations and a last, incomplete batch); threshold 0.5 with one slot
and 7 samples in batches of 2, in which the pipeline fills, drops a sample, synchronizes
and fills again, and the rollouter starves; partial rollout in an instance in which the
deadlock of `async_partial_stuck` does not occur, since the conservation of samples does
not depend on it; and a faulty sample, once with a feeder that is done by then (the run
ends early, or goes on without the sample) and once with one that is not (it strands).

`hetero` has a set-up for each `update_mode` and PACE source; 4 or 5 steps are more than
one cycle of the schedule, and two crashes let a resumed run be killed again. Two
forwards a pass suffice for ranks to be in different passes. In `one_step_off` the stream
ends at, before and after the last step, in its first and in its second epoch. In
`agent_loop` three conversations exceed the cache of two; three tokens of response are
cut inside an answer of the environment and at its end; three servers let a cut response
go on at a server that is still paused, or already resumed, while another is not.

Fairness. `TrainerCheckpoint`, `HeteroTraining`, `OneStepOff`: weak fairness of the driver
with its launches and of the workers, not of crashes or errors; a killed job is launched
again. `ExpertScoring`: weak fairness of `Work`, everything but the arrival of the next
batch: the workers and the driver keep running.
`MessageQueue`: weak fairness of each get's step, asyncio runs a ready coroutine.
`FullyAsync`: weak fairness of each coroutine and process: the lock and the loop are
FIFO, the remote calls end, generation ends; exceptions are not fair. Weak fairness of
the monitor's look is what `check_interval` gives. `AgentLoops`: weak fairness of the
conversations, of the synchronizer once it has begun, and of the servers; when a
synchronization begins is free. Nothing needs strong fairness.

Deadlock is checked wherever the system may not stop; `CHECK_DEADLOCK FALSE` is set where
the end of training, a raised exception or a shut-down queue is a legal end without a
stuttering step. In the other modules the legal ends stutter (`Over`, `Ended`), those of
`FullyAsync` including `Stranded`, where the monitor goes on looking.

Mutants. Every property of a passing run has a mutant: a definition of the model replaced
by what a plausible bug would make of it (`ShouldPauseLate`, `ForgetPace`,
`EndsUnjoined`, ...), under which TLC finds that property violated. They stand next to
the definition they change and are used by nothing else.

## 4. Proofs

| Module | Theorem | What it states | For all |
|---|---|---|---|
| `TrainerCheckpointProofs` | `TypeCorrect` | types | ranks, batches, epochs, frequencies, metrics, crashes at any point |
| | `FilesNeverMix`, `ResumeRestoresOneSave` | `FilesOfOneSave`, `RestoredTogether` | the same |
| | `BestMetricMatchesDisk`, `BestReplacedByBetter` | `BestMatchesDisk`, `BestOnlyImproves` | the same |
| | `LastNewest` | `LastIsNewest` | the same |
| | `TrackerNamesWholeCopies` | `TrackerNamesComplete` | crashes between saves |
| | `FitSavesLastStep` | `LastStepSaved` | `fit`, crashes between saves |
| | `ResumeRepeatsOneInterval` | `ResumeLosesOneInterval` | `fit` without a best metric, crashes between saves |
| `ExpertScoringProofs` | `ScoresComeHome` | `OwnScores` | ranks, rows, experts, masks, chunk and micro-batch sizes, ways to split |
| | `EachSampleTrainsOnce` | `TrainedOnEnabledExperts` | the same, and mini-batch sizes |
| | `NonFiniteNeverTrained` | `OverflowNeverTrained` | the same |
| | `ScoredBatchAveragesEnabled` | `FusedOverEnabled` | the same, deltas and exponentials; moderate priors |
| | `EvenRanksMeetAlways` | `EvenRanksMeet`: on even loads no rank waits for another that meets something else | the same, and token counts and caps |
| `ExpertFusionProofs` | `FusionAveragesEnabled` | under a mask the fused delta is the average over the enabled experts | experts, masks, deltas, exponentials; moderate priors |
| | `FusionWithinEnabled` | the divisor is positive, and the fused delta is not larger than the largest enabled delta | the same, any prior and clamp |
| `MessageQueueProofs` | `TypeCorrect`, `OldestDropped` | types and capacity; the newest samples in order | getters, capacities, puts |
| | `NoCallSleepsInVain`, `Accounted` | `NoLostWakeup`, `CountersAddUp` | the same |
| | `Implements` | `IsSampleQueue` | the same |
| `FullyAsyncProofs` | `SamplesNeitherLostNorDoubled` | `EverySampleOnce` | configurations, exceptions included |
| | `StalenessBoundsInFlight` | `InFlightBounded` | the same |
| | `AsyncIsBoundedStaleness` | `IsBoundedStaleness` | the same |
| | `NoSampleLeftBehind` | `AllSamplesUsed` | the same |
| | `DoneTasksBound` | `done_tasks` is bound whenever the processor takes the lock after waiting for it | the same |
| | `ThresholdZeroIsOnPolicy` | `OnPolicy` | batch sizes, trigger steps, slots, partial rollout or not |
| | `ThresholdBoundsLag` | without partial rollout, (`current_param_version` - version of a trained sample - 2) * samples per version <= `max_required_samples` + 2 | thresholds, batch sizes, trigger steps, slots |
| `HeteroTrainingProofs` | `RanksStayInStep` | `RanksInStep` | set-ups, ranks, groups, forwards, crashes |
| | `WeightsAreScheduled` | `WeightsFollowSchedule` | the same |
| | `ScoresAreCurrent` | `ScoredByCurrentWeights` | the same |
| | `PaceAbsorbsOnce` | `PaceSeesEachStepOnce` | the same |
| `OneStepOffProofs` | `TypeCorrect` | types | set-ups (data, frequencies, warm-up), errors, crashes |
| | `OneStepBehind` | `AtMostOneUpdateBehind` | the same |
| | `OwnScores` | `ScoresOfOwnRows` | the same |
| | `StreamKeptInOrder` | `BatchesInOrder` | the same |
| | `ValidationsAreRecent` | `ValidationRecent` | the same |
| `AgentLoopsProofs` | `RateLimitKept` | `TokensKept` | conversations, parallel calls, limits |
| | `MaskIsTheModels` | `MaskSelectsModel` | lengths, turns |
| | `SessionsAreSticky` | `StickySessions` | servers, cache sizes, jobs of both recipes |
| | `ContinuationsJoin` | `ContinuationExact` | response lengths, cuts |
| | `VersionsBracketTokens` | `VersionsBracket` | servers, synchronizations |

Every safety invariant and every action property that a passing run checks is stated by a
theorem. `FusionAveragesEnabled` and `ScoredBatchAveragesEnabled` assume `ModeratePriors`: the least prior keeps the mass of
one enabled expert above the clamp although all others are disabled; with smaller ones TLC
finds weights that no longer sum to one. The premises of the last three theorems about
checkpoints are needed, TLC refutes each property without them: a crash inside a save leaves the tracker naming a
torn folder; after one, a resume may restore the dataloader's position but, `meta.pt` being
torn, not the step number, and the batches run out before the last step; `_fit_mpopd` runs
out of them anyway (section 5); and with a best metric auto-resume may start from an older
`last` than the newest save.

### Arguments

*Checkpoints.* `FilesOfOneSave` is not inductive; `FilesInv` adds `SaveShape` (a running
save holds the state the driver has) and `WritesFresh` (while a folder is being cleared
nothing of the running save is in it, afterwards nothing else), so that a write never
meets an older file. `BestInv` relates the metric in memory to `meta.pt` and to the phase
of a save of `best_valid`; `NewestInv` says that nothing in memory or on disk is newer
than what a save of `last` will write. With crashes between saves, `CleanInv` says that
every folder is absent, whole, or the one being written, that the tracker is written after
the copy it names, and that no rank hangs. `Counted` then relates the step number to the
batches in the weights, and says that only a finished job has a whole folder of the last
step; `OneInterval` that every save goes to `last`, at a multiple of the interval, and
that the weights are less than an interval ahead of it.

*Scoring.* `Home` has a part for the shapes, a part for the phase of the step (before
dispatch nothing has trained, after it the board holds each sample's own row), and for
each rank what the pass has done: the scores of finished passes are those of its rows
(`Kept`), the scores of the running chunk are those of the indices that ran, whatever
their order (`Chunk`), finished chunks and the chunks left are consecutive pieces of the
rows of the pass (`ScoresOut`), and in an update the rows behind the optimizer are the
first ones (`RowsTrained`). `Restored` undoes any order because the indices that ran are a
permutation when the chunk ends. `OverflowNeverTrained` rests on the checks before backward
and, for a gradient, on the mini-batch that holds it being dropped whole.

`EvenRanksMeet` is the safety half of `EveryStepEnds`: ranks that always meet at the same
collective cannot block each other. Its invariant `March` names for every rank the
collective it meets next, whatever it still does by itself before (`NextCall`: a forward of
a pass with so many chunks and micro-batches left, an agreement on their number, an
optimizer step, or the end of the call), says that the pieces left have the sizes of the
pass (`Sized`), and on even loads that all ranks meet the same next (`Abreast`). A step of
one rank leaves its `NextCall` as it is (`Alone`); a collective moves all ranks to the same
one. It needs that the flat rows of a rank are as many as its enabled pairs, counted by
place and by row and expert (`LoadIsPairs`), that a chunk ends exactly when each of its
rows has run once (`RunOnce`), and that every rank asks for at least one micro-batch and at
most one per row: a sum of positive token counts is positive, by well-founded induction on
the recursive function `TotalTokens` (`TokensCounted`). Without even loads `RanksMeet` is
false (`expert_uneven`, section 5).

*Fusion.* The sums are folds over the set of experts. `SumsExist` builds them as a function
on the subsets of the experts by well-founded induction on strict inclusion, in the form of
the library that speaks of a set of counterexamples (`SmallestSubset`) and needs no operator
parameter; `AlongFold` says that adding an expert adds its term, and with it sums are linear
(`TotalScaled`, `TotalAdded`), monotone (`TotalOrdered`) and bounded. `Placeholders` bounds
what the zero logits of the disabled experts can weigh; with moderate priors the clamp then
never bites, and numerator and denominator have the same factor.

*Queue.* The type invariant bounds the length; a sleeping get implies an empty, open queue
because every put and the shutdown notify all; the counters are preserved action by
action; each step is a step of `SampleQueue` under the mapping or leaves it unchanged.

*Fully asynchronous.* `Flow` is `EverySampleOnce` with the types, `Locked` (a coroutine
that awaits inside the lock is the one that holds it) and `HandFits` (the processor has a
sample exactly at the statements between taking and submitting it). `Counting` bounds what
is in flight by `staleness_samples` and two; between the two reads of
`update_param_version` nothing that counts as local may grow beyond what was counted.
`Ending` says that everything is handed over and drained before the end signal is sent,
and that the signal is the last element of the queue. `Unreaped` is the reason why
`done_tasks` is bound: until it first waits for a task the processor gives the event loop
to nobody (`FirstRun`), so that it cannot be queued for the lock, and a wait that has ended
binds the variable.

*Bounded staleness.* Each step is mapped by what it does to the samples. `OneStage`, read off
`EverySampleOnce`, says that what is generated, merged, queued or put is in flight, and that
what left the pipeline had been taken; hence a failure or an overflow gives up a sample in
flight (`Abandon`), and taking the next one adds a new member (`TakeIssues`), within the
window because `Counting` holds afterwards. `Batches` is `Paced`, kept until the trainer meets
the end of the data: it collects only below the required size and trains only at it.

*On policy at threshold 0.* The samples of one synchronization are a window of the stream.
`Windows` says that `staleness_samples` counts those taken in the current window, that
earlier windows are trained, and that at a synchronization everything taken is; `Born` that
a generated sample bears the version of its window; `Fits` that the queue never overflows,
not even for the end signal.

*Version lag at any threshold.* A sample is trained in the place it has in the stream of the
queue, and every version consumes `required_samples` * `trigger_parameter_sync_step` places
(`Paced`). When a generation ends its place is fixed: what is trained and what is in flight
before it, which `InFlightBounded` limits. Without partial rollout a generation cannot
outlive the pause of the next synchronization, so its weights are at most one version
behind the rollouter's then (`Ages`). `InTime` says of every sample from `result` to
the batch that its place is early enough for the version it bears; a full queue that drops
its oldest element only brings later ones forward. The bound is not claimed to be
tight. With partial rollout a sample may be cut at every
synchronization, and the argument says nothing of the version its generation began with.

*Heterogeneous schedule.* `Weights` relates the history in the weights, in memory and in
the save, to what the schedule means for the steps before, at each statement of `fit`.
`Absorbing` does the same for PACE: its state is the ascending list of the steps due so
far. `Scored` says of which weights the log-probs in memory are. For the ranks, `InStep`
says that without threads all ranks have the same forwards left, that a waiting rank waits
in a pass that is next, and that nobody waits outside the scoring; the next pass of ranks
with equal work is the same one (`OneRunnable`), and `Marked` that the meta information of
a begun pass is its own.

*One step off.* That the batch in training is at most one update old depends on which
weights the future was launched with, and those on what the workers' queue held then. The
inductive invariant `Inv` has four parts: `Typed`; `Counted`, one update per finished step;
`CallsAt`, what the queue can hold at each statement of `fit` (a copy of the weights is
never behind a generation); `Behind`, how old the weights of the future and of the
current batch may be there. The other theorems add `Rows` (how the rows and their scores
are permuted), `Ahead` and `Streamed` (the dataloader is ahead of what was trained by the
future and a batch per restart; what was trained is sorted) and `Recent` (the weights a
validation in the queue will measure).

*Agent loops.* `Calling` says that a conversation has calls only while their results are
processed, and that permits, releases and running calls add up; a call that changes its
state leaves every other as it is (`OneCall`). `Aligned` says that mask, tokens and log-probs have one length and
agree place by place, in every state of the conversation. `Sticky` says of a session that
it is in the LRU list with at most as many behind it as had a turn since its own, or else
that `CacheSize` others had. `Continued` says that the pieces of a response are consecutive,
that a piece in a server is the next one, and that its versions bracket its tokens, using
that no server generates while weights are copied.

Assumptions are the named `ASSUME`s of each module, which TLC evaluates in every run.

Only model-checked: liveness (`TrainsToTheEnd`, `EveryStepEnds`, `ShutdownReleases`,
`TrainingEnds`, `EveryJobEnds`, `EveryRunEnds`, `EveryLoopEnds`; fairness and ENABLED are
out of the prover's reach). Lists that the scoring proofs are about are given by their
elements.

## 5. Findings and observations

Four runs end in a violation: TLC refutes there what a comment, a document or a test of
the repository says.

* `checkpoint_mpopd_end`: a resumed `_fit_mpopd` runs out of batches before its last step
  and skips the final save.
* `expert_uneven`: disabled experts give ranks different numbers of collective forwards.
* `expert_prompt_only`: `expert_input_ids` are the prompt alone, and the forward reads
  nothing else, at its last positions. The experts score a response's top-k ids at
  positions of the prompt, without the response.
* `async_partial_stuck`: a monitor resumes the processor while the servers are paused;
  partial rollout then fills `cancel_queue` up to the staleness limit, the processor
  pauses before it looks there, and nobody resumes it.

Other behaviours of the code that the models contain and that set the limits of the
properties above:

* After a load that fails on a torn optimizer shard (`LaunchFallback`) the step restarts
  at 0 but the model shards are already loaded. When only some ranks fail the others wait
  in the barrier (`LaunchHangs`); a torn tracker or `best_valid/meta.pt` raises outside
  the `try` (`LaunchFails`).
* With a best metric, auto-resume prefers an older `last` to the newer `best_valid`,
  hence the exception in `LastIsNewest`.
* Left truncation (`LeftCut`) cuts the expert's instruction when it alone exceeds the
  budget. A non-finite target ends the job (`FailTarget`) instead of costing one
  micro-batch. A whole batch of expert prompts no longer than the response ends it too
  (`FailNarrow`).
* With priors so small that the enabled experts' mass falls under the clamp next to a
  disabled one's placeholder, the weights no longer sum to one: `Expert.cfg` uses
  moderate priors for that reason.
* With a threshold above 0 the monitor may resume generation while weights are copied.
* The staleness counter misses the sample in the processor's hand and the one being put;
  `InFlightBounded` says that the excess is at most two.
* The sum of `update_param_version` can count one sample three times: its task is done but
  not yet taken out, it is in `result_queue`, and by the time the queue answers it is in the
  message queue as well. The rollouter may then sleep at its limit with less than a batch
  in flight, and the trainer waits for samples that nobody generates: `Starved`, which
  `TrainingEnds` names. `StaleConfig` reaches it. It is not listed as a finding: the model
  lets a generation end between the hand-over of the lock and the waiter's next step,
  and asyncio's ready queue may not allow every such order.
* Under partial rollout, samples interrupted after "DONE" are never generated, so
  `AllSamplesUsed` is checked without it.
* The final metrics the trainer reads can be those of an earlier version.
* A generation that raises is noticed by whoever awaits its task first: `pause()` drops
  the exception and the sample; the processor ends, and the run with it, reporting
  success, or, when more prompts are left than `pending_queue` holds, it waits for the
  feeder for ever. An exception in the consumer is seen by nobody: the run waits in
  `result_queue.join()`, or paused before that.
* GRPO trains on as many groups as happen to be mixed; when `student_rollout_n` is not a
  multiple of the ranks, some counts make `DataProto.chunk` end the job, hence the
  premise of `EveryJobEnds`.
* With `pace_reward_source=validation` and alternating updates, PACE sees only the
  validations that fall on an OPD step, which may be none; `Due` says so. A run resumed
  with PACE off and later on again starts from the initial PACE state.
* `opd_parallel_student_base` on several ranks lets ranks issue collectives in different
  orders, as a comment there knows: `RanksInStep` excludes it.
* With `balance_batch` and `launch_reward_fn_async` together, one-step-off training gives
  responses the scores of others: `ScoresOfOwnRows` excludes it.
* A resumed one-step-off run skips the batch that was generated ahead. In its first epoch
  it is then a batch short and ends without its last save; `EveryRunEnds` asks for a
  stream that is longer by a batch per restart. An exception of the dataloader ends the
  run as a success. Its validations measure weights that lack the update just made, at
  the last step two, and after a resume the first one measures weights not yet restored.
* A conversation's session is forgotten when `max_cache_size` others had a turn
  meanwhile, and request counts never go down, so that an id that returns counts twice.
  A continued partial response has a new request id and may change servers.
* The simulated user's answer is not held to the response length: the next generation
  can get a prompt that is too long and raise (`EveryLoopEnds` names it).
* A request cancelled before its first token leaves its entries in the server's tables.

## 6. Not modelled

* *Message queue client and driver of the fully asynchronous recipe*: set-up, and a wait
  for two actors. The client forwards calls to the queue actor.
* *Reward router*: an experimental HTTP proxy that no script of MP-OPD starts. Its state
  is a count per worker, which a failed request never lowers.
* *Teacher rollout worker*: dead code, `teacher_rollout_wg` is `None` throughout.
* *DataProto, dispatch, balancing*: pure functions on tensors. The models use what the
  trainer relies on, splitting, joining, the agreement on micro-batches and inverse
  permutations, for any partition; how well a partition balances is a question of speed.
* *Checkpoint managers beyond saving and loading*: rotation is not used by this trainer;
  HDFS and Megatron formats.
* *Engines*: bindings and kernels of external systems, an external step in the models.
* *Data pipeline, scripts, documents, the other recipes of verl*: no state, or not run.

Within modelled components: floating-point arithmetic (softmax over the vocabulary, loss,
moments of PACE, sampling), the padding of agent outputs, rewards of tools, images,
exceptions of the engine, set-up and logging. `FullyAsync` assumes that `pending_queue`
is never found empty (`PendingAssumption`). That `done_tasks` is then bound when the
processor first uses it is the theorem `DoneTasksBound`; `TasksGone` follows the code in
both cases.

## 7. Plan

1. `FullyAsync`: a sharper version lag (that of `ThresholdBoundsLag` may be about one
   version wide) and what remains of it with partial rollout, for the version the last
   piece of a sample was generated with; mutual exclusion of the lock as a theorem of its
   own.
2. `TrainerCheckpoint`: what a best metric leaves of `ResumeLosesOneInterval` (the interval
   between two saves to `last`), and what a crash inside a save leaves of
   `TrackerNamesComplete` (the folder it tore is the one whose save had begun).
3. `ServerChoice`: the request counts relate to the calls made.
