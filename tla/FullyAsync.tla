----------------------------- MODULE FullyAsync -----------------------------
(***************************************************************************)
(* The fully asynchronous policy (recipe/fully_async_policy): a rollouter  *)
(* that generates samples one by one, the message queue, a trainer that    *)
(* consumes them, and the parameter synchronizer between the two.          *)
(*                                                                         *)
(* The rollouter is one asyncio event loop.  Its coroutines (processor,    *)
(* consumer, monitor, generation tasks, and the remote calls pause,        *)
(* update_param_version and resume) interleave only where one of them      *)
(* suspends, so every action of a coroutine other than the processor is a  *)
(* whole run from one suspension to the next, and the processor, which is  *)
(* split more finely, keeps the loop while it is "running".  The trainer,  *)
(* the synchronizer and the queue are other processes.                     *)
(***************************************************************************)
EXTENDS Integers, Sequences, FiniteSets

CONSTANT Configs   \* the configurations a run may have

Config == [total : Nat \ {0},     \* total_rollout_steps: samples fed before "DONE"
           pending : Nat \ {0},   \* capacity of pending_queue
           required : Nat \ {0},  \* required_samples: ppo_mini_batch_size * require_batches
           trigger : Nat \ {0},   \* trigger_parameter_sync_step
           stale : Nat,           \* staleness_threshold, in percent
           slots : Nat \ {0},     \* 16 * the number of generation servers
           partial : BOOLEAN,     \* partial_rollout
           testFreq : Nat,        \* rollout.test_freq, 0 for never
           faulty : SUBSET Nat]   \* samples whose generation or merging may raise

ASSUME ConfigsAssumption == Configs \subseteq Config

VARIABLES
  config,     \* the configuration, chosen at the start
  \* the rollouter
  lock,       \* self.lock: the holder, then the coroutines queued for it
  paused, monitor_loop_trigger, staleness_samples,
  taken,      \* items taken from pending_queue
  hand,       \* what the processor took and has not submitted, 0 for nothing
  generating, \* samples whose task in active_tasks still runs
  done,       \* how many tasks in active_tasks are done and not yet taken out
  result, cancel,  \* result_queue and cancel_queue
  cons,       \* the sample whose put_sample the consumer awaits, 0 for none
  raised,     \* a task that is done and not yet taken out ended with an exception
  proc, bound,     \* the processor, and whether its variable done_tasks is bound
  mon, main,       \* the monitor and the main coroutine
  \* the generation servers
  serving, weights,
  \* the message queue
  mq, val_queue,
  \* the synchronizer, and the sum update_param_version has computed so far
  sync, counted,
  \* the trainer
  trainer, batch, local_trigger_step, current_param_version, val_data,
  \* history: weights a sample's generation started with; trained; dropped by the
  \* queue; given up because of an exception
  born, trained, dropped, lost

rollVars  == <<lock, paused, monitor_loop_trigger, staleness_samples>>
failVars  == <<raised, lost>>
flowVars  == <<taken, hand, generating, done, result, cancel, cons, born, failVars>>
procVars  == <<proc, bound>>
taskVars  == <<mon, main, config>>
queueVars == <<mq, dropped>>
syncVars  == <<serving, weights, sync, counted, val_queue>>
trainVars == <<trainer, batch, local_trigger_step, current_param_version, val_data, trained>>

vars == <<rollVars, flowVars, procVars, taskVars, queueVars, syncVars, trainVars>>


Queue == INSTANCE SampleQueue WITH
  Getters <- {}, Capacity <- 1, None <- 0, NoAnswer <- 0,
  queue <- mq, put <- 0, open <- TRUE, answer <- <<>>

Total    == config.total
Required == config.required
Trigger  == config.trigger
Partial  == config.partial

Samples == 1 .. Total
DONE    == Total + 1       \* the end signal of pending_queue
End     == 0               \* the sample None that ends the message queue
Nothing == 0
Unborn  == -1              \* nothing was generated yet
Dead    == -1              \* the consumer after an exception

AnySample == UNION {1 .. c.total : c \in Configs}

\* max_required_samples, which is also max_queue_size
MaxRequiredOf(c)   == (c.required * c.trigger * (100 + c.stale)) \div 100
MaxConcurrentOf(c) == IF c.slots < MaxRequiredOf(c) THEN c.slots ELSE MaxRequiredOf(c)
MaxRequired        == MaxRequiredOf(config)
MaxConcurrent      == MaxConcurrentOf(config)

\* The processor never finds pending_queue empty between two turns of the feeder.
ASSUME PendingAssumption == \A c \in Configs : MaxConcurrentOf(c) < c.pending

NoVal == [version |-> -1, metrics |-> FALSE]

\* After the initial synchronization; the trainer has read its validation.
Init ==
  /\ config \in Configs
  /\ lock = <<>> /\ paused = FALSE /\ monitor_loop_trigger = TRUE /\ staleness_samples = 0
  /\ taken = 0 /\ hand = Nothing /\ generating = {} /\ done = 0
  /\ result = <<>> /\ cancel = <<>> /\ cons = Nothing
  /\ proc = [at |-> "top", is |-> "running"] /\ bound = FALSE
  /\ mon = "asleep" /\ main = "run"
  /\ serving = TRUE /\ weights = 0 /\ mq = <<>> /\ val_queue = <<>>
  /\ sync = "idle" /\ counted = 0
  /\ trainer = "collect" /\ batch = {} /\ local_trigger_step = 1 /\ current_param_version = 0
  /\ val_data = [version |-> 0, metrics |-> TRUE]
  /\ born = [s \in Samples |-> Unborn] /\ trained = {} /\ dropped = {}
  /\ raised = FALSE /\ lost = {}

-----------------------------------------------------------------------------
(* The event loop and its lock: FIFO, the head holds it. *)

LoopFree == proc.is # "running"

Holds(c) == lock # <<>> /\ Head(lock) = c

\* A section without an await: the lock is free again when it ends.
Unlocked == IF lock = <<>> THEN <<>> ELSE Tail(lock)
\* A section that keeps the lock across an await.
Kept(c)  == IF lock = <<>> THEN <<c>> ELSE lock

\* Mutant: nobody is notified.
NotifyNobody == proc

\* condition.notify_all: only the processor ever waits.
Notified == IF proc.is = "asleep" THEN [proc EXCEPT !.is = "woken"] ELSE proc

\* Mutants: one sample late; by the length of the queue alone.
ShouldPauseLate == Len(mq) > MaxRequired \/ staleness_samples > MaxRequired
ShouldPauseFull == Len(mq) >= MaxRequired

ShouldPause == Len(mq) >= MaxRequired \/ staleness_samples >= MaxRequired

-----------------------------------------------------------------------------
(* The processor.  proc.at is the statement it is at, proc.is whether it   *)
(* runs, is queued for the lock, waits for a task while holding it, sleeps *)
(* on the condition or was woken from it.                                  *)

At(site)   == proc = [at |-> site, is |-> "running"]
GoTo(site) == proc' = [at |-> site, is |-> "running"]
Crashed    == [at |-> "crashed", is |-> "ended"]

Enters(site) == \/ (At(site) \/ proc = [at |-> site, is |-> "woken"]) /\ lock = <<>>
                \/ proc = [at |-> site, is |-> "queued"] /\ Holds("processor")

ReapSites == {"drain", "limit", "finish"}

ActiveTasks   == Cardinality(generating) + done
Looping(site) == IF site = "limit" THEN ActiveTasks >= MaxConcurrent ELSE ActiveTasks > 0
After(site)   == CASE site = "drain" -> "idle" [] site = "limit" -> "submit"
                     [] site = "finish" -> "returned"

Enqueue(site) ==
  /\ \/ At(site) /\ (site \in ReapSites => Looping(site))
     \/ proc = [at |-> site, is |-> "woken"]
  /\ lock # <<>>
  /\ lock' = Append(lock, "processor")
  /\ proc' = [at |-> site, is |-> "queued"]
  /\ UNCHANGED <<paused, monitor_loop_trigger, staleness_samples, bound>>
  /\ UNCHANGED <<flowVars, taskVars, queueVars, syncVars, trainVars>>

PauseSeen ==
  /\ At("top") /\ (paused \/ ShouldPause)
  /\ GoTo("pause")
  /\ UNCHANGED <<bound, rollVars, flowVars, taskVars, queueVars, syncVars, trainVars>>

SetPaused ==
  /\ Enters("pause")
  /\ paused' = TRUE /\ lock' = Unlocked
  /\ GoTo("drain")
  /\ UNCHANGED <<monitor_loop_trigger, staleness_samples, bound>>
  /\ UNCHANGED <<flowVars, taskVars, queueVars, syncVars, trainVars>>

\* Mutant: the sample stays in cancel_queue.
PeekCancelled ==
  /\ At("top") /\ ~paused /\ ~ShouldPause /\ cancel # <<>>
  /\ hand' = Head(cancel)
  /\ GoTo("limit")
  /\ UNCHANGED <<cancel, taken, generating, done, result, cons, born, failVars, bound>>
  /\ UNCHANGED <<rollVars, taskVars, queueVars, syncVars, trainVars>>

TakeCancelled ==
  /\ At("top") /\ ~paused /\ ~ShouldPause /\ cancel # <<>>
  /\ hand' = Head(cancel) /\ cancel' = Tail(cancel)
  /\ GoTo("limit")
  /\ UNCHANGED <<taken, generating, done, result, cons, born, failVars, bound>>
  /\ UNCHANGED <<rollVars, taskVars, queueVars, syncVars, trainVars>>

\* The feeder refills pending_queue whenever it has room, so that an item is there.
Take ==
  /\ At("top") /\ ~paused /\ ~ShouldPause /\ cancel = <<>>
  /\ hand' = taken + 1 /\ taken' = taken + 1 /\ staleness_samples' = staleness_samples + 1
  /\ GoTo(IF hand' = DONE THEN "finish" ELSE "limit")
  /\ UNCHANGED <<lock, paused, monitor_loop_trigger, generating, done, result, cancel>>
  /\ UNCHANGED <<cons, born, failVars, bound, taskVars, queueVars, syncVars, trainVars>>

LoopEnds(site) ==
  /\ At(site) /\ ~Looping(site)
  /\ proc' = [at |-> After(site), is |-> IF site = "finish" THEN "ended" ELSE "running"]
  /\ hand' = IF site = "finish" THEN Nothing ELSE hand
  /\ UNCHANGED <<bound, taken, generating, done, result, cancel, cons, born, failVars>>
  /\ UNCHANGED <<rollVars, taskVars, queueVars, syncVars, trainVars>>

AwaitTask(site) ==
  /\ Enters(site) /\ (At(site) => Looping(site)) /\ ActiveTasks > 0
  /\ lock' = Kept("processor")
  /\ proc' = [at |-> site, is |-> "waiting"]
  /\ UNCHANGED <<paused, monitor_loop_trigger, staleness_samples, bound>>
  /\ UNCHANGED <<flowVars, taskVars, queueVars, syncVars, trainVars>>

\* active_tasks became empty while the processor was queued for the lock; "for task in
\* done_tasks" then uses the tasks of an earlier round, or an unbound variable.
TasksGone(site) ==
  /\ Enters(site) /\ ~At(site) /\ ActiveTasks = 0
  /\ lock' = Unlocked
  /\ IF bound THEN GoTo(site) ELSE proc' = Crashed
  /\ UNCHANGED <<paused, monitor_loop_trigger, staleness_samples, bound>>
  /\ UNCHANGED <<flowVars, taskVars, queueVars, syncVars, trainVars>>

\* "await task" raises what the task raised.
Reap(site) ==
  /\ proc = [at |-> site, is |-> "waiting"] /\ done > 0
  /\ done' = 0 /\ bound' = TRUE /\ raised' = FALSE
  /\ lock' = Tail(lock)
  /\ IF raised THEN proc' = Crashed ELSE GoTo(site)
  /\ UNCHANGED <<paused, monitor_loop_trigger, staleness_samples>>
  /\ UNCHANGED <<taken, hand, generating, result, cancel, cons, born, lost>>
  /\ UNCHANGED <<taskVars, queueVars, syncVars, trainVars>>

Sleep(site) ==
  /\ Enters(site) /\ paused
  /\ lock' = Unlocked
  /\ proc' = [at |-> site, is |-> "asleep"]
  /\ UNCHANGED <<paused, monitor_loop_trigger, staleness_samples, bound>>
  /\ UNCHANGED <<flowVars, taskVars, queueVars, syncVars, trainVars>>

Continue ==
  /\ Enters("idle") /\ ~paused
  /\ lock' = Unlocked
  /\ GoTo("top")
  /\ UNCHANGED <<paused, monitor_loop_trigger, staleness_samples, bound>>
  /\ UNCHANGED <<flowVars, taskVars, queueVars, syncVars, trainVars>>

Submit ==
  /\ Enters("submit") /\ ~paused
  /\ generating' = generating \cup {hand} /\ hand' = Nothing
  /\ born' = [born EXCEPT ![hand] = IF @ = Unborn /\ serving THEN weights ELSE @]
  /\ lock' = Unlocked
  /\ GoTo("top")
  /\ UNCHANGED <<paused, monitor_loop_trigger, staleness_samples, bound>>
  /\ UNCHANGED <<taken, done, result, cancel, cons, failVars>>
  /\ UNCHANGED <<taskVars, queueVars, syncVars, trainVars>>

Processor ==
  \/ PauseSeen \/ SetPaused \/ TakeCancelled \/ Take \/ Continue \/ Submit
  \/ \E site \in ReapSites : LoopEnds(site) \/ AwaitTask(site) \/ TasksGone(site) \/ Reap(site)
  \/ \E site \in {"idle", "submit"} : Sleep(site)
  \/ \E site \in {"pause", "drain", "idle", "limit", "submit", "finish"} : Enqueue(site)

-----------------------------------------------------------------------------
(* Generation tasks, the consumer, the monitor and the main coroutine.     *)

Generated(s) ==
  /\ LoopFree /\ s \in generating /\ serving
  /\ result' = Append(result, s)
  /\ generating' = generating \ {s} /\ done' = done + 1
  /\ born' = [born EXCEPT ![s] = IF @ = Unborn THEN weights ELSE @]
  /\ UNCHANGED <<taken, hand, cancel, cons, failVars>>
  /\ UNCHANGED <<rollVars, procVars, taskVars, queueVars, syncVars, trainVars>>

\* partial_rollout: a paused server returns what it has, marked is_cancel.
Interrupted(s) ==
  /\ LoopFree /\ s \in generating /\ ~serving
  /\ cancel' = Append(cancel, s)
  /\ generating' = generating \ {s} /\ done' = done + 1
  /\ UNCHANGED <<taken, hand, result, cons, born, failVars>>
  /\ UNCHANGED <<rollVars, procVars, taskVars, queueVars, syncVars, trainVars>>

GenerationRaises(s) ==
  /\ LoopFree /\ s \in generating /\ s \in config.faulty
  /\ generating' = generating \ {s} /\ done' = done + 1
  /\ raised' = TRUE /\ lost' = lost \cup {s}
  /\ UNCHANGED <<taken, hand, result, cancel, cons, born>>
  /\ UNCHANGED <<rollVars, procVars, taskVars, queueVars, syncVars, trainVars>>

ConsumerTake ==
  /\ LoopFree /\ main \in {"run", "join"} /\ cons = Nothing /\ result # <<>>
  /\ cons' = Head(result) /\ result' = Tail(result)
  /\ UNCHANGED <<taken, hand, generating, done, cancel, born, failVars>>
  /\ UNCHANGED <<rollVars, procVars, taskVars, queueVars, syncVars, trainVars>>

\* merge_rollout_sample raises: nobody awaits the consumer's task before the end.
ConsumerRaises ==
  /\ LoopFree /\ main \in {"run", "join"} /\ cons = Nothing /\ result # <<>>
  /\ Head(result) \in config.faulty
  /\ cons' = Dead /\ result' = Tail(result) /\ lost' = lost \cup {Head(result)}
  /\ UNCHANGED <<taken, hand, generating, done, cancel, born, raised>>
  /\ UNCHANGED <<rollVars, procVars, taskVars, queueVars, syncVars, trainVars>>

PutIntoQueue(x) ==
  /\ mq' = Queue!PutInto(mq, x, MaxRequired)
  /\ dropped' = dropped \cup (IF Len(mq) >= MaxRequired THEN {Head(mq)} ELSE {})

ConsumerPut ==
  /\ cons \in Samples
  /\ PutIntoQueue(cons)
  /\ cons' = Nothing
  /\ UNCHANGED <<taken, hand, generating, done, result, cancel, born, failVars>>
  /\ UNCHANGED <<rollVars, procVars, taskVars, syncVars, trainVars>>

\* The monitor takes the lock at the head of its loop, where it sees that the rollouter
\* runs no longer; only then it sleeps, and looks after check_interval.
NextTurn == IF main = "over" THEN "ended" ELSE "asleep"

Triggers == monitor_loop_trigger /\ ~ShouldPause

\* _should_pause_generation is evaluated before the lock is asked for.
MonitorLook ==
  /\ LoopFree /\ mon = "asleep" /\ Triggers
  /\ IF lock = <<>>
     THEN paused' = FALSE /\ proc' = Notified /\ mon' = NextTurn /\ UNCHANGED lock
     ELSE lock' = Append(lock, "monitor") /\ mon' = "queued" /\ UNCHANGED <<paused, proc>>
  /\ UNCHANGED <<monitor_loop_trigger, staleness_samples, bound, main, config>>
  /\ UNCHANGED <<flowVars, queueVars, syncVars, trainVars>>

\* A look without effect; with the lock free the next turn begins as this one did.
MonitorPass ==
  /\ LoopFree /\ mon = "asleep" /\ ~Triggers
  /\ IF lock = <<>>
     THEN main = "over" /\ mon' = NextTurn /\ UNCHANGED lock
     ELSE lock' = Append(lock, "monitor") /\ mon' = "head"
  /\ UNCHANGED <<paused, monitor_loop_trigger, staleness_samples, main, config>>
  /\ UNCHANGED <<flowVars, procVars, queueVars, syncVars, trainVars>>

\* It gives the lock back, and queues for it again if somebody else waits.
MonitorResume ==
  /\ LoopFree /\ mon = "queued" /\ Holds("monitor")
  /\ paused' = FALSE /\ proc' = Notified
  /\ IF Tail(lock) = <<>>
     THEN lock' = <<>> /\ mon' = NextTurn
     ELSE lock' = Append(Tail(lock), "monitor") /\ mon' = "head"
  /\ UNCHANGED <<monitor_loop_trigger, staleness_samples, bound, main, config>>
  /\ UNCHANGED <<flowVars, queueVars, syncVars, trainVars>>

MonitorTurn ==
  /\ LoopFree /\ mon = "head" /\ Holds("monitor")
  /\ lock' = Tail(lock) /\ mon' = NextTurn
  /\ UNCHANGED <<paused, monitor_loop_trigger, staleness_samples, main, config>>
  /\ UNCHANGED <<flowVars, procVars, queueVars, syncVars, trainVars>>

\* Main waits for the feeder, which stops once "DONE" fits into pending_queue, and then
\* for the processor.
FeedDone == DONE - taken <= config.pending

\* Mutant: the result queue is not joined.
EndsUnjoined ==
  /\ LoopFree /\ main = "run" /\ FeedDone /\ proc.is = "ended"
  /\ main' = "finish"
  /\ UNCHANGED <<mon, config>>
  /\ UNCHANGED <<rollVars, flowVars, procVars, queueVars, syncVars, trainVars>>

StreamingEnds ==
  /\ LoopFree /\ main = "run" /\ FeedDone /\ proc.is = "ended"
  /\ main' = IF proc.at = "returned" THEN "join" ELSE "finish"
  /\ UNCHANGED <<mon, config>>
  /\ UNCHANGED <<rollVars, flowVars, procVars, queueVars, syncVars, trainVars>>

ResultsJoined ==
  /\ LoopFree /\ main = "join" /\ result = <<>> /\ cons = Nothing
  /\ main' = "finish"
  /\ UNCHANGED <<mon, config>>
  /\ UNCHANGED <<rollVars, flowVars, procVars, queueVars, syncVars, trainVars>>

SendFinish ==
  /\ main = "finish"
  /\ PutIntoQueue(End)
  /\ main' = "over"
  /\ UNCHANGED <<mon, config>>
  /\ UNCHANGED <<rollVars, flowVars, procVars, syncVars, trainVars>>

Rollouter ==
  \/ ConsumerTake \/ ConsumerRaises \/ ConsumerPut
  \/ MonitorLook \/ MonitorPass \/ MonitorResume \/ MonitorTurn
  \/ StreamingEnds \/ ResultsJoined \/ SendFinish
  \/ \E s \in generating : Generated(s) \/ Interrupted(s) \/ GenerationRaises(s)

-----------------------------------------------------------------------------
(* Synchronization: pause, then the weights, then (while the trainer goes  *)
(* on) update_param_version and resume.                                    *)

AskLock(stage) ==
  /\ LoopFree /\ sync = stage /\ lock # <<>> /\ \A i \in 1 .. Len(lock) : lock[i] # "sync"
  /\ lock' = Append(lock, "sync")
  /\ UNCHANGED <<paused, monitor_loop_trigger, staleness_samples>>
  /\ UNCHANGED <<flowVars, procVars, taskVars, queueVars, syncVars, trainVars>>

InLock(stage) == LoopFree /\ sync = stage /\ (lock = <<>> \/ Holds("sync"))

Pause ==
  /\ InLock("pause")
  /\ lock' = Kept("sync") /\ paused' = TRUE
  /\ serving' = ~Partial
  /\ sync' = "gather"
  /\ UNCHANGED <<monitor_loop_trigger, staleness_samples, weights, counted, val_queue>>
  /\ UNCHANGED <<flowVars, procVars, taskVars, queueVars, trainVars>>

\* gather(return_exceptions=True): what a task raised is lost with its sample.
PauseDone ==
  /\ LoopFree /\ sync = "gather" /\ generating = {}
  /\ done' = 0 /\ raised' = FALSE
  /\ monitor_loop_trigger' = FALSE
  /\ lock' = Tail(lock)
  /\ sync' = "weights"
  /\ UNCHANGED <<paused, staleness_samples, taken, hand, generating, result, cancel, cons>>
  /\ UNCHANGED <<born, lost>>
  /\ UNCHANGED <<serving, weights, counted, val_queue>>
  /\ UNCHANGED <<procVars, taskVars, queueVars, trainVars>>

\* sync_weights returns to the trainer; the rest runs behind its back.
SyncWeights ==
  /\ sync = "weights"
  /\ weights' = current_param_version
  /\ sync' = "update"
  /\ trainer' = IF trainer = "syncing" THEN "read" ELSE "last_read"
  /\ UNCHANGED <<serving, counted, val_queue>>
  /\ UNCHANGED <<batch, local_trigger_step, current_param_version, val_data, trained>>
  /\ UNCHANGED <<rollVars, flowVars, procVars, taskVars, queueVars>>

\* The sum's local terms are read before the await of the queue's size.
CountLocal ==
  /\ InLock("update")
  /\ counted' = ActiveTasks + Len(result) + Len(cancel)
  /\ lock' = Kept("sync")
  /\ sync' = "count"
  /\ UNCHANGED <<paused, monitor_loop_trigger, staleness_samples, serving, weights, val_queue>>
  /\ UNCHANGED <<flowVars, procVars, taskVars, queueVars, trainVars>>

\* The final synchronization asks for a validation.
Validates == \/ config.testFreq > 0 /\ weights > 0 /\ weights % config.testFreq = 0
             \/ trainer = "last_read"

CountQueue ==
  /\ LoopFree /\ sync = "count"
  /\ staleness_samples' = counted + Len(mq)
  /\ counted' = 0
  /\ val_queue' = Append(val_queue, [version |-> weights, metrics |-> Validates])
  /\ lock' = Tail(lock)
  /\ sync' = "resume"
  /\ UNCHANGED <<paused, monitor_loop_trigger, serving, weights>>
  /\ UNCHANGED <<flowVars, procVars, taskVars, queueVars, trainVars>>

Resume ==
  /\ InLock("resume")
  /\ paused' = FALSE /\ monitor_loop_trigger' = TRUE
  /\ proc' = Notified
  /\ serving' = TRUE
  /\ lock' = Unlocked
  /\ sync' = "idle"
  /\ UNCHANGED <<staleness_samples, bound, weights, counted, val_queue>>
  /\ UNCHANGED <<flowVars, taskVars, queueVars, trainVars>>

Synchronizer ==
  \/ Pause \/ PauseDone \/ SyncWeights \/ CountLocal \/ CountQueue \/ Resume
  \/ \E stage \in {"pause", "update", "resume"} : AskLock(stage)

-----------------------------------------------------------------------------
(* The trainer. *)

Collect ==
  /\ trainer = "collect" /\ mq # <<>> /\ Head(mq) # End
  /\ batch' = batch \cup {Head(mq)} /\ mq' = Tail(mq)
  /\ trainer' = IF Cardinality(batch') = Required THEN "train" ELSE "collect"
  /\ UNCHANGED <<dropped, local_trigger_step, current_param_version, val_data, trained>>
  /\ UNCHANGED <<rollVars, flowVars, procVars, taskVars, syncVars>>

CollectEnd ==
  /\ trainer = "collect" /\ mq # <<>> /\ Head(mq) = End
  /\ mq' = Tail(mq)
  /\ trainer' = "end"
  /\ UNCHANGED <<dropped, batch, local_trigger_step, current_param_version, val_data, trained>>
  /\ UNCHANGED <<rollVars, flowVars, procVars, taskVars, syncVars>>

Train ==
  /\ trainer = "train"
  /\ trained' = trained \cup batch /\ batch' = {}
  /\ IF local_trigger_step < Trigger
     THEN local_trigger_step' = local_trigger_step + 1 /\ trainer' = "read"
          /\ UNCHANGED current_param_version
     ELSE local_trigger_step' = 1 /\ trainer' = "wait"
          /\ current_param_version' = current_param_version + 1
  /\ UNCHANGED val_data
  /\ UNCHANGED <<rollVars, flowVars, procVars, taskVars, queueVars, syncVars>>

\* wait_last_valid, then sync_weights
StartSync ==
  /\ trainer \in {"wait", "last_wait"} /\ sync = "idle"
  /\ sync' = "pause"
  /\ trainer' = IF trainer = "wait" THEN "syncing" ELSE "last_sync"
  /\ UNCHANGED <<serving, weights, counted, val_queue>>
  /\ UNCHANGED <<batch, local_trigger_step, current_param_version, val_data, trained>>
  /\ UNCHANGED <<rollVars, flowVars, procVars, taskVars, queueVars>>

GetValidate ==
  /\ val_data' = IF val_queue = <<>> THEN NoVal ELSE Head(val_queue)
  /\ val_queue' = IF val_queue = <<>> THEN <<>> ELSE Tail(val_queue)

ReadValidation ==
  /\ trainer = "read"
  /\ GetValidate
  /\ trainer' = "collect"
  /\ UNCHANGED <<batch, local_trigger_step, current_param_version, trained>>
  /\ UNCHANGED <<serving, weights, sync, counted>>
  /\ UNCHANGED <<rollVars, flowVars, procVars, taskVars, queueVars>>

EndTraining ==
  /\ trainer = "end"
  /\ IF val_data.metrics
     THEN trainer' = "done" /\ UNCHANGED <<current_param_version, local_trigger_step>>
     ELSE trainer' = "last_wait" /\ local_trigger_step' = 1
          /\ current_param_version' = current_param_version + 1
  /\ UNCHANGED <<batch, val_data, trained>>
  /\ UNCHANGED <<rollVars, flowVars, procVars, taskVars, queueVars, syncVars>>

ReadLastValidation ==
  /\ trainer = "last_read" /\ sync = "idle"
  /\ GetValidate
  /\ trainer' = "done"
  /\ UNCHANGED <<batch, local_trigger_step, current_param_version, trained>>
  /\ UNCHANGED <<serving, weights, sync, counted>>
  /\ UNCHANGED <<rollVars, flowVars, procVars, taskVars, queueVars>>

Trainer == \/ Collect \/ CollectEnd \/ Train \/ StartSync \/ ReadValidation
           \/ EndTraining \/ ReadLastValidation

-----------------------------------------------------------------------------

InFlight == {s \in Samples : s <= taken} \ (batch \cup trained \cup dropped \cup lost)

\* Nothing ends the run after these: the consumer is dead, or the processor is while
\* the feeder waits for room in pending_queue.
Stranded == cons = Dead \/ (proc = Crashed /\ ~FeedDone)

\* The sum counts a sample up to three times: its task done and not taken out, in
\* result_queue, and in the message queue by the time the answer comes.  The rollouter
\* may then sleep at its limit with less than a batch in flight.
Starved == /\ trainer = "collect" /\ sync = "idle" /\ proc.is = "asleep"
           /\ staleness_samples >= MaxRequired
           /\ Cardinality(InFlight \cup batch) < Required

\* The monitor still looks every check_interval when the rollouter is stranded.
Over == ((trainer = "done" /\ main = "over") \/ Stranded \/ Starved) /\ UNCHANGED vars

Next == Processor \/ Rollouter \/ Synchronizer \/ Trainer \/ Over

Spec == Init /\ [][Next]_vars

Fairness ==
  /\ WF_vars(Processor) /\ WF_vars(Synchronizer) /\ WF_vars(Trainer)
  /\ WF_vars(ConsumerTake) /\ WF_vars(ConsumerPut)
  /\ WF_vars(MonitorLook \/ MonitorPass) /\ WF_vars(MonitorResume \/ MonitorTurn)
  /\ WF_vars(StreamingEnds \/ ResultsJoined \/ SendFinish)
  /\ \A s \in AnySample : WF_vars(Generated(s)) /\ WF_vars(Interrupted(s))
FairSpec == Spec /\ Fairness

-----------------------------------------------------------------------------

In(seq) == {seq[i] : i \in 1 .. Len(seq)}

Occurs(s, seq) == Cardinality({i \in 1 .. Len(seq) : seq[i] = s})
Is(p) == IF p THEN 1 ELSE 0

(* A sample the processor took is in exactly one place of the pipeline     *)
(* until it is trained, dropped, or given up by an exception: pauses,      *)
(* interruptions and resumptions neither lose nor duplicate one.           *)
EverySampleOnce ==
  \A s \in Samples :
    Is(s = hand) + Is(s \in generating) + Occurs(s, result) + Occurs(s, cancel)
      + Is(s = cons) + Occurs(s, mq) + Is(s \in batch) + Is(s \in trained) + Is(s \in dropped)
      + Is(s \in lost) = Is(s <= taken)

(* staleness_samples limits what the rollouter has in flight to            *)
(* max_required_samples and two more: the sum that resets it counts        *)
(* neither the sample in the processor's hand nor the one being put.       *)
InFlightBounded == Cardinality(InFlight) <= MaxRequired + 2

(* What all of this amounts to, step by step: samples are issued in order  *)
(* and within that window, and a sample in flight is given up for good or  *)
(* joins one batch, which trains whole and is counted by the version.  A   *)
(* pause, a cut generation, a full queue and an exception are steps of     *)
(* this kind or invisible.                                                 *)
Stream == INSTANCE BoundedStaleness WITH
  plan <- [samples |-> Total, required |-> Required, trigger |-> Trigger,
           window |-> MaxRequired + 2],
  issued <- IF taken > Total THEN Total ELSE taken,
  flying <- InFlight, given_up <- (dropped \cup lost) \ {End},
  version <- current_param_version, step <- local_trigger_step,
  ended <- trainer \in {"last_wait", "last_sync", "last_read", "done"}
IsBoundedStaleness == Stream!Promise

(* staleness_threshold = 0 is "synchronous training" (README.md:129): a    *)
(* batch was generated with the weights being trained, however pause,      *)
(* monitor and processor interleave, and the message queue never overflows *)
(* on the way, not even for the signal that ends the run.                  *)
OnPolicy ==
  config.stale = 0 =>
    /\ dropped = {}
    /\ trainer = "train" => \A s \in batch : born[s] = current_param_version

(* Without partial rollout, when both sides are done and the rollouter was *)
(* not stopped by an exception, every sample was trained, or dropped by    *)
(* the full queue, or is in the last, incomplete batch; a sample whose     *)
(* exception pause() swallowed takes no other with it.                     *)
AllSamplesUsed ==
  ~Partial /\ trainer = "done" /\ main = "over" /\ proc.at = "returned" =>
    Samples = trained \cup batch \cup dropped \cup lost

(* Without partial rollout the trainer leaves its loop and finishes,       *)
(* although a generation may raise: the pauses of rollouter and            *)
(* synchronizer never leave it waiting for a sample for ever, unless an    *)
(* exception strands the rollouter or the sum of update_param_version      *)
(* starves it.                                                             *)
TrainingEnds == ~Partial ~> (trainer = "done" \/ Stranded \/ Starved)

(* The same with partial rollout, where it does not hold.                  *)
PartialTrainingEnds == Partial ~> trainer = "done"
=============================================================================
