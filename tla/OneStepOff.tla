----------------------------- MODULE OneStepOff -----------------------------
(* OneStepOffRayTrainer: while the actor is updated with a batch, the rollout
   workers, on GPUs of their own, generate the next one.  A future of depth one
   connects the two; weights are copied whenever a generation is launched.  A
   job that is killed is launched again and resumes from the last checkpoint.

   A batch is its number in the data stream.  The state of training is the list
   of batches whose step is done: each trained the critic and, from step
   critic_warmup on, the actor (ActorUpdates).  Weights are named by the length
   of that list.  A save is one step (its files are TrainerCheckpoint). *)
EXTENDS Integers, Sequences

CONSTANTS
    Setups,     \* the configurations a run may have
    MaxErrors,  \* bound: how often reading a batch raises
    MaxCrashes  \* bound: how often the job is killed

Setup ==
    [batches : Nat \ {0},        \* len(train_dataloader)
     epochs  : Nat \ {0},        \* trainer.total_epochs
     total   : Nat \ {0},        \* total_training_steps
     save    : Nat \ {0}, test : Nat \ {0},   \* save_freq, test_freq
     warmup  : Nat,              \* critic_warmup
     balance : BOOLEAN,          \* balance_batch
     early   : BOOLEAN]          \* launch_reward_fn_async

ASSUME SetupAssumption == /\ Setups \subseteq Setup
                          /\ \A s \in Setups : s.total <= s.batches * s.epochs
                          /\ {MaxErrors, MaxCrashes} \subseteq Nat

VARIABLES
    setup,         \* the configuration, chosen at the first launch
    pc,            \* the statement of fit the driver is at
    global_steps,
    trained,       \* batches whose step trained the critic or critic and actor
    loader,        \* the dataloader's state and the epochs the iterator began
    calls,         \* calls queued at the rollout workers, each runs them in order
    synced,        \* steps done when the rollout workers got their weights
    future,        \* batch_data_future: the batch generated next, the weights that did
    current,       \* the batch being trained, the order of its rows and scores
    rewards,       \* batches whose future_reward has its result
    validated,     \* the newest validation: its step, weights, whether the last
    disk,          \* the newest checkpoint
    errors, crashes

driver == <<global_steps, trained, future, current, validated>>
workers == <<calls, synced, rewards>>
faults == <<errors, crashes>>
vars == <<setup, pc, driver, loader, workers, disk, faults>>

None == 0
Pending == -1
NoFuture == [batch |-> None, weights |-> Pending]
NoBatch == [batch |-> None, weights |-> Pending, rows |-> "generated", scores |-> "none"]

GoTo(site) == pc' = site
IsLastStep == global_steps >= setup.total

\* Updates of the actor in the first n steps: critic_warmup leaves some out.
ActorUpdates(n) ==
    IF setup.warmup = 0 THEN n
    ELSE IF n < setup.warmup THEN 0 ELSE n - setup.warmup + 1

Submit(op) == calls' = Append(calls, op)

-----------------------------------------------------------------------------
(* Launch and initial validation. *)

Init ==
    /\ setup \in Setups
    /\ pc = "launch" /\ global_steps = 0 /\ trained = <<>>
    /\ loader = [drawn |-> 0, pos |-> 0, epoch |-> 0]
    /\ calls = <<>> /\ synced = 0 /\ rewards = {}
    /\ future = NoFuture /\ current = NoBatch
    /\ validated = [step |-> 0, weights |-> 0, last |-> FALSE]
    /\ disk = [step |-> 0, trained |-> <<>>, drawn |-> 0, pos |-> 0]
    /\ errors = 0 /\ crashes = 0

\* init_workers copies the initial weights; _load_checkpoint restores actor, step
\* and dataloader.  The iterator counts its epochs from zero again.
Launch ==
    /\ pc = "launch"
    /\ global_steps' = disk.step /\ trained' = disk.trained
    /\ loader' = [drawn |-> disk.drawn, pos |-> disk.pos, epoch |-> 1]
    /\ synced' = 0
    /\ Submit("validate")
    /\ GoTo("first_validation")
    /\ UNCHANGED <<setup, future, current, validated, rewards, disk, faults>>

\* The initial metrics are logged at the restored step.
FirstValidation ==
    /\ pc = "first_validation" /\ calls = <<>>
    /\ global_steps' = global_steps + 1
    /\ GoTo("first_draw")
    /\ UNCHANGED <<setup, trained, future, current, validated, loader, workers, disk, faults>>

-----------------------------------------------------------------------------
(* _async_gen_next_batch: the next batch, a copy of the weights, a generation. *)

Drawing == pc \in {"first_draw", "next_draw"}

\* Where the driver goes after _async_gen_next_batch.
Return(site) == GoTo(IF site = "first_draw" THEN "get" ELSE "balance")

Exhausted == loader.pos = setup.batches /\ loader.epoch = setup.epochs

NextOfStream ==
    IF loader.pos < setup.batches
    THEN [loader EXCEPT !.drawn = @ + 1, !.pos = @ + 1]
    ELSE [drawn |-> loader.drawn + 1, pos |-> 1, epoch |-> loader.epoch + 1]

\* Mutant: the next generation uses the weights the workers have.
DrawUnsynced ==
    /\ Drawing /\ ~Exhausted
    /\ loader' = NextOfStream
    /\ future' = [NoFuture EXCEPT !.batch = loader.drawn + 1]
    /\ GoTo(IF pc = "first_draw" THEN "first_launch" ELSE "next_launch")
    /\ UNCHANGED <<setup, global_steps, trained, current, validated, workers, disk, faults>>

Draw ==
    /\ Drawing /\ ~Exhausted
    /\ loader' = NextOfStream
    /\ future' = [NoFuture EXCEPT !.batch = loader.drawn + 1]
    /\ Submit("sync")
    /\ GoTo(IF pc = "first_draw" THEN "first_launch" ELSE "next_launch")
    /\ UNCHANGED <<setup, global_steps, trained, current, validated>>
    /\ UNCHANGED <<synced, rewards, disk, faults>>

\* StopIteration, or any exception of the dataloader, gives no future.
DrawNothing ==
    /\ Drawing
    /\ \/ Exhausted /\ UNCHANGED errors
       \/ ~Exhausted /\ errors < MaxErrors /\ errors' = errors + 1
    /\ future' = NoFuture
    /\ Return(pc)
    /\ UNCHANGED <<setup, global_steps, trained, current, validated>>
    /\ UNCHANGED <<loader, workers, disk, crashes>>

\* The weights are there; the generation is launched and not waited for.
LaunchGeneration ==
    /\ pc \in {"first_launch", "next_launch"} /\ calls = <<>>
    /\ Submit("generate")
    /\ Return(IF pc = "first_launch" THEN "first_draw" ELSE "next_draw")
    /\ UNCHANGED <<setup, driver, loader, synced, rewards, disk, faults>>

-----------------------------------------------------------------------------
(* The rollout workers and the remote reward function. *)

\* The actor broadcasts the weights and the rollout workers receive them; they
\* generate or validate with the weights they have.
RolloutRuns ==
    /\ calls # <<>>
    /\ calls' = Tail(calls)
    /\ synced' = IF Head(calls) = "sync" THEN Len(trained) ELSE synced
    /\ future' = IF Head(calls) = "generate" THEN [future EXCEPT !.weights = synced]
                 ELSE future
    /\ validated' = IF Head(calls) = "validate"
                    THEN [step |-> global_steps, weights |-> synced,
                          last |-> IsLastStep \/ future.batch = None]
                    ELSE validated
    /\ UNCHANGED <<setup, pc, global_steps, trained, current, loader, rewards, disk, faults>>

Generated == {b \in {current, future} : b.weights # Pending}

\* _launch_individual_rewards scores the responses in the order of generation.
RewardsDone ==
    /\ setup.early
    /\ \E b \in Generated : b.batch \notin rewards /\ rewards' = rewards \cup {b.batch}
    /\ UNCHANGED <<setup, pc, driver, loader, calls, synced, disk, faults>>

-----------------------------------------------------------------------------
(* The loop of fit. *)

Get ==
    /\ pc = "get" /\ future.weights # Pending
    /\ current' = [NoBatch EXCEPT !.batch = future.batch, !.weights = future.weights]
    /\ GoTo(IF IsLastStep THEN "balance" ELSE "next_draw")
    /\ UNCHANGED <<setup, global_steps, trained, future, validated, loader, workers, disk, faults>>

\* "while batch_data_future is not None".
LeaveLoop ==
    /\ pc = "get" /\ future.batch = None
    /\ GoTo("over")
    /\ UNCHANGED <<setup, driver, loader, workers, disk, faults>>

\* union with the generated rows, then _balance_batch reorders them all.
Balance ==
    /\ pc = "balance"
    /\ current' = [current EXCEPT !.rows = IF setup.balance THEN "balanced" ELSE @]
    /\ GoTo("reward")
    /\ UNCHANGED <<setup, global_steps, trained, future, validated, loader, workers, disk, faults>>

\* Mutant: the early rewards are taken in any case.
ScoreOrderEarly == "generated"

\* compute_reward scores the rows as they stand now; future_reward did before.
ScoreOrder == IF setup.early THEN "generated" ELSE current.rows

Reward ==
    /\ pc = "reward" /\ (setup.early => current.batch \in rewards)
    /\ current' = [current EXCEPT !.scores = ScoreOrder]
    /\ GoTo("update")
    /\ UNCHANGED <<setup, global_steps, trained, future, validated, loader, workers, disk, faults>>

ValidationDue == IsLastStep \/ global_steps % setup.test = 0

\* log-probs, advantages, the update of the critic and, after its warm-up, of the
\* actor: in a step of the warm-up the batch trains the critic alone, and
\* ActorUpdates does not count it.  Then the validation is submitted to the rollout
\* workers, behind the generation.
Update ==
    /\ pc = "update"
    /\ trained' = Append(trained, current.batch)
    /\ IF ValidationDue
       THEN Submit("validate") /\ GoTo("validating")
       ELSE UNCHANGED calls /\ GoTo("save")
    /\ UNCHANGED <<setup, global_steps, future, current, validated, loader>>
    /\ UNCHANGED <<synced, rewards, disk, faults>>

Validated ==
    /\ pc = "validating" /\ calls = <<>>
    /\ GoTo("save")
    /\ UNCHANGED <<setup, driver, loader, workers, disk, faults>>

\* Mutant: only at multiples of save_freq.
SaveDueAtMultiples == global_steps % setup.save = 0

SaveDue == IsLastStep \/ global_steps % setup.save = 0

\* Mutant: the save forgets the dataloader.
LoaderSaveNone == [drawn |-> 0, pos |-> 0]

\* state_dict of a dataloader that has already handed out the next batch.
LoaderSave == [drawn |-> loader.drawn, pos |-> loader.pos]

Save ==
    /\ pc = "save"
    /\ disk' = IF SaveDue
               THEN [step |-> global_steps, trained |-> trained,
                     drawn |-> LoaderSave.drawn, pos |-> LoaderSave.pos]
               ELSE disk
    /\ global_steps' = global_steps + 1
    /\ GoTo(IF IsLastStep THEN "over" ELSE "get")
    /\ UNCHANGED <<setup, trained, future, current, validated, loader, workers, faults>>

\* The job is killed; driver, workers and futures are lost.
Crash ==
    /\ pc \notin {"launch", "over"} /\ crashes < MaxCrashes
    /\ crashes' = crashes + 1
    /\ GoTo("launch")
    /\ global_steps' = 0 /\ trained' = <<>>
    /\ loader' = [drawn |-> 0, pos |-> 0, epoch |-> 0]
    /\ calls' = <<>> /\ synced' = 0 /\ rewards' = {}
    /\ future' = NoFuture /\ current' = NoBatch
    /\ validated' = [step |-> 0, weights |-> 0, last |-> FALSE]
    /\ UNCHANGED <<setup, disk, errors>>

Ended == pc = "over" /\ calls = <<>> /\ UNCHANGED vars

Fit == \/ Launch \/ FirstValidation \/ Draw \/ DrawNothing \/ LaunchGeneration
       \/ Get \/ LeaveLoop \/ Balance \/ Reward \/ Update \/ Validated \/ Save

Next == Fit \/ RolloutRuns \/ RewardsDone \/ Crash \/ Ended

Spec == Init /\ [][Next]_vars

\* Driver and workers run; a killed job is launched again.
FairSpec == Spec /\ WF_vars(Fit) /\ WF_vars(RolloutRuns) /\ WF_vars(RewardsDone)

-----------------------------------------------------------------------------
(* Properties. *)

\* "One step off": the weights that generated the batch being trained lack at
\* most one update of the actor, at every step, after every restart, whatever
\* the order in which generation, rewards and validation come back.
AtMostOneUpdateBehind ==
    pc = "update" =>
      ActorUpdates(Len(trained)) - ActorUpdates(current.weights) <= 1

\* The comment over _balance_batch: reordering "won't affect the advantage
\* calculation".  Scores stay with their rows unless they were computed early.
ScoresOfOwnRows ==
    pc = "update" => current.scores = current.rows \/ (setup.balance /\ setup.early)

\* Along the weights' history, whatever was killed: batches of the stream in
\* order, none twice, and a restart leaves out one batch at most (the one
\* handed out ahead).
BatchesInOrder ==
    /\ \A i \in 2 .. Len(trained) : trained[i - 1] < trained[i]
    /\ \A i \in 1 .. Len(trained) : trained[i] <= i + crashes

\* A validation measures weights that lack the update just made, and at the last
\* step, where no generation is launched any more, two updates.
ValidationRecent ==
    pc = "save" /\ validated.step = global_steps =>
      ActorUpdates(global_steps) - ActorUpdates(validated.weights)
        <= IF validated.last THEN 2 ELSE 1

\* Every run ends: no wait for a generation, a reward or a validation is in vain.
\* It has saved its last step, if the stream is longer than the run by a batch for
\* each restart and reading it never raised.
EveryRunEnds ==
    <>(/\ pc = "over" /\ calls = <<>>
       /\ errors = 0 /\ setup.total + crashes <= setup.batches * setup.epochs =>
            disk.step = setup.total)
=============================================================================
