--------------------------- MODULE HeteroTraining ---------------------------
(* RayPPOTrainer.fit under heterogeneous distillation: every step generates
   with the student, may update it by GRPO on the groups of mixed correctness
   and by OPD on all rows, as the schedule says, and steers the strength of the
   OPD anchor with the PACE controller.  A job that is killed is launched again
   and resumes from the last checkpoint.

   The weights are the list of updates that made them; the state of PACE is the
   list of steps whose reward it has absorbed: lambda0, its moments and the
   previous reward are functions of that list.  A save is one step here (its
   files are TrainerCheckpoint), and there is always a next batch. *)
EXTENDS Integers, Sequences, FiniteSets

CONSTANTS
    Setups,      \* the configurations a run may have
    Groups,      \* prompts of a batch
    Forwards,    \* micro-batches of a scoring pass
    MaxCrashes   \* bound: how often the job is killed

Setup ==
    [mode     : {"both", "alt", "warmup"},            \* update_mode
     opd      : Nat \ {0}, grpo : Nat \ {0},          \* opd_steps, grpo_steps
     warmup   : Nat \ {0},                            \* warmup_steps
     rollouts : Nat \ {0},                            \* student_rollout_n
     source   : {"rollout", "validation", "off"},     \* pace_reward_source
     interval : Nat \ {0},                            \* pace_update_interval
     ranks    : Nat \ {0},                            \* data-parallel ranks
     parallel : BOOLEAN,                              \* opd_parallel_student_base
     save     : Nat \ {0}, total : Nat \ {0}]         \* save_freq, total steps

ASSUME SetupAssumption == /\ Setups \subseteq Setup
                          /\ {Groups, Forwards, MaxCrashes} \subseteq Nat
                          /\ Groups > 0 /\ Forwards > 0

VARIABLES
    setup,         \* the configuration, chosen at the first launch
    pc,            \* the statement of fit the driver is at
    global_steps,
    actor,         \* the updates the weights have had, <<step, kind>>
    pace,          \* steps whose reward the controller absorbed
    rollout,       \* weights that generated the batch, groups of mixed correctness
    old_log_probs, \* how many updates the weights had that scored the update batch
    token_lambda,  \* the PACE state the attached pace_token_lambda comes from
    left,          \* rank -> scoring pass -> forwards still to run
    issued,        \* rank -> pass of the collective it waits in
    meta,          \* rank -> copy of meta_info -> use_ref_inputs
    inputs,        \* <<pass, use_ref_inputs>> of the forwards that ran
    disk,          \* the newest checkpoint
    crashes

driver   == <<pc, global_steps, rollout, token_lambda>>
scoring  == <<left, issued, meta, inputs>>
vars == <<setup, driver, actor, pace, old_log_probs, scoring, disk, crashes>>

Unset == -1
Ranks == 1 .. setup.ranks

-----------------------------------------------------------------------------
(* The schedule. *)

\* Mutant: the counter of updates starts at 1.
UpdatesFromOne(steps) ==
    CASE setup.mode = "both"   -> {"grpo", "opd"}
      [] setup.mode = "alt"    -> IF steps % (setup.opd + setup.grpo) < setup.opd
                                  THEN {"opd"} ELSE {"grpo"}
      [] setup.mode = "warmup" -> IF steps < setup.warmup THEN {"opd"} ELSE {"grpo"}

\* _get_hetero_update_mode, with use_grpo and use_opd set.
Updates(steps) ==
    LET counter == steps - 1
    IN CASE setup.mode = "both"   -> {"grpo", "opd"}
         [] setup.mode = "alt"    -> IF counter % (setup.opd + setup.grpo) < setup.opd
                                     THEN {"opd"} ELSE {"grpo"}
         [] setup.mode = "warmup" -> IF counter < setup.warmup THEN {"opd"} ELSE {"grpo"}

IsLastStep == global_steps >= setup.total

-----------------------------------------------------------------------------
(* PACE. *)

\* _update_pace_controller with a reward from the given source.
Absorbed(source) ==
    IF setup.source = source /\ global_steps % setup.interval = 0
    THEN Append(pace, global_steps) ELSE pace

\* Mutant: a resumed job starts with the initial state.
ForgetPace(state) == <<>>

\* _load_pace_state_dict: ignored when PACE is off.
LoadedPace(state) == IF setup.source = "off" THEN <<>> ELSE state

\* _apply_pace_micro_reweight: lambda0 times a modulation of mean one.
AttachedLambda == pace

-----------------------------------------------------------------------------
(* The scoring passes of prepare_opd_log_probs.  A forward of a model sharded
   over the ranks is a collective, and all models share one process group: the
   ranks' next collectives must be the same. *)

Proxies == {"base", "teacher", "teacher_base"}
Passes  == {"student"} \cup Proxies

NoForwards == [r \in Ranks |-> [p \in Passes |-> 0]]
NotIssued  == [r \in Ranks |-> "none"]
NoCopies   == [r \in Ranks |-> [p \in Passes |-> FALSE]]

NoneLeft(r) == \A p \in Passes : left[r][p] = 0

\* Passes whose next forward rank r may issue: the student's first, then the
\* proxies in order, or those of three threads in any order.
Runnable(r) ==
    IF left[r]["student"] > 0 THEN {"student"}
    ELSE IF setup.parallel THEN {p \in Proxies : left[r][p] > 0}
    ELSE IF left[r]["base"] > 0 THEN {"base"}
    ELSE IF left[r]["teacher"] > 0 THEN {"teacher"}
    ELSE {p \in {"teacher_base"} : left[r][p] > 0}

\* _shallow_copy_dataproto gives every pass a meta_info of its own.
CopyOf(p) == p

UsesRefInputs(p) == p \in {"teacher", "teacher_base"}

\* Each pass sets use_ref_inputs in its copy before its first forward.
Begin(r, p) ==
    meta' = IF left[r][p] = Forwards
            THEN [meta EXCEPT ![r][CopyOf(p)] = UsesRefInputs(p)] ELSE meta

\* Mutant: teacher and teacher-base go to threads of their own in any case.
IssueConcurrently(r) ==
    /\ pc = "opd_score" /\ issued[r] = "none"
    /\ \E p \in Passes :
         /\ left[r][p] > 0 /\ p \in Proxies => left[r]["student"] = 0
         /\ issued' = [issued EXCEPT ![r] = p]
         /\ Begin(r, p)
    /\ UNCHANGED <<setup, driver, actor, pace, old_log_probs, left, inputs, disk, crashes>>

Issue(r) ==
    /\ pc = "opd_score" /\ issued[r] = "none"
    /\ \E p \in Runnable(r) :
         /\ issued' = [issued EXCEPT ![r] = p]
         /\ Begin(r, p)
    /\ UNCHANGED <<setup, driver, actor, pace, old_log_probs, left, inputs, disk, crashes>>

ForwardRuns ==
    /\ \A r \in Ranks : issued[r] # "none"
    /\ \A r, q \in Ranks : issued[r] = issued[q]
    /\ left'   = [r \in Ranks |-> [left[r] EXCEPT ![issued[r]] = @ - 1]]
    /\ inputs' = inputs \cup {<<issued[r], meta[r][CopyOf(issued[r])]>> : r \in Ranks}
    /\ issued' = NotIssued
    /\ UNCHANGED <<setup, driver, actor, pace, old_log_probs, meta, disk, crashes>>

-----------------------------------------------------------------------------
(* The steps of fit. *)

GoTo(site) == pc' = site

NoSave == [step |-> 0, actor |-> <<>>, pace |-> <<>>]

Init ==
    /\ setup \in Setups
    /\ pc = "launch" /\ global_steps = 0
    /\ actor = <<>> /\ pace = <<>>
    /\ rollout = [version |-> 0, mixed |-> 0]
    /\ old_log_probs = Unset /\ token_lambda = <<Unset>>
    /\ left = NoForwards /\ issued = NotIssued /\ meta = NoCopies /\ inputs = {}
    /\ disk = NoSave /\ crashes = 0

\* _init_hetero_train_state, _load_checkpoint and the increment before the loop.
Launch ==
    /\ pc = "launch"
    /\ global_steps' = disk.step + 1
    /\ actor' = disk.actor /\ pace' = LoadedPace(disk.pace)
    /\ GoTo("generate")
    /\ UNCHANGED <<setup, rollout, token_lambda, old_log_probs, scoring, disk, crashes>>

\* generate_sequences synchronizes the rollout engine with the actor; the reward
\* decides which groups are mixed; PACE may take the batch's reward.
Generate ==
    /\ pc = "generate"
    /\ \E mixed \in 0 .. Groups : rollout' = [version |-> Len(actor), mixed |-> mixed]
    /\ pace' = Absorbed("rollout")
    /\ old_log_probs' = Unset
    /\ GoTo("grpo")
    /\ UNCHANGED <<setup, global_steps, token_lambda, actor, scoring, disk, crashes>>

SkipGrpo ==
    /\ pc = "grpo" /\ ("grpo" \notin Updates(global_steps) \/ rollout.mixed = 0)
    /\ GoTo("opd")
    /\ UNCHANGED <<setup, global_steps, rollout, token_lambda, actor, pace, old_log_probs>>
    /\ UNCHANGED <<scoring, disk, crashes>>

\* _build_hetero_train_batches: whole groups.
GrpoRows == rollout.mixed * setup.rollouts

\* compute_log_prob and compute_base_log_prob; DataProto.chunk asserts that the
\* rows divide by the ranks.
ScoreGrpo ==
    /\ pc = "grpo" /\ "grpo" \in Updates(global_steps) /\ rollout.mixed > 0
    /\ IF GrpoRows % setup.ranks = 0
       THEN old_log_probs' = Len(actor) /\ GoTo("grpo_update")
       ELSE GoTo("dead") /\ UNCHANGED old_log_probs
    /\ UNCHANGED <<setup, global_steps, rollout, token_lambda, actor, pace>>
    /\ UNCHANGED <<scoring, disk, crashes>>

UpdateGrpo ==
    /\ pc = "grpo_update"
    /\ actor' = Append(actor, <<global_steps, "grpo">>)
    /\ GoTo("opd")
    /\ UNCHANGED <<setup, global_steps, rollout, token_lambda, pace, old_log_probs>>
    /\ UNCHANGED <<scoring, disk, crashes>>

SkipOpd ==
    /\ pc = "opd" /\ "opd" \notin Updates(global_steps)
    /\ GoTo("save")
    /\ UNCHANGED <<setup, global_steps, rollout, token_lambda, actor, pace, old_log_probs>>
    /\ UNCHANGED <<scoring, disk, crashes>>

\* _maybe_update_pace_from_validation, then prepare_opd_log_probs is dispatched.
StartOpd ==
    /\ pc = "opd" /\ "opd" \in Updates(global_steps)
    /\ pace' = Absorbed("validation")
    /\ left' = [r \in Ranks |-> [p \in Passes |-> Forwards]]
    /\ inputs' = {}
    /\ GoTo("opd_score")
    /\ UNCHANGED <<setup, global_steps, rollout, token_lambda, actor, old_log_probs>>
    /\ UNCHANGED <<issued, meta, disk, crashes>>

\* Mutant: what the GRPO update was scored with is used again.
ScoresKept == IF old_log_probs = Unset THEN Len(actor) ELSE old_log_probs

FreshScores == Len(actor)

\* All ranks have returned; the driver attaches pace_token_lambda.
OpdScored ==
    /\ pc = "opd_score" /\ \A r \in Ranks : NoneLeft(r) /\ issued[r] = "none"
    /\ old_log_probs' = FreshScores
    /\ token_lambda' = AttachedLambda
    /\ GoTo("opd_update")
    /\ UNCHANGED <<setup, global_steps, rollout, actor, pace, scoring, disk, crashes>>

UpdateOpd ==
    /\ pc = "opd_update"
    /\ actor' = Append(actor, <<global_steps, "opd">>)
    /\ GoTo("save")
    /\ UNCHANGED <<setup, global_steps, rollout, token_lambda, pace, old_log_probs>>
    /\ UNCHANGED <<scoring, disk, crashes>>

\* Mutant: only at multiples of save_freq.
SaveDueAtMultiples == global_steps % setup.save = 0

SaveDue == IsLastStep \/ global_steps % setup.save = 0

Save ==
    /\ pc = "save"
    /\ disk' = IF SaveDue
               THEN [step |-> global_steps, actor |-> actor, pace |-> pace] ELSE disk
    /\ GoTo("next")
    /\ UNCHANGED <<setup, global_steps, rollout, token_lambda, actor, pace, old_log_probs>>
    /\ UNCHANGED <<scoring, crashes>>

NextStep ==
    /\ pc = "next"
    /\ global_steps' = global_steps + 1
    /\ GoTo(IF IsLastStep THEN "over" ELSE "generate")
    /\ UNCHANGED <<setup, rollout, token_lambda, actor, pace, old_log_probs>>
    /\ UNCHANGED <<scoring, disk, crashes>>

\* The job is killed; driver and workers lose their memory.
Crash ==
    /\ pc \notin {"launch", "over", "dead"} /\ crashes < MaxCrashes
    /\ crashes' = crashes + 1
    /\ GoTo("launch")
    /\ global_steps' = 0 /\ actor' = <<>> /\ pace' = <<>>
    /\ rollout' = [version |-> 0, mixed |-> 0]
    /\ old_log_probs' = Unset /\ token_lambda' = <<Unset>>
    /\ left' = NoForwards /\ issued' = NotIssued /\ meta' = NoCopies /\ inputs' = {}
    /\ UNCHANGED <<setup, disk>>

Ended == pc \in {"over", "dead"} /\ UNCHANGED vars

Fit == \/ Launch \/ Generate \/ SkipGrpo \/ ScoreGrpo \/ UpdateGrpo
       \/ SkipOpd \/ StartOpd \/ OpdScored \/ UpdateOpd \/ Save \/ NextStep

Next == Fit \/ ForwardRuns \/ Crash \/ Ended \/ \E r \in Ranks : Issue(r)

Spec == Init /\ [][Next]_vars

\* Driver and workers run; a killed job is launched again.
FairSpec == Spec /\ WF_vars(Fit \/ ForwardRuns \/ \E r \in Ranks : Issue(r))

-----------------------------------------------------------------------------
(* Properties. *)

\* What update_mode means, said by whole cycles: opd_steps of OPD, then
\* grpo_steps of GRPO, over and over; or OPD for warmup_steps and GRPO ever after.
Meant(kind, s) ==
    CASE setup.mode = "both"   -> TRUE
      [] setup.mode = "alt"    ->
           LET cycle == setup.opd + setup.grpo
               inOpd == \E k \in 0 .. s : s \in k * cycle + 1 .. k * cycle + setup.opd
           IN inOpd <=> kind = "opd"
      [] setup.mode = "warmup" -> (s \in 1 .. setup.warmup) <=> kind = "opd"

\* The weights, whatever restarts lie between, come from the updates the
\* schedule means: GRPO before OPD within a step, no update twice, none at a step
\* not meant for it, no OPD step of the past left out.
WeightsFollowSchedule ==
    /\ \A i \in 1 .. Len(actor) : Meant(actor[i][2], actor[i][1])
    /\ \A i, j \in 1 .. Len(actor) : i < j =>
         \/ actor[i][1] < actor[j][1]
         \/ actor[i][1] = actor[j][1] /\ actor[i][2] = "grpo" /\ actor[j][2] = "opd"
    /\ pc = "generate" =>
         \A s \in 1 .. global_steps - 1 :
           Meant("opd", s) => \E i \in 1 .. Len(actor) : actor[i] = <<s, "opd">>

\* Steps whose reward PACE should have absorbed by the end of step s.
Due(s) == {t \in 1 .. s : /\ t % setup.interval = 0
                          /\ \/ setup.source = "rollout"
                             \/ setup.source = "validation" /\ Meant("opd", t)}

IsAscending(list, set) ==
    /\ Len(list) = Cardinality(set) /\ {list[i] : i \in 1 .. Len(list)} = set
    /\ \A i \in 2 .. Len(list) : list[i - 1] < list[i]

\* The controller absorbs each due reward once and in order along the weights'
\* own history, also across a restart: no reward twice, none forgotten.  And an
\* OPD update uses a lambda0 that has absorbed this step's reward; the comment in
\* fit: "That makes the updated lambda0 apply to this OPD update".
PaceSeesEachStepOnce ==
    /\ pc = "generate" => IsAscending(pace, Due(global_steps - 1))
    /\ pc \in {"save", "next"} => IsAscending(pace, Due(global_steps))
    /\ pc = "opd_update" => IsAscending(token_lambda, Due(global_steps))

\* An update compares with the log-probs of the very weights it changes, on
\* responses which the weights of the beginning of the step generated: when GRPO
\* and OPD share a step, OPD scores again after the GRPO update.  And every model
\* scored its own inputs, "primary-tokenizer inputs for the student actor forward",
\* ref_input_ids for the teachers, whatever the threads did to meta_info meanwhile.
ScoredByCurrentWeights ==
    pc \in {"grpo_update", "opd_update"} =>
      /\ old_log_probs = Len(actor)
      /\ \A i \in 1 .. Len(actor) : i > rollout.version <=> actor[i][1] = global_steps
      /\ \A f \in inputs : f[2] = UsesRefInputs(f[1])

\* The comment in prepare_opd_log_probs: ranks must not "enter collectives in
\* different orders".  Without the threads, or with one rank, they never do.
RanksInStep ==
    (setup.parallel => setup.ranks = 1) =>
      \A r, q \in Ranks : "none" \in {issued[r], issued[q]} \/ issued[r] = issued[q]

\* Every job ends, with the last step trained and saved, as long as the rows of a
\* group split over the ranks: whichever groups are mixed, so does the GRPO batch.
EveryJobEnds == setup.rollouts % setup.ranks = 0 ~> pc = "over" /\ disk.step >= setup.total
=============================================================================
