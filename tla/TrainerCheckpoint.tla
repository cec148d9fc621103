-------------------------- MODULE TrainerCheckpoint --------------------------
(***************************************************************************)
(* Saving, crashing and resuming of the PPO trainer of MP-OPD:             *)
(* RayPPOTrainer._save_checkpoint, _resolve_resume_path, _load_checkpoint  *)
(* and the two training loops that call them (fit and _fit_mpopd).  What   *)
(* is on disk survives a crash, one file at a time; what is in the driver  *)
(* and in the workers does not.                                            *)
(***************************************************************************)
EXTENDS Integers

CONSTANTS
  Ranks,        \* the actor workers; each saves and loads its own shards
  Loop,         \* which training loop runs: "fit" or "mpopd"
  Batches,      \* len(train_dataloader)
  Epochs,       \* trainer.total_epochs
  Total,        \* total_training_steps
  SaveFreq,     \* trainer.save_freq
  Metrics,      \* values of the best metric; {} when none is configured
  CrashInSave,  \* may the crash fall inside _save_checkpoint?
  MaxCrashes,   \* bound: crashes of one behaviour
  MaxStep,      \* bound: the largest step number
  Absent, Torn, None

ASSUME LoopAssumption  == Loop \in {"fit", "mpopd"}
ASSUME SizeAssumption  == /\ Batches \in Nat \ {0}
                          /\ Epochs \in Nat \ {0}
                          /\ SaveFreq \in Nat \ {0}
                          /\ Total \in 1 .. Batches * Epochs
                          /\ MaxStep \in Nat
                          /\ MaxCrashes \in Nat
ASSUME RankAssumption  == Ranks # {}
ASSUME CrashAssumption == CrashInSave \in BOOLEAN
ASSUME MetricAssumption == Metrics \subseteq Int /\ None \notin Int

VARIABLES
  disk,     \* disk[d][i]: what is in item i of checkpoint folder d
  tracker,  \* latest_checkpointed_iteration.txt
  pc,       \* where the driver is
  model,    \* model[r]: batches trained into the weights held by rank r
  step,     \* self.global_steps
  pos,      \* batches the dataloader has handed out in this epoch
  epoch,    \* the loop's epoch counter
  snap,     \* the state being saved, None when no save is running
  best,     \* self._best_valid_metric
  launch,   \* launches so far
  crashes   \* crashes so far

vars == <<disk, tracker, pc, model, step, pos, epoch, snap, best, launch, crashes>>

-----------------------------------------------------------------------------
(* Folders and what a folder holds. *)

Steps      == 0 .. MaxStep
Last       == <<"last", 0>>
Best       == <<"best_valid", 0>>
StepDir(n) == <<"global_step", n>>
Dirs       == {Last, Best} \cup {StepDir(n) : n \in Steps}

Actor  == <<"actor", None>>      \* the directory actor/ itself
Data   == <<"data", None>>       \* data.pt
Meta   == <<"meta", None>>       \* meta.pt

\* A rank's files: its model shard, and what it writes and loads after it, the
\* optimizer shard and the extra state (lr_scheduler, rng), as one item.  A rank that
\* misses either of the two raises at the same stage of a load, its model restored.
Shards == {"model", "optim"} \X Ranks
Items  == {Actor, Data, Meta} \cup Shards

Snap == [launch : Nat, step : Steps, pos : 0 .. Batches, model : [Ranks -> Nat],
         metric : Metrics \cup {None}, best : BOOLEAN]

ASSUME SentinelAssumption == /\ Absent # Torn
                             /\ {Absent, Torn} \cap (Nat \cup Snap) = {}
                             /\ None \notin Dirs

Saved(d, i)  == disk[d][i] \notin {Absent, Torn}
Empty(d)     == \A i \in Items : disk[d][i] = Absent
Complete(d)  == Saved(d, Meta) /\ \A i \in Items : disk[d][i] = disk[d][Meta]

-----------------------------------------------------------------------------
(* Launching: which checkpoint is resumed and what loading it restores.    *)

IsCheckpointDir(d) == disk[d][Actor] # Absent

\* Mutant: a lookup that knows best_valid only.
ResumeBestOnly == IF IsCheckpointDir(Best) THEN Best ELSE None

\* _resolve_resume_path with resume_mode=auto.
ResumeDir ==
  CASE IsCheckpointDir(Last) -> Last
    [] ~IsCheckpointDir(Last) /\ IsCheckpointDir(Best) -> Best
    [] /\ ~IsCheckpointDir(Last) /\ ~IsCheckpointDir(Best)
       /\ tracker \in Steps /\ IsCheckpointDir(StepDir(tracker)) -> StepDir(tracker)
    [] OTHER -> None

\* Neither of these is under _load_checkpoint's try: int("") of a torn tracker
\* (read only when last and best_valid are no checkpoints), torch.load of a torn
\* best_valid/meta.pt.
LaunchRaises ==
  \/ tracker = Torn /\ ~IsCheckpointDir(Last) /\ ~IsCheckpointDir(Best)
  \/ disk[Best][Meta] = Torn

\* _load_best_checkpoint_state
BestOnDisk == IF Saved(Best, Meta) THEN disk[Best][Meta].metric ELSE None

\* The step the loop starts with when g is the restored global_steps.
FirstStep(g) == IF Loop = "fit" THEN g + 1 ELSE g
LastStep     == IF Loop = "fit" THEN step >= Total ELSE step + 1 >= Total

\* Mutant: the last step is forgotten.
SaveDueAtMultiples == step % SaveFreq = 0

SaveDue      == \/ LastStep
                \/ IF Loop = "fit" THEN step % SaveFreq = 0
                                   ELSE (step + 1) % SaveFreq = 0

BaseModel == [r \in Ranks |-> 0]

\* Mutant: the weights are not restored.
RestoredNothing(d) == BaseModel

\* A rank loads its model shard before it opens the other files.
RestoredModel(d) ==
  [r \in Ranks |-> IF Saved(d, <<"model", r>>) THEN disk[d][<<"model", r>>].model[r]
                                               ELSE 0]
RankLoads(d, r) == \A part \in {"model", "optim"} : Saved(d, <<part, r>>)
AllLoad(d)      == \A r \in Ranks : RankLoads(d, r)
AllRaise(d)     == \A r \in Ranks : ~RankLoads(d, r)
SameStage(d)    == \A r, q \in Ranks : Saved(d, <<"model", r>>) <=> Saved(d, <<"model", q>>)

\* Mutant: the best metric is not read back.
StartingBestForgotten(d) ==
  /\ pc = "down" /\ ~LaunchRaises /\ ResumeDir = d
  /\ launch' = launch + 1
  /\ best' = None
  /\ epoch' = 0
  /\ UNCHANGED <<disk, tracker, snap, crashes>>

Starting(d) ==
  /\ pc = "down"
  /\ ~LaunchRaises
  /\ ResumeDir = d
  /\ launch' = launch + 1
  /\ best' = BestOnDisk
  /\ epoch' = 0
  /\ UNCHANGED <<disk, tracker, snap, crashes>>

\* No checkpoint: "Starting from scratch".
LaunchFresh ==
  /\ Starting(None)
  /\ pc' = "train"
  /\ model' = BaseModel
  /\ step' = FirstStep(0)
  /\ pos' = 0

\* Every file that exists is whole; a missing data.pt or meta.pt is only a
\* warning.
LaunchResume(d) ==
  /\ Starting(d)
  /\ AllLoad(d)
  /\ disk[d][Data] # Torn
  /\ disk[d][Meta] # Torn
  /\ pc' = "train"
  /\ model' = RestoredModel(d)
  /\ pos' = IF Saved(d, Data) THEN disk[d][Data].pos ELSE 0
  /\ step' = FirstStep(IF Saved(d, Meta) THEN disk[d][Meta].step ELSE 0)

\* The except branch: only global_steps is reset.  What was loaded before the
\* exception stays: the model shards, and data.pt when meta.pt is the torn one.
LaunchFallback(d) ==
  /\ Starting(d)
  /\ \/ AllRaise(d)
     \/ AllLoad(d) /\ Torn \in {disk[d][Data], disk[d][Meta]}
  /\ pc' = "train"
  /\ model' = RestoredModel(d)
  /\ pos' = IF AllLoad(d) /\ Saved(d, Data) THEN disk[d][Data].pos ELSE 0
  /\ step' = FirstStep(0)

\* Some ranks raise and others wait for them: in the barrier that ends the
\* load, or (FSDP1) in the collective that redistributes a model shard.
LaunchHangs(d) ==
  /\ Starting(d)
  /\ \/ ~AllLoad(d) /\ ~AllRaise(d)
     \/ AllRaise(d) /\ ~SameStage(d)
  /\ pc' = "hung"
  /\ model' = RestoredModel(d)
  /\ pos' = 0
  /\ step' = 0

LaunchFails ==
  /\ pc = "down"
  /\ LaunchRaises
  /\ pc' = "failed"
  /\ launch' = launch + 1
  /\ UNCHANGED <<disk, tracker, model, step, pos, epoch, snap, best, crashes>>

-----------------------------------------------------------------------------
(* The training loop. *)

\* Mutant: a tie counts as better.
IsNotWorse(m) == m # None /\ (best = None \/ m >= best)

\* _is_better_metric with best_metric_mode=max.
IsBetter(m) == m # None /\ (best = None \/ m > best)

Trained == [r \in Ranks |-> model[r] + 1]

TrainStep ==
  /\ pc = "train"
  /\ pos < Batches
  /\ step < MaxStep
  /\ model' = Trained
  /\ pos' = pos + 1
  /\ UNCHANGED <<disk, tracker, epoch, best, launch, crashes>>

\* One batch, no checkpoint due after it.
TrainOnly ==
  /\ TrainStep
  /\ ~SaveDue
  /\ step' = step + 1
  /\ pc' = IF LastStep THEN "done" ELSE "train"
  /\ UNCHANGED snap

\* One batch, then _save_checkpoint is entered; m is the value of the best
\* metric when the step validated, None when the metric is missing.
TrainAndSave(m) ==
  /\ TrainStep
  /\ SaveDue
  /\ snap' = [launch |-> launch, step |-> step, pos |-> pos + 1, model |-> Trained,
              metric |-> m, best |-> IsBetter(m)]
  /\ pc' = "clear"
  /\ UNCHANGED step

\* The dataloader is exhausted: next epoch, or the loop falls through.
EndEpoch ==
  /\ pc = "train"
  /\ pos = Batches
  /\ pos' = 0
  /\ epoch' = epoch + 1
  /\ pc' = IF epoch + 1 < Epochs THEN "train" ELSE "done"
  /\ UNCHANGED <<disk, tracker, model, step, snap, best, launch, crashes>>

-----------------------------------------------------------------------------
(* _save_checkpoint. *)

\* Mutant: is_best stays true after the first checkpoint.
TargetBestAfterFirst == IF snap.best \/ tracker \in Steps THEN Best ELSE Last

Target == IF snap.best THEN Best ELSE Last

\* The folder whose rmtree is under way: the target first, then the step copy.
Clearing == IF Empty(Target) THEN StepDir(snap.step) ELSE Target

SetItem(d, i, v) == disk' = [disk EXCEPT ![d][i] = v]

\* rmtree unlinks one entry at a time in no particular order; actor/ goes
\* after what it holds.
RemoveItem(i) ==
  /\ pc = "clear"
  /\ disk[Clearing][i] # Absent
  /\ i = Actor => \A s \in Shards : disk[Clearing][s] = Absent
  /\ SetItem(Clearing, i, Absent)
  /\ UNCHANGED <<tracker, pc, model, step, pos, epoch, snap, best, launch, crashes>>

\* Mutant: writing starts before rmtree is done.
ClearSkipped ==
  /\ pc = "clear"
  /\ pc' = "write"
  /\ UNCHANGED <<disk, tracker, model, step, pos, epoch, snap, best, launch, crashes>>

ClearDone ==
  /\ pc = "clear"
  /\ Empty(Target)
  /\ Empty(StepDir(snap.step))
  /\ pc' = "write"
  /\ UNCHANGED <<disk, tracker, model, step, pos, epoch, snap, best, launch, crashes>>

\* What must be complete before item i of folder d is written: the workers
\* write model before optimizer and extra state after the barrier that follows mkdir; then the
\* driver copies actor/ to the step folder, and writes data.pt and meta.pt, each
\* to the target first.
Needs(d, i) ==
  LET T == Target  S == StepDir(snap.step)
  IN  CASE i = Data   -> IF d = T THEN {S} \X Shards ELSE {<<T, Data>>}
        [] i = Meta   -> IF d = T THEN {<<S, Data>>} ELSE {<<T, Meta>>}
        [] i = Actor  -> IF d = T THEN {} ELSE {T} \X Shards
        [] i \in Shards ->
             IF d = T /\ i[1] = "optim" THEN {<<T, <<"model", i[2]>>>>} ELSE {<<d, Actor>>}

\* A file is torn from its creation to the end of its write; a directory is not.
\* The workers write concurrently, the driver's copytree one file at a time.
WriteItem(d, i) ==
  /\ pc = "write"
  /\ d \in {Target, StepDir(snap.step)}
  /\ \A n \in Needs(d, i) : disk[n[1]][n[2]] = snap
  /\ \/ /\ disk[d][i] = Absent
        /\ i # Actor
        /\ d = Target \/ \A s \in Shards : disk[d][s] # Torn
        /\ SetItem(d, i, Torn)
     \/ /\ disk[d][i] = (IF i = Actor THEN Absent ELSE Torn)
        /\ SetItem(d, i, snap)
  /\ UNCHANGED <<tracker, pc, model, step, pos, epoch, snap, best, launch, crashes>>

\* Mutant: the tracker is written before the step copy is complete.
OpenTrackerEarly ==
  /\ pc = "write"
  /\ tracker' = Torn
  /\ pc' = "tracker"
  /\ UNCHANGED <<disk, model, step, pos, epoch, snap, best, launch, crashes>>

\* open(latest_checkpointed_iteration.txt, "w") truncates the tracker.
OpenTracker ==
  /\ pc = "write"
  /\ disk[StepDir(snap.step)][Meta] = snap
  /\ tracker' = Torn
  /\ pc' = "tracker"
  /\ UNCHANGED <<disk, model, step, pos, epoch, snap, best, launch, crashes>>

\* The tracker is written, the best metric remembered, the loop goes on.
FinishSave ==
  /\ pc = "tracker"
  /\ tracker' = snap.step
  /\ best' = IF snap.best THEN snap.metric ELSE best
  /\ snap' = None
  /\ step' = step + 1
  /\ pc' = IF LastStep THEN "done" ELSE "train"
  /\ UNCHANGED <<disk, model, pos, epoch, launch, crashes>>

-----------------------------------------------------------------------------
\* The job dies: out of memory, an NCCL abort (also the end of a hung load), a
\* preemption.  model and pos keep the lost work so that the next launch can be
\* compared with it; every launch overwrites them.
Crash ==
  /\ crashes < MaxCrashes
  /\ pc \in {"train", "hung"} \/ (CrashInSave /\ pc \in {"clear", "write", "tracker"})
  /\ crashes' = crashes + 1
  /\ pc' = "down"
  /\ snap' = None
  /\ UNCHANGED <<disk, tracker, model, step, pos, epoch, best, launch>>

Init ==
  /\ disk = [d \in Dirs |-> [i \in Items |-> Absent]]
  /\ tracker = Absent
  /\ pc = "down"
  /\ model = BaseModel
  /\ step = 0 /\ pos = 0 /\ epoch = 0
  /\ snap = None
  /\ best = None
  /\ launch = 0 /\ crashes = 0

Launch == \/ LaunchFresh
          \/ \E d \in Dirs : LaunchResume(d) \/ LaunchFallback(d) \/ LaunchHangs(d)
          \/ LaunchFails

Train  == \/ TrainOnly
          \/ \E m \in Metrics \cup {None} : TrainAndSave(m)
          \/ EndEpoch

Save   == \/ \E i \in Items : RemoveItem(i)
          \/ ClearDone
          \/ \E d \in Dirs, i \in Items : WriteItem(d, i)
          \/ OpenTracker
          \/ FinishSave

Run  == Launch \/ Train \/ Save
Next == Run \/ Crash

Spec     == Init /\ [][Next]_vars
FairSpec == Spec /\ WF_vars(Run)

-----------------------------------------------------------------------------
(* Properties. *)

TypeOK ==
  /\ disk \in [Dirs -> [Items -> Snap \cup {Absent, Torn}]]
  /\ tracker \in Steps \cup {Absent, Torn}
  /\ pc \in {"down", "train", "clear", "write", "tracker", "hung", "failed", "done"}
  /\ model \in [Ranks -> Nat]
  /\ step \in 0 .. MaxStep + 1
  /\ pos \in 0 .. Batches
  /\ epoch \in Nat
  /\ snap \in Snap \cup {None}
  /\ best \in Metrics \cup {None}
  /\ launch \in Nat
  /\ crashes \in 0 .. MaxCrashes

\* No folder ever mixes files of two saves, wherever crashes cut a save or the
\* rmtree that precedes it: _save_checkpoint empties a folder before it writes
\* the first new file, so an item left by an older save never meets a newer one.
FilesOfOneSave ==
  \A d \in Dirs : \A i, j \in Items :
    Saved(d, i) /\ Saved(d, j) => disk[d][i] = disk[d][j]

\* A resume that restores a step number restores the weights of the same save
\* on every rank, and the dataloader either of that save or from its start.
ResumesOneSave ==
  pc = "down" /\ pc' = "train" /\ step' # FirstStep(0) =>
    \E d \in Dirs : /\ Saved(d, Meta)
                    /\ step' = FirstStep(disk[d][Meta].step)
                    /\ model' = disk[d][Meta].model
                    /\ pos' \in {0, disk[d][Meta].pos}
RestoredTogether == [][ResumesOneSave]_vars

\* A whole "last" is the newest whole checkpoint but for those saved as the best
\* ones: preferring it to the tracker loses no save when no best metric is
\* configured (MP-OPD's setting), however often the loop started over at a step
\* number already used.
NewerOrSame(s, t) == s.launch > t.launch \/ (s.launch = t.launch /\ s.step >= t.step)
LastIsNewest ==
  Complete(Last) =>
    \A n \in Steps : Complete(StepDir(n)) =>
      \/ NewerOrSame(disk[Last][Meta], disk[StepDir(n)][Meta])
      \/ disk[StepDir(n)][Meta].best

\* When no crash falls inside a save, the tracker names a whole step folder
\* except while that very folder is being written again.
TrackerNamesComplete ==
  tracker \in Steps =>
    \/ Complete(StepDir(tracker))
    \/ pc \in {"clear", "write"} /\ snap.step = tracker

\* While training, the best metric in memory is the one best_valid/meta.pt holds:
\* they agree after every launch and every save, whatever a crash destroyed.
BestMatchesDisk == pc = "train" => best = BestOnDisk

\* A best_valid that records a metric is destroyed only for a better one.
ReplacesWorseBest ==
  Saved(Best, Meta) /\ disk'[Best][Meta] # disk[Best][Meta]
    => snap.metric > disk[Best][Meta].metric
BestOnlyImproves == [][ReplacesWorseBest]_vars

\* "save fires on the last step": when the loop returns, the weights it trained
\* are in a whole checkpoint.
LastStepSaved ==
  pc = "done" => \E d \in Dirs : Complete(d) /\ disk[d][Meta].model = model

\* A resume repeats at most the batches since the last save was due.
ResumeLosesOneInterval ==
  [][ pc = "down" /\ pc' = "train" =>
        \A r \in Ranks : model'[r] + SaveFreq > model[r] ]_vars

\* In spite of crashes outside saves training ends, with at least Total batches
\* trained into the weights of every rank: the step number and the dataloader
\* position a resume restores never let the loop stop short.
TrainsToTheEnd == <>(pc = "done" /\ \A r \in Ranks : model[r] >= Total)

=============================================================================
