----------------------- MODULE TrainerCheckpointProofs -----------------------
(***************************************************************************)
(* What TLAPS proves of TrainerCheckpoint for every number of ranks,       *)
(* batches, epochs, crashes and every save frequency.                      *)
(***************************************************************************)
EXTENDS TrainerCheckpoint, TLAPS

\* While a save runs snap is the state being saved, and the step has room to
\* be incremented.
SaveShape ==
  pc \in {"clear", "write", "tracker"} => snap \in Snap /\ snap.step = step /\ step < MaxStep

\* While a save writes, its two folders hold nothing but its own files.
WritesFresh ==
  pc = "write" =>
    \A d \in {Target, StepDir(snap.step)} : \A i \in Items :
      disk[d][i] \in {Absent, Torn, snap}

\* The inductive invariant behind FilesOfOneSave.
FilesInv == TypeOK /\ SaveShape /\ WritesFresh /\ FilesOfOneSave

LEMMA FolderNames ==
  /\ Last \in Dirs /\ Best \in Dirs /\ Last # Best
  /\ \A n \in Steps : StepDir(n) \in Dirs /\ StepDir(n) # Last /\ StepDir(n) # Best
BY DEF Last, Best, StepDir, Dirs

LEMMA ItemNames ==
  /\ Actor \in Items /\ Data \in Items /\ Meta \in Items
  /\ Shards \subseteq Items
  /\ \A r \in Ranks : <<"model", r>> \in Items /\ <<"optim", r>> \in Items
BY DEF Actor, Data, Meta, Shards, Items

\* A saved item is a snapshot.
LEMMA SavedIsSnap ==
  ASSUME TypeOK, NEW d \in Dirs, NEW i \in Items, Saved(d, i)
  PROVE  disk[d][i] \in Snap
BY DEF TypeOK, Saved

LEMMA TargetInDirs ==
  ASSUME snap \in Snap
  PROVE  /\ Target \in {Last, Best}
         /\ Target \in Dirs /\ StepDir(snap.step) \in Dirs
         /\ Clearing \in {Target, StepDir(snap.step)} /\ Clearing \in Dirs
BY FolderNames DEF Target, Clearing, Snap

\* The launch disjuncts give model a value of its type.
LEMMA RestoredType ==
  ASSUME TypeOK, NEW d \in Dirs
  PROVE  RestoredModel(d) \in [Ranks -> Nat]
<1>1. ASSUME NEW r \in Ranks, Saved(d, <<"model", r>>)
      PROVE  disk[d][<<"model", r>>].model[r] \in Nat
  <2>1. disk[d][<<"model", r>>] \in Snap
    BY <1>1, SavedIsSnap, ItemNames
  <2>2. disk[d][<<"model", r>>].model \in [Ranks -> Nat]
    BY <2>1 DEF Snap
  <2>3. QED
    BY <2>2
<1>2. QED
  BY <1>1 DEF RestoredModel

LEMMA BestOnDiskType ==
  ASSUME TypeOK
  PROVE  BestOnDisk \in Metrics \cup {None}
BY SavedIsSnap, FolderNames, ItemNames DEF BestOnDisk, Snap

LEMMA FirstStepType ==
  ASSUME NEW g \in Steps
  PROVE  FirstStep(g) \in 0 .. MaxStep + 1
BY SizeAssumption DEF FirstStep, Steps

\* A step that resumes, fails or starts afresh keeps the type invariant.
LEMMA LaunchType ==
  ASSUME TypeOK, Launch
  PROVE  TypeOK'
<1>0. 0 \in Steps
  BY SizeAssumption DEF Steps
<1>1. CASE LaunchFresh
  BY <1>0, <1>1, BestOnDiskType, FirstStepType, SizeAssumption
     DEF LaunchFresh, Starting, TypeOK, BaseModel
<1>2. ASSUME NEW d \in Dirs, LaunchResume(d)
      PROVE  TypeOK'
  <2>1. Saved(d, Data) => disk[d][Data].pos \in 0 .. Batches
    BY SavedIsSnap, ItemNames DEF Snap
  <2>2. Saved(d, Meta) => disk[d][Meta].step \in Steps
    BY SavedIsSnap, ItemNames DEF Snap
  <2>3. step' \in 0 .. MaxStep + 1
    BY <1>0, <1>2, <2>2, FirstStepType DEF LaunchResume
  <2>4. pos' \in 0 .. Batches
    BY <1>2, <2>1, SizeAssumption DEF LaunchResume
  <2>5. QED
    BY <1>2, <2>3, <2>4, BestOnDiskType, RestoredType DEF LaunchResume, Starting, TypeOK
<1>3. ASSUME NEW d \in Dirs, LaunchFallback(d)
      PROVE  TypeOK'
  <2>1. Saved(d, Data) => disk[d][Data].pos \in 0 .. Batches
    BY SavedIsSnap, ItemNames DEF Snap
  <2>2. pos' \in 0 .. Batches /\ step' \in 0 .. MaxStep + 1
    BY <1>0, <1>3, <2>1, FirstStepType, SizeAssumption DEF LaunchFallback
  <2>3. QED
    BY <1>3, <2>2, BestOnDiskType, RestoredType DEF LaunchFallback, Starting, TypeOK
<1>4. ASSUME NEW d \in Dirs, LaunchHangs(d)
      PROVE  TypeOK'
  BY <1>4, BestOnDiskType, RestoredType, SizeAssumption DEF LaunchHangs, Starting, TypeOK
<1>5. CASE LaunchFails
  BY <1>5 DEF LaunchFails, TypeOK
<1>6. QED
  BY <1>1, <1>2, <1>3, <1>4, <1>5 DEF Launch

\* Replacing one item of one folder by a legal content.
LEMMA SetItemType ==
  ASSUME TypeOK, NEW d \in Dirs, NEW i \in Items,
         NEW v \in Snap \cup {Absent, Torn}, SetItem(d, i, v)
  PROVE  /\ disk' \in [Dirs -> [Items -> Snap \cup {Absent, Torn}]]
         /\ \A e \in Dirs : \A j \in Items :
              disk'[e][j] = IF e = d /\ j = i THEN v ELSE disk[e][j]
BY DEF TypeOK, SetItem

LEMMA InitInv == Init => FilesInv
<1>1. Init => TypeOK
  BY SizeAssumption DEF Init, TypeOK, BaseModel
<1>2. Init => SaveShape /\ WritesFresh /\ FilesOfOneSave
  BY DEF Init, SaveShape, WritesFresh, FilesOfOneSave, Saved
<1>3. QED
  BY <1>1, <1>2 DEF FilesInv

\* A step that leaves the files alone and does not start to write keeps all
\* that is said of the files.
LEMMA FilesUntouched ==
  ASSUME FilesInv, UNCHANGED disk,
         pc' # "write" \/ UNCHANGED <<pc, snap>>
  PROVE  WritesFresh' /\ FilesOfOneSave'
BY DEF FilesInv, WritesFresh, FilesOfOneSave, Saved, Target

LEMMA LaunchInv ==
  ASSUME FilesInv, Launch
  PROVE  FilesInv'
<1>1. TypeOK'
  BY LaunchType DEF FilesInv
<1>2. UNCHANGED disk /\ pc' \in {"train", "hung", "failed"}
  BY DEF Launch, LaunchFresh, LaunchResume, LaunchFallback, LaunchHangs, LaunchFails, Starting
<1>3. SaveShape'
  BY <1>2 DEF SaveShape
<1>4. QED
  BY <1>1, <1>2, <1>3, FilesUntouched DEF FilesInv

LEMMA TrainInv ==
  ASSUME FilesInv, Train
  PROVE  FilesInv'
<1>1. CASE TrainOnly
  <2>1. TypeOK'
    BY <1>1, SizeAssumption DEF FilesInv, TypeOK, TrainOnly, TrainStep, Trained
  <2>2. SaveShape' /\ UNCHANGED disk /\ pc' # "write"
    BY <1>1 DEF TrainOnly, TrainStep, SaveShape
  <2>3. QED
    BY <2>1, <2>2, FilesUntouched DEF FilesInv
<1>2. ASSUME NEW m \in Metrics \cup {None}, TrainAndSave(m)
      PROVE  FilesInv'
  <2>1. Trained \in [Ranks -> Nat] /\ pos + 1 \in 0 .. Batches /\ step \in Steps
    BY <1>2, SizeAssumption DEF FilesInv, TypeOK, TrainAndSave, TrainStep, Trained, Steps
  <2>2. IsBetter(m) \in BOOLEAN
    BY DEF IsBetter
  <2>3. snap' \in Snap /\ snap'.step = step
    BY <1>2, <2>1, <2>2 DEF FilesInv, TypeOK, TrainAndSave, Snap
  <2>4. TypeOK'
    BY <1>2, <2>1, <2>3 DEF FilesInv, TypeOK, TrainAndSave, TrainStep
  <2>5. SaveShape' /\ UNCHANGED disk /\ pc' # "write"
    BY <1>2, <2>3 DEF TrainAndSave, TrainStep, SaveShape
  <2>6. QED
    BY <2>4, <2>5, FilesUntouched DEF FilesInv
<1>3. CASE EndEpoch
  <2>1. TypeOK'
    BY <1>3, SizeAssumption DEF FilesInv, TypeOK, EndEpoch
  <2>2. SaveShape' /\ UNCHANGED disk /\ pc' # "write"
    BY <1>3 DEF EndEpoch, SaveShape
  <2>3. QED
    BY <2>1, <2>2, FilesUntouched DEF FilesInv
<1>4. QED
  BY <1>1, <1>2, <1>3 DEF Train

LEMMA RemoveInv ==
  ASSUME FilesInv, NEW i \in Items, RemoveItem(i)
  PROVE  FilesInv'
<1>1. Clearing \in Dirs
  BY TargetInDirs DEF FilesInv, SaveShape, RemoveItem
<1>2. /\ disk' \in [Dirs -> [Items -> Snap \cup {Absent, Torn}]]
      /\ \A e \in Dirs : \A j \in Items :
           disk'[e][j] = IF e = Clearing /\ j = i THEN Absent ELSE disk[e][j]
  BY <1>1, SetItemType DEF FilesInv, RemoveItem
<1>3. TypeOK'
  BY <1>2 DEF FilesInv, TypeOK, RemoveItem
<1>4. SaveShape' /\ WritesFresh'
  BY DEF FilesInv, RemoveItem, SaveShape, WritesFresh
<1>5. FilesOfOneSave'
  BY <1>2 DEF FilesInv, FilesOfOneSave, Saved
<1>6. QED
  BY <1>3, <1>4, <1>5 DEF FilesInv

LEMMA ClearDoneInv ==
  ASSUME FilesInv, ClearDone
  PROVE  FilesInv'
<1>1. TypeOK' /\ SaveShape'
  BY DEF FilesInv, TypeOK, SaveShape, ClearDone
<1>2. WritesFresh'
  BY DEF ClearDone, WritesFresh, Empty, Target
<1>3. FilesOfOneSave'
  BY DEF FilesInv, ClearDone, FilesOfOneSave, Saved
<1>4. QED
  BY <1>1, <1>2, <1>3 DEF FilesInv

LEMMA WriteInv ==
  ASSUME FilesInv, NEW d \in Dirs, NEW i \in Items, WriteItem(d, i)
  PROVE  FilesInv'
<1>0. snap \in Snap /\ d \in {Target, StepDir(snap.step)} /\ pc = "write"
  BY DEF FilesInv, SaveShape, WriteItem
<1>1. PICK v \in {Torn, snap} : SetItem(d, i, v)
  BY DEF WriteItem
<1>2. /\ disk' \in [Dirs -> [Items -> Snap \cup {Absent, Torn}]]
      /\ \A e \in Dirs : \A j \in Items :
           disk'[e][j] = IF e = d /\ j = i THEN v ELSE disk[e][j]
  BY <1>0, <1>1, SetItemType DEF FilesInv
<1>3. TypeOK'
  BY <1>2 DEF FilesInv, TypeOK, WriteItem
<1>4. SaveShape'
  BY DEF FilesInv, SaveShape, WriteItem
<1>5. Target' = Target /\ snap' = snap
  BY DEF WriteItem, Target
<1>6. WritesFresh'
  BY <1>0, <1>1, <1>2, <1>5, TargetInDirs DEF FilesInv, WritesFresh
<1>7. FilesOfOneSave'
  <2>1. \A j \in Items : disk'[d][j] \in {Absent, Torn, snap}
    BY <1>0, <1>1, <1>2 DEF FilesInv, WritesFresh
  <2>2. \A e \in Dirs : e # d => \A j \in Items : disk'[e][j] = disk[e][j]
    BY <1>2
  <2>3. QED
    BY <2>1, <2>2 DEF FilesInv, FilesOfOneSave, Saved
<1>8. QED
  BY <1>3, <1>4, <1>6, <1>7 DEF FilesInv

LEMMA TrackerInv ==
  ASSUME FilesInv, OpenTracker \/ FinishSave
  PROVE  FilesInv'
<1>1. CASE OpenTracker
  <2>1. TypeOK' /\ SaveShape' /\ UNCHANGED disk /\ pc' # "write"
    BY <1>1 DEF FilesInv, TypeOK, SaveShape, OpenTracker
  <2>2. QED
    BY <2>1, FilesUntouched DEF FilesInv
<1>2. CASE FinishSave
  <2>1. snap \in Snap /\ step < MaxStep
    BY <1>2 DEF FilesInv, SaveShape, FinishSave
  <2>2. TypeOK'
    BY <1>2, <2>1, SizeAssumption DEF FilesInv, TypeOK, FinishSave, Snap
  <2>3. SaveShape' /\ UNCHANGED disk /\ pc' # "write"
    BY <1>2 DEF FinishSave, SaveShape
  <2>4. QED
    BY <2>2, <2>3, FilesUntouched DEF FilesInv
<1>3. QED
  BY <1>1, <1>2

LEMMA CrashInv ==
  ASSUME FilesInv, Crash
  PROVE  FilesInv'
<1>1. TypeOK'
  BY SizeAssumption DEF FilesInv, TypeOK, Crash
<1>2. SaveShape' /\ UNCHANGED disk /\ pc' # "write"
  BY DEF Crash, SaveShape
<1>3. QED
  BY <1>1, <1>2, FilesUntouched DEF FilesInv

LEMMA StepInv == FilesInv /\ [Next]_vars => FilesInv'
<1> SUFFICES ASSUME FilesInv, [Next]_vars PROVE FilesInv'
  OBVIOUS
<1>1. CASE Launch
  BY <1>1, LaunchInv
<1>2. CASE Train
  BY <1>2, TrainInv
<1>3. CASE Save
  BY <1>3, RemoveInv, ClearDoneInv, WriteInv, TrackerInv DEF Save
<1>4. CASE Crash
  BY <1>4, CrashInv
<1>5. CASE UNCHANGED vars
  BY <1>5 DEF vars, FilesInv, TypeOK, SaveShape, WritesFresh, FilesOfOneSave, Saved, Target
<1>6. QED
  BY <1>1, <1>2, <1>3, <1>4, <1>5 DEF Next, Run

LEMMA FilesInvariant == Spec => []FilesInv
BY InitInv, StepInv, PTL DEF Spec

\* Every state is well typed.
THEOREM TypeCorrect == Spec => []TypeOK
<1>1. FilesInv => TypeOK
  BY DEF FilesInv
<1>2. QED
  BY <1>1, FilesInvariant, PTL

\* No checkpoint folder ever mixes files of two saves, however many crashes cut
\* saves and deletions short.
THEOREM FilesNeverMix == Spec => []FilesOfOneSave
<1>1. FilesInv => FilesOfOneSave
  BY DEF FilesInv
<1>2. QED
  BY <1>1, FilesInvariant, PTL

-----------------------------------------------------------------------------
(* A resume restores one save. *)

LEMMA RestoredModelOfOneSave ==
  ASSUME FilesInv, NEW d \in Dirs, AllLoad(d), Saved(d, Meta)
  PROVE  RestoredModel(d) = disk[d][Meta].model
<1>1. disk[d][Meta].model \in [Ranks -> Nat]
  BY SavedIsSnap, ItemNames DEF FilesInv, Snap
<1>2. \A r \in Ranks : Saved(d, <<"model", r>>) /\ disk[d][<<"model", r>>] = disk[d][Meta]
  BY ItemNames DEF FilesInv, FilesOfOneSave, AllLoad, RankLoads
<1>3. QED
  BY <1>1, <1>2 DEF RestoredModel

LEMMA ResumeStep == FilesInv /\ [Next]_vars => [ResumesOneSave]_vars
<1> SUFFICES ASSUME FilesInv, Next, pc = "down", pc' = "train", step' # FirstStep(0)
             PROVE  ResumesOneSave
  BY DEF ResumesOneSave
<1>1. PICK d \in Dirs : LaunchResume(d)
  BY DEF Next, Run, Launch, LaunchFresh, LaunchFallback, LaunchHangs, LaunchFails, Crash,
         Train, TrainOnly, TrainAndSave, TrainStep, EndEpoch,
         Save, RemoveItem, ClearDone, WriteItem, OpenTracker, FinishSave
<1>2. Saved(d, Meta) /\ step' = FirstStep(disk[d][Meta].step)
  BY <1>1 DEF LaunchResume
<1>3. model' = disk[d][Meta].model
  BY <1>1, <1>2, RestoredModelOfOneSave DEF LaunchResume
<1>4. pos' \in {0, disk[d][Meta].pos}
  BY <1>1, <1>2, ItemNames DEF LaunchResume, FilesInv, FilesOfOneSave
<1>5. QED
  BY <1>2, <1>3, <1>4 DEF ResumesOneSave

\* Weights, step number and dataloader position never come from different saves.
THEOREM ResumeRestoresOneSave == Spec => RestoredTogether
BY FilesInvariant, ResumeStep, PTL DEF Spec, RestoredTogether

-----------------------------------------------------------------------------
(* The best metric in memory is the one on disk. *)

Saving == pc \in {"clear", "write", "tracker"}

BestInv ==
  /\ BestMatchesDisk
  /\ Saved(Best, Meta) => disk[Best][Meta].metric # None
  /\ Saving /\ snap.best => snap.metric # None
  /\ Saving /\ ~snap.best => best = BestOnDisk
  /\ pc = "clear" /\ snap.best /\ Saved(Best, Meta) => snap.metric > disk[Best][Meta].metric
  /\ pc = "write" /\ disk[StepDir(snap.step)][Meta] # Absent => disk[Target][Meta] = snap
  /\ pc = "tracker" => disk[Target][Meta] = snap

LEMMA BestUntouched ==
  ASSUME BestInv, UNCHANGED disk, pc' \notin {"clear", "write", "tracker"},
         pc' = "train" => best' = BestOnDisk
  PROVE  BestInv'
BY DEF BestInv, BestMatchesDisk, Saved, BestOnDisk, Saving

LEMMA BestAfterTrain ==
  ASSUME FilesInv, BestInv, Train
  PROVE  BestInv'
<1>1. CASE TrainOnly \/ EndEpoch
  BY <1>1, BestUntouched
     DEF BestInv, BestMatchesDisk, TrainOnly, TrainStep, EndEpoch
<1>2. ASSUME NEW m \in Metrics \cup {None}, TrainAndSave(m)
      PROVE  BestInv'
  <2>1. best = BestOnDisk /\ UNCHANGED <<disk, best>> /\ pc' = "clear"
    BY <1>2 DEF BestInv, BestMatchesDisk, TrainAndSave, TrainStep
  <2>2. snap'.metric = m /\ snap'.best = IsBetter(m)
    BY <1>2 DEF TrainAndSave
  <2>3. Saved(Best, Meta) /\ IsBetter(m) => m > disk[Best][Meta].metric
    BY <2>1 DEF IsBetter, BestOnDisk, BestInv
  <2>4. QED
    BY <2>1, <2>2, <2>3 DEF BestInv, BestMatchesDisk, BestOnDisk, Saved, Saving, IsBetter
<1>3. QED
  BY <1>1, <1>2 DEF Train

LEMMA BestAfterRemove ==
  ASSUME FilesInv, BestInv, NEW i \in Items, RemoveItem(i)
  PROVE  BestInv'
<1>1. snap \in Snap /\ pc = "clear" /\ UNCHANGED <<pc, snap, best>>
  BY DEF FilesInv, SaveShape, RemoveItem
<1>2. \A e \in Dirs : \A j \in Items :
        disk'[e][j] = IF e = Clearing /\ j = i THEN Absent ELSE disk[e][j]
  BY <1>1, TargetInDirs, SetItemType DEF FilesInv, RemoveItem
<1>3. disk'[Best][Meta] \in {Absent, disk[Best][Meta]}
  BY <1>2, FolderNames, ItemNames
<1>4. ~snap.best => disk'[Best][Meta] = disk[Best][Meta]
  BY <1>1, <1>2, FolderNames, ItemNames DEF Target, Clearing, Snap
<1>5. QED
  BY <1>1, <1>3, <1>4 DEF BestInv, BestMatchesDisk, BestOnDisk, Saved, Saving

LEMMA BestAfterClear ==
  ASSUME FilesInv, BestInv, ClearDone
  PROVE  BestInv'
<1>1. UNCHANGED <<disk, snap, best>> /\ pc = "clear" /\ pc' = "write"
  BY DEF ClearDone
<1>2. disk[StepDir(snap.step)][Meta] = Absent
  BY ItemNames DEF ClearDone, Empty
<1>3. QED
  BY <1>1, <1>2 DEF BestInv, BestMatchesDisk, BestOnDisk, Saved, Saving

LEMMA BestAfterWrite ==
  ASSUME FilesInv, BestInv, NEW d \in Dirs, NEW i \in Items, WriteItem(d, i)
  PROVE  BestInv'
<1>0. /\ snap \in Snap /\ d \in {Target, StepDir(snap.step)}
      /\ pc = "write" /\ UNCHANGED <<pc, snap, best>>
  BY DEF FilesInv, SaveShape, WriteItem
<1>1. PICK v \in {Torn, snap} :
           /\ SetItem(d, i, v)
           /\ v = Torn => disk[d][i] = Absent
           /\ v = snap => disk[d][i] \in {Absent, Torn}
  BY <1>0, SentinelAssumption DEF WriteItem
<1>2. \A e \in Dirs : \A j \in Items :
        disk'[e][j] = IF e = d /\ j = i THEN v ELSE disk[e][j]
  <2>1. TypeOK
    BY DEF FilesInv
  <2>2. v \in Snap \cup {Absent, Torn}
    BY <1>0
  <2>3. SetItem(d, i, v)
    BY <1>1
  <2>4. QED
    BY <2>1, <2>2, <2>3, SetItemType
<1>3. Target' = Target /\ StepDir(snap'.step) = StepDir(snap.step)
  BY <1>0 DEF Target
<1>4. Target \in Dirs /\ StepDir(snap.step) \in Dirs /\ StepDir(snap.step) # Target
      /\ StepDir(snap.step) # Best /\ (Target = Best <=> snap.best)
  BY <1>0, FolderNames, TargetInDirs DEF Target, Snap
<1>5. ~snap.best => disk'[Best][Meta] = disk[Best][Meta]
  BY <1>0, <1>2, <1>4, FolderNames, ItemNames
<1>6. disk[Target][Meta] = snap => disk'[Target][Meta] = snap
  <2>1. snap # Absent /\ snap # Torn
    BY <1>0, SentinelAssumption
  <2>2. CASE d = Target /\ i = Meta
    BY <1>1, <1>2, <2>1, <2>2
  <2>3. CASE ~(d = Target /\ i = Meta)
    BY <1>2, <1>4, <2>3, ItemNames
  <2>4. QED
    BY <2>2, <2>3
<1>7. disk'[StepDir(snap.step)][Meta] # Absent => disk'[Target][Meta] = snap
  <2>1. CASE d = StepDir(snap.step) /\ i = Meta
    <3>1. <<Target, Meta>> \in Needs(d, i)
      BY <2>1, <1>4 DEF Needs, Data, Meta, Actor, Shards
    <3>2. disk[Target][Meta] = snap
      BY <3>1 DEF WriteItem
    <3>3. QED
      BY <3>2, <1>6
  <2>2. CASE ~(d = StepDir(snap.step) /\ i = Meta)
    <3>1. disk'[StepDir(snap.step)][Meta] = disk[StepDir(snap.step)][Meta]
      BY <1>2, <1>4, <2>2, ItemNames
    <3>2. QED
      BY <3>1, <1>0, <1>6 DEF BestInv
  <2>3. QED
    BY <2>1, <2>2
<1>8. Saved(Best, Meta)' => disk'[Best][Meta].metric # None
  <2>1. CASE d = Best /\ i = Meta
    BY <2>1, <1>0, <1>1, <1>2, <1>4, FolderNames, ItemNames DEF BestInv, Saved, Saving
  <2>2. CASE ~(d = Best /\ i = Meta)
    BY <2>2, <1>2, FolderNames, ItemNames DEF BestInv, Saved
  <2>3. QED
    BY <2>1, <2>2
<1>9. QED
  BY <1>0, <1>3, <1>5, <1>7, <1>8
     DEF BestInv, BestMatchesDisk, BestOnDisk, Saved, Saving

LEMMA BestAfterTracker ==
  ASSUME FilesInv, BestInv, OpenTracker \/ FinishSave
  PROVE  BestInv'
<1>1. CASE OpenTracker
  <2>1. /\ pc = "write" /\ pc' = "tracker" /\ UNCHANGED <<disk, snap, best>>
        /\ disk[StepDir(snap.step)][Meta] = snap /\ snap \in Snap
    BY <1>1 DEF OpenTracker, FilesInv, SaveShape
  <2>2. disk[Target][Meta] = snap
    BY <2>1, SentinelAssumption DEF BestInv
  <2>3. QED
    BY <2>1, <2>2 DEF BestInv, BestMatchesDisk, BestOnDisk, Saved, Saving, Target
<1>2. CASE FinishSave
  <2>1. /\ pc = "tracker" /\ UNCHANGED disk /\ snap \in Snap
        /\ pc' \in {"done", "train"} /\ disk[Target][Meta] = snap
        /\ best' = IF snap.best THEN snap.metric ELSE best
    BY <1>2 DEF FinishSave, FilesInv, SaveShape, BestInv
  <2>2. best' = BestOnDisk
    BY <2>1, SentinelAssumption DEF BestInv, BestOnDisk, Saved, Saving, Target
  <2>3. QED
    BY <2>1, <2>2, BestUntouched
<1>3. QED
  BY <1>1, <1>2

LEMMA BestStep == FilesInv /\ BestInv /\ [Next]_vars => BestInv'
<1> SUFFICES ASSUME FilesInv, BestInv, [Next]_vars PROVE BestInv'
  OBVIOUS
<1>1. CASE Launch
  BY <1>1, BestUntouched
     DEF Launch, LaunchFresh, LaunchResume, LaunchFallback, LaunchHangs, LaunchFails, Starting
<1>2. CASE Train
  BY <1>2, BestAfterTrain
<1>3. CASE Save
  BY <1>3, BestAfterRemove, BestAfterClear, BestAfterWrite, BestAfterTracker DEF Save
<1>4. CASE Crash
  BY <1>4, BestUntouched DEF Crash
<1>5. CASE UNCHANGED vars
  BY <1>5 DEF vars, BestInv, BestMatchesDisk, BestOnDisk, Saved, Saving, Target
<1>6. QED
  BY <1>1, <1>2, <1>3, <1>4, <1>5 DEF Next, Run

LEMMA BestInvariant == Spec => [](FilesInv /\ BestInv)
<1>1. Init => BestInv
  BY FolderNames, ItemNames DEF Init, BestInv, BestMatchesDisk, Saved, Saving
<1>2. QED
  BY <1>1, BestStep, FilesInvariant, PTL DEF Spec

\* Memory and disk agree on the best metric whenever the loop trains.
THEOREM BestMetricMatchesDisk == Spec => []BestMatchesDisk
<1>1. BestInv => BestMatchesDisk
  BY DEF BestInv
<1>2. QED
  BY <1>1, BestInvariant, PTL

LEMMA BestReplaced == FilesInv /\ BestInv /\ [Next]_vars => [ReplacesWorseBest]_vars
<1> SUFFICES ASSUME FilesInv, BestInv, Next, Saved(Best, Meta),
                    disk'[Best][Meta] # disk[Best][Meta]
             PROVE  snap.metric > disk[Best][Meta].metric
  BY DEF ReplacesWorseBest
<1>1. disk' # disk
  OBVIOUS
<1>2. CASE \E i \in Items : RemoveItem(i)
  <2>1. PICK i \in Items : RemoveItem(i)
    BY <1>2
  <2>2. snap \in Snap /\ pc = "clear"
    BY <2>1 DEF FilesInv, SaveShape, RemoveItem
  <2>3. \A e \in Dirs : \A j \in Items :
          disk'[e][j] = IF e = Clearing /\ j = i THEN Absent ELSE disk[e][j]
    BY <2>1, <2>2, TargetInDirs, SetItemType DEF FilesInv, RemoveItem
  <2>4. Clearing = Best
    BY <2>3, FolderNames, ItemNames
  <2>5. snap.best
    BY <2>2, <2>4, FolderNames DEF Target, Clearing, Snap
  <2>6. QED
    BY <2>2, <2>5 DEF BestInv
<1>3. CASE \E d \in Dirs, i \in Items : WriteItem(d, i)
  <2>1. PICK d \in Dirs, i \in Items : WriteItem(d, i)
    BY <1>3
  <2>2. PICK v \in {Torn, snap} : SetItem(d, i, v)
    BY <2>1 DEF WriteItem
  <2>3. snap \in Snap /\ TypeOK
    BY <2>1 DEF FilesInv, SaveShape, WriteItem
  <2>4. v \in Snap \cup {Absent, Torn}
    BY <2>3
  <2>5. disk'[Best][Meta] = IF Best = d /\ Meta = i THEN v ELSE disk[Best][Meta]
    BY <2>2, <2>3, <2>4, SetItemType, FolderNames, ItemNames
  <2>6. d = Best /\ i = Meta
    BY <2>5
  <2>7. disk[Best][Meta] \in {Absent, Torn}
    BY <2>1, <2>6 DEF WriteItem
  <2>8. QED
    BY <2>7 DEF Saved
<1>4. QED
  BY <1>1, <1>2, <1>3
     DEF Next, Run, Launch, LaunchFresh, LaunchResume, LaunchFallback, LaunchHangs, Starting,
         LaunchFails, Crash, Train, TrainOnly, TrainAndSave, TrainStep, EndEpoch,
         Save, ClearDone, OpenTracker, FinishSave

\* A best_valid that records a metric gives way only to a better one.
THEOREM BestReplacedByBetter == Spec => BestOnlyImproves
BY BestInvariant, BestReplaced, PTL DEF Spec, BestOnlyImproves

-----------------------------------------------------------------------------
(* But for the best ones, a whole "last" is the newest whole checkpoint. *)

\* No save on disk is newer than the state of the loop that may save next.
NothingNewer ==
  \A d \in Dirs : \A i \in Items : Saved(d, i) =>
    /\ disk[d][i].launch <= launch
    /\ pc = "train" /\ disk[d][i].launch = launch => disk[d][i].step < step
    /\ Saving /\ disk[d][i].launch = launch => disk[d][i].step <= snap.step

SavesThisLaunch == Saving => snap.launch = launch

NewestInv == NothingNewer /\ SavesThisLaunch /\ LastIsNewest

LEMMA SnapNumbers ==
  ASSUME TypeOK
  PROVE  /\ launch \in Nat /\ step \in Nat
         /\ \A d \in Dirs : \A i \in Items : Saved(d, i) =>
              disk[d][i].launch \in Nat /\ disk[d][i].step \in Nat
         /\ snap \in Snap => snap.launch \in Nat /\ snap.step \in Nat
BY SavedIsSnap, SizeAssumption DEF TypeOK, Snap, Steps

\* A step that leaves the files alone keeps which checkpoint is the newest.
LEMMA NewestUntouched ==
  ASSUME LastIsNewest, UNCHANGED disk
  PROVE  LastIsNewest'
BY DEF LastIsNewest, Complete, Saved, NewerOrSame

LEMMA NewestAfterLaunch ==
  ASSUME FilesInv, NewestInv, Launch
  PROVE  NewestInv'
<1>1. UNCHANGED disk /\ launch' = launch + 1 /\ pc' \in {"train", "hung", "failed"}
  BY DEF Launch, LaunchFresh, LaunchResume, LaunchFallback, LaunchHangs, LaunchFails, Starting
<1>2. NothingNewer'
  BY <1>1, SnapNumbers DEF FilesInv, NewestInv, NothingNewer, Saved, Saving
<1>3. QED
  BY <1>1, <1>2, NewestUntouched DEF NewestInv, SavesThisLaunch, Saving

LEMMA NewestAfterTrain ==
  ASSUME FilesInv, NewestInv, Train
  PROVE  NewestInv'
<1>1. CASE TrainOnly
  <2>1. UNCHANGED <<disk, launch>> /\ pc = "train" /\ pc' \in {"train", "done"} /\ step' = step + 1
    BY <1>1 DEF TrainOnly, TrainStep
  <2>2. NothingNewer'
    BY <2>1, SnapNumbers DEF FilesInv, NewestInv, NothingNewer, Saved, Saving
  <2>3. QED
    BY <2>1, <2>2, NewestUntouched DEF NewestInv, SavesThisLaunch, Saving
<1>2. ASSUME NEW m \in Metrics \cup {None}, TrainAndSave(m)
      PROVE  NewestInv'
  <2>1. /\ UNCHANGED <<disk, launch>> /\ pc = "train" /\ pc' = "clear"
        /\ snap'.launch = launch /\ snap'.step = step
    BY <1>2 DEF TrainAndSave, TrainStep
  <2>2. NothingNewer'
    BY <2>1, SnapNumbers DEF FilesInv, NewestInv, NothingNewer, Saved, Saving
  <2>3. SavesThisLaunch'
    BY <2>1 DEF SavesThisLaunch
  <2>4. QED
    BY <2>1, <2>2, <2>3, NewestUntouched DEF NewestInv
<1>3. CASE EndEpoch
  <2>1. UNCHANGED <<disk, launch, step>> /\ pc = "train" /\ pc' \in {"train", "done"}
    BY <1>3 DEF EndEpoch
  <2>2. NothingNewer'
    BY <2>1, SnapNumbers DEF FilesInv, NewestInv, NothingNewer, Saved, Saving
  <2>3. QED
    BY <2>1, <2>2, NewestUntouched DEF NewestInv, SavesThisLaunch, Saving
<1>4. QED
  BY <1>1, <1>2, <1>3 DEF Train

LEMMA NewestAfterRemove ==
  ASSUME FilesInv, NewestInv, NEW i \in Items, RemoveItem(i)
  PROVE  NewestInv'
<1>1. snap \in Snap /\ Clearing \in Dirs /\ TypeOK
  BY TargetInDirs DEF FilesInv, SaveShape, RemoveItem
<1>2. \A e \in Dirs : \A j \in Items :
        disk'[e][j] = IF e = Clearing /\ j = i THEN Absent ELSE disk[e][j]
  BY <1>1, SetItemType DEF RemoveItem
<1>3. \A e \in Dirs : \A j \in Items :
        Saved(e, j)' => Saved(e, j) /\ disk'[e][j] = disk[e][j]
  BY <1>2 DEF Saved
<1>4. UNCHANGED <<pc, snap, step, launch>>
  BY DEF RemoveItem
<1>5. NothingNewer'
  BY <1>3, <1>4 DEF NewestInv, NothingNewer, Saving
<1>6. \A e \in Dirs : Complete(e)' => Complete(e) /\ disk'[e][Meta] = disk[e][Meta]
  <2> SUFFICES ASSUME NEW e \in Dirs, Complete(e)'
               PROVE  Complete(e) /\ disk'[e][Meta] = disk[e][Meta]
    OBVIOUS
  <2>1. \A j \in Items : Saved(e, j)'
    BY ItemNames DEF Complete, Saved
  <2>2. \A j \in Items : disk'[e][j] = disk[e][j]
    BY <1>3, <2>1
  <2>3. QED
    BY <2>2, ItemNames DEF Complete, Saved
<1>7. LastIsNewest'
  BY <1>6, FolderNames DEF NewestInv, LastIsNewest, NewerOrSame
<1>8. QED
  BY <1>4, <1>5, <1>7 DEF NewestInv, SavesThisLaunch, Saving

LEMMA NewestAfterWrite ==
  ASSUME FilesInv, NewestInv, NEW d \in Dirs, NEW i \in Items, WriteItem(d, i)
  PROVE  NewestInv'
<1>1. /\ snap \in Snap /\ TypeOK /\ pc = "write"
      /\ d \in {Target, StepDir(snap.step)}
      /\ UNCHANGED <<pc, snap, step, launch>>
  BY DEF FilesInv, SaveShape, WriteItem
<1>2. PICK v \in {Torn, snap} : SetItem(d, i, v)
  BY DEF WriteItem
<1>3. v \in Snap \cup {Absent, Torn}
  BY <1>1
<1>4. \A e \in Dirs : \A j \in Items :
        disk'[e][j] = IF e = d /\ j = i THEN v ELSE disk[e][j]
  BY <1>1, <1>2, <1>3, SetItemType
<1>5. NothingNewer'
  <2> SUFFICES ASSUME NEW e \in Dirs, NEW j \in Items, Saved(e, j)'
               PROVE  /\ disk'[e][j].launch <= launch
                      /\ disk'[e][j].launch = launch => disk'[e][j].step <= snap.step
    BY <1>1 DEF NothingNewer, Saving
  <2>1. CASE e = d /\ j = i
    BY <2>1, <1>1, <1>2, <1>4, SnapNumbers DEF Saved, NewestInv, SavesThisLaunch, Saving
  <2>2. CASE ~(e = d /\ j = i)
    BY <2>2, <1>1, <1>4 DEF Saved, NewestInv, NothingNewer, Saving
  <2>3. QED
    BY <2>1, <2>2
<1>6. SavesThisLaunch'
  BY <1>1 DEF NewestInv, SavesThisLaunch, Saving
<1>7. LastIsNewest'
  <2> SUFFICES ASSUME Complete(Last)', NEW n \in Steps, Complete(StepDir(n))',
                      ~disk'[StepDir(n)][Meta].best
               PROVE  NewerOrSame(disk'[Last][Meta], disk'[StepDir(n)][Meta])
    BY DEF LastIsNewest, NewerOrSame
  <2>1. Last \in Dirs /\ StepDir(n) \in Dirs /\ Meta \in Items
    BY FolderNames, ItemNames
  <2>2. CASE snap.best
    <3>1. Target = Best /\ Last \notin {Target, StepDir(snap.step)}
      BY <1>1, <2>2, FolderNames DEF Target, Snap
    <3>2. \A j \in Items : disk'[Last][j] = disk[Last][j]
      BY <1>1, <1>4, <2>1, <3>1
    <3>3. CASE d = StepDir(n)
      <4>1. disk'[StepDir(n)][Meta] = snap
        BY <1>1, <1>2, <1>4, <2>1, <3>1, <3>3, ItemNames, FolderNames
           DEF FilesInv, WritesFresh, Complete, Saved
      <4>2. QED
        BY <4>1, <2>2
    <3>4. CASE d # StepDir(n)
      <4>1. \A j \in Items : disk'[StepDir(n)][j] = disk[StepDir(n)][j]
        BY <1>4, <2>1, <3>4
      <4>2. Complete(Last) /\ Complete(StepDir(n)) /\ ~disk[StepDir(n)][Meta].best
        BY <2>1, <3>2, <4>1 DEF Complete, Saved
      <4>3. NewerOrSame(disk[Last][Meta], disk[StepDir(n)][Meta])
        BY <4>2 DEF NewestInv, LastIsNewest
      <4>4. QED
        BY <2>1, <3>2, <4>1, <4>3 DEF NewerOrSame
    <3>5. QED
      BY <3>3, <3>4
  <2>3. CASE ~snap.best
    <3>1. Target = Last
      BY <2>3 DEF Target
    <3>2. disk'[Last][Meta] = snap
      BY <1>1, <1>2, <1>4, <2>1, <3>1, ItemNames DEF FilesInv, WritesFresh, Complete, Saved
    <3>3. Saved(StepDir(n), Meta)'
      BY DEF Complete
    <3>4. /\ disk'[StepDir(n)][Meta].launch <= launch
          /\ disk'[StepDir(n)][Meta].launch = launch => disk'[StepDir(n)][Meta].step <= snap.step
      BY <1>1, <1>5, <2>1, <3>3, ItemNames DEF NothingNewer, Saving
    <3>5. TypeOK'
      BY WriteInv DEF FilesInv
    <3>6. disk'[StepDir(n)][Meta] \in Snap
      BY <2>1, <3>3, <3>5, ItemNames DEF TypeOK, Saved
    <3>7. disk'[StepDir(n)][Meta].launch \in Nat /\ disk'[StepDir(n)][Meta].step \in Nat
      BY <3>6, SizeAssumption DEF Snap, Steps
    <3>8. snap.launch = launch /\ launch \in Nat /\ snap.step \in Nat
      BY <1>1, SnapNumbers DEF NewestInv, SavesThisLaunch, Saving
    <3>9. QED
      BY <3>2, <3>4, <3>7, <3>8 DEF NewerOrSame
  <2>4. QED
    BY <2>2, <2>3
<1>8. QED
  BY <1>5, <1>6, <1>7 DEF NewestInv

LEMMA NewestStep == FilesInv /\ NewestInv /\ [Next]_vars => NewestInv'
<1> SUFFICES ASSUME FilesInv, NewestInv, [Next]_vars PROVE NewestInv'
  OBVIOUS
<1>1. CASE Launch
  BY <1>1, NewestAfterLaunch
<1>2. CASE Train
  BY <1>2, NewestAfterTrain
<1>3. CASE Save
  <2>1. CASE ClearDone \/ OpenTracker
    <3>1. UNCHANGED <<disk, snap, step, launch>> /\ Saving /\ Saving'
      BY <2>1 DEF ClearDone, OpenTracker, Saving
    <3>2. NothingNewer' /\ SavesThisLaunch'
      BY <2>1, <3>1 DEF NewestInv, NothingNewer, SavesThisLaunch, Saved, Saving, ClearDone, OpenTracker
    <3>3. QED
      BY <3>1, <3>2, NewestUntouched DEF NewestInv
  <2>2. CASE FinishSave
    <3>1. /\ UNCHANGED <<disk, launch>> /\ pc = "tracker" /\ pc' \in {"done", "train"}
          /\ step' = step + 1 /\ snap.step = step
      BY <2>2 DEF FinishSave, FilesInv, SaveShape
    <3>2. NothingNewer'
      BY <3>1, SnapNumbers DEF FilesInv, NewestInv, NothingNewer, Saved, Saving
    <3>3. QED
      BY <3>1, <3>2, NewestUntouched DEF NewestInv, SavesThisLaunch, Saving
  <2>3. QED
    BY <1>3, <2>1, <2>2, NewestAfterRemove, NewestAfterWrite DEF Save
<1>4. CASE Crash
  <2>1. UNCHANGED <<disk, launch>> /\ pc' = "down"
    BY <1>4 DEF Crash
  <2>2. NothingNewer' /\ SavesThisLaunch'
    BY <2>1 DEF NewestInv, NothingNewer, SavesThisLaunch, Saved, Saving
  <2>3. QED
    BY <2>1, <2>2, NewestUntouched DEF NewestInv
<1>5. CASE UNCHANGED vars
  <2>1. UNCHANGED <<disk, launch, pc, snap, step>>
    BY <1>5 DEF vars
  <2>2. NothingNewer' /\ SavesThisLaunch'
    BY <2>1 DEF NewestInv, NothingNewer, SavesThisLaunch, Saved, Saving
  <2>3. QED
    BY <2>1, <2>2, NewestUntouched DEF NewestInv
<1>6. QED
  BY <1>1, <1>2, <1>3, <1>4, <1>5 DEF Next, Run

\* Resuming from a whole "last" passes over no newer whole checkpoint but one
\* that was saved as the best: over none in MP-OPD's setting (no best metric).
THEOREM LastNewest == Spec => []LastIsNewest
<1>1. Init => NewestInv
  BY FolderNames, ItemNames
     DEF Init, NewestInv, NothingNewer, SavesThisLaunch, LastIsNewest, Complete, Saved, Saving
<1>2. NewestInv => LastIsNewest
  BY DEF NewestInv
<1>3. QED
  BY <1>1, <1>2, NewestStep, FilesInvariant, PTL DEF Spec

-----------------------------------------------------------------------------
(* When no crash falls inside a save, every folder is whole or empty but for the *)
(* two that a save is writing.                                                   *)

\* The order of a save: whatever exists of an item, what it waited for is whole.
Ordered ==
  pc = "write" =>
    \A d \in {Target, StepDir(snap.step)} : \A i \in Items :
      disk[d][i] # Absent => \A n \in Needs(d, i) : disk[n[1]][n[2]] = snap

WholeFolders ==
  \A d \in Dirs : \/ Empty(d) \/ Complete(d)
                  \/ pc \in {"clear", "write"} /\ d \in {Target, StepDir(snap.step)}

BothWritten ==
  pc = "tracker" => \A i \in Items : disk[Target][i] = snap /\ disk[StepDir(snap.step)][i] = snap

\* Then no load finds a torn file, and no rank waits for one that raised.
CleanInv == Ordered /\ WholeFolders /\ BothWritten /\ TrackerNamesComplete /\ pc # "hung"

LEMMA NeedsAre ==
  ASSUME FilesInv, snap \in Snap
  PROVE  LET T == Target  S == StepDir(snap.step)
         IN  /\ Needs(S, Data) = {<<T, Data>>} /\ Needs(T, Data) = {S} \X Shards
             /\ Needs(S, Meta) = {<<T, Meta>>} /\ Needs(T, Meta) = {<<S, Data>>}
             /\ Needs(S, Actor) = {T} \X Shards
             /\ \A r \in Ranks : /\ Needs(S, <<"model", r>>) = {<<S, Actor>>}
                                 /\ Needs(S, <<"optim", r>>) = {<<S, Actor>>}
                                 /\ Needs(T, <<"model", r>>) = {<<T, Actor>>}
                                 /\ Needs(T, <<"optim", r>>) = {<<T, <<"model", r>>>>}
<1>1. StepDir(snap.step) # Target
  BY FolderNames DEF Target, Snap
<1>2. /\ Data # Meta /\ Data # Actor /\ Meta # Actor
      /\ \A r \in Ranks : \A part \in {"model", "optim"} :
           /\ <<part, r>> \in Shards /\ <<part, r>> # Data /\ <<part, r>> # Meta
           /\ <<part, r>> # Actor /\ <<part, r>>[1] = part /\ <<part, r>>[2] = r
  BY DEF Data, Meta, Actor, Shards
<1> HIDE DEF Data, Meta, Actor
<1>3. Data \notin Shards /\ Meta \notin Shards /\ Actor \notin Shards
  BY DEF Data, Meta, Actor, Shards
<1> QED BY <1>1, <1>2, <1>3 DEF Needs

LEMMA NeedsInside ==
  ASSUME FilesInv, snap \in Snap, NEW d \in {Target, StepDir(snap.step)}, NEW i \in Items
  PROVE  \A n \in Needs(d, i) : n[1] \in {Target, StepDir(snap.step)} /\ n[2] \in Items
<1>1. StepDir(snap.step) # Target
  BY FolderNames DEF Target, Snap
<1>2. i \in Shards => <<"model", i[2]>> \in Items
  BY ItemNames DEF Shards
<1> QED BY <1>1, <1>2, ItemNames DEF Needs, Items

\* When meta.pt of the step-named copy is whole, so is everything.
LEMMA AllWritten ==
  ASSUME FilesInv, Ordered, pc = "write", disk[StepDir(snap.step)][Meta] = snap
  PROVE  \A i \in Items : disk[Target][i] = snap /\ disk[StepDir(snap.step)][i] = snap
<1> DEFINE T == Target
           S == StepDir(snap.step)
<1>1. snap \in Snap /\ snap # Absent
  BY SentinelAssumption DEF FilesInv, SaveShape
<1>2. ASSUME NEW d \in {T, S}, NEW i \in Items, disk[d][i] = snap
      PROVE  \A e, j : <<e, j>> \in Needs(d, i) => disk[e][j] = snap
  <2>1. SUFFICES ASSUME NEW e, NEW j, <<e, j>> \in Needs(d, i) PROVE disk[e][j] = snap
    OBVIOUS
  <2>2. disk[<<e, j>>[1]][<<e, j>>[2]] = snap
    BY <1>1, <1>2, <2>1 DEF Ordered
  <2> QED BY <2>2
<1>3. /\ Needs(S, Data) = {<<T, Data>>} /\ Needs(T, Data) = {S} \X Shards
      /\ Needs(S, Meta) = {<<T, Meta>>} /\ Needs(T, Meta) = {<<S, Data>>}
      /\ Needs(S, Actor) = {T} \X Shards
      /\ \A r \in Ranks : /\ Needs(S, <<"model", r>>) = {<<S, Actor>>}
                          /\ Needs(T, <<"model", r>>) = {<<T, Actor>>}
  BY <1>1, NeedsAre
<1> HIDE DEF T, S
<1>4. disk[T][Meta] = snap
  <2>1. <<T, Meta>> \in Needs(S, Meta) /\ disk[S][Meta] = snap
    BY <1>3 DEF S
  <2> QED BY <1>2, <2>1, ItemNames
<1>5. disk[S][Data] = snap
  <2>1. <<S, Data>> \in Needs(T, Meta)
    BY <1>3
  <2> QED BY <1>2, <1>4, <2>1, ItemNames
<1>6. disk[T][Data] = snap
  <2>1. <<T, Data>> \in Needs(S, Data)
    BY <1>3
  <2> QED BY <1>2, <1>5, <2>1, ItemNames
<1>7. ASSUME NEW s \in Shards PROVE disk[S][s] = snap
  <2>1. <<S, s>> \in Needs(T, Data)
    BY <1>3
  <2> QED BY <1>2, <1>6, <2>1, ItemNames
<1>8. PICK r \in Ranks : TRUE
  BY RankAssumption
<1>9. <<"model", r>> \in Shards /\ <<"model", r>> \in Items
  BY ItemNames DEF Shards
<1>10. disk[S][Actor] = snap
  <2>1. <<S, Actor>> \in Needs(S, <<"model", r>>) /\ disk[S][<<"model", r>>] = snap
    BY <1>3, <1>7, <1>9
  <2> QED BY <1>2, <1>9, <2>1
<1>11. ASSUME NEW s \in Shards PROVE disk[T][s] = snap
  <2>1. <<T, s>> \in Needs(S, Actor)
    BY <1>3
  <2> QED BY <1>2, <1>10, <2>1, ItemNames
<1>12. disk[T][Actor] = snap
  <2>1. <<T, Actor>> \in Needs(T, <<"model", r>>) /\ disk[T][<<"model", r>>] = snap
    BY <1>3, <1>9, <1>11
  <2> QED BY <1>2, <1>9, <2>1
<1>13. disk[S][Meta] = snap
  BY DEF S
<1> QED BY <1>4, <1>5, <1>6, <1>7, <1>10, <1>11, <1>12, <1>13 DEF Items, S, T

LEMMA CompleteLoads ==
  ASSUME FilesInv, NEW d \in Dirs, Complete(d)
  PROVE  /\ disk[d][Meta] \in Snap /\ RestoredModel(d) = disk[d][Meta].model
         /\ AllLoad(d) /\ IsCheckpointDir(d) /\ ~Empty(d)
         /\ disk[d][Data] = disk[d][Meta] /\ Torn \notin {disk[d][Data], disk[d][Meta]}
<1>1. disk[d][Meta] \in Snap /\ \A i \in Items : disk[d][i] = disk[d][Meta]
  BY SavedIsSnap, ItemNames DEF Complete, FilesInv
<1>2. disk[d][Meta] # Absent /\ disk[d][Meta] # Torn
  BY DEF Complete, Saved
<1>3. AllLoad(d) /\ Saved(d, Meta) /\ IsCheckpointDir(d) /\ ~Empty(d)
  BY <1>1, <1>2, ItemNames DEF AllLoad, RankLoads, Saved, IsCheckpointDir, Empty
<1> QED BY <1>1, <1>2, <1>3, ItemNames, RestoredModelOfOneSave

\* A launch resumes a whole checkpoint, or starts from nothing, or fails at once.
LEMMA CleanLaunch ==
  ASSUME FilesInv, CleanInv, Launch
  PROVE  /\ pc = "down" /\ UNCHANGED <<disk, tracker, snap>>
         /\ \/ LaunchFresh
            \/ \E d \in Dirs : Complete(d) /\ ResumeDir = d /\ LaunchResume(d)
            \/ pc' = "failed"
<1>1. pc = "down" /\ UNCHANGED <<disk, tracker, snap>>
  BY DEF Launch, LaunchFresh, LaunchResume, LaunchFallback, LaunchHangs, LaunchFails, Starting
<1>2. \A d \in Dirs : Empty(d) \/ Complete(d)
  BY <1>1 DEF CleanInv, WholeFolders
<1>3. ASSUME NEW d \in Dirs, ResumeDir = d PROVE Complete(d)
  <2>1. d # None
    BY SentinelAssumption
  <2>2. IsCheckpointDir(d)
    BY <1>3, <2>1 DEF ResumeDir
  <2> QED BY <1>2, <2>2, ItemNames DEF IsCheckpointDir, Empty
<1>4. ASSUME NEW d \in Dirs, LaunchFallback(d) \/ LaunchHangs(d) PROVE FALSE
  <2>1. Complete(d)
    BY <1>3, <1>4 DEF LaunchFallback, LaunchHangs, Starting
  <2>2. AllLoad(d) /\ Torn \notin {disk[d][Data], disk[d][Meta]}
    BY <2>1, CompleteLoads
  <2>3. ~AllRaise(d)
    BY <2>2, RankAssumption DEF AllLoad, AllRaise
  <2> QED BY <1>4, <2>2, <2>3 DEF LaunchFallback, LaunchHangs
<1>5. ASSUME NEW d \in Dirs, LaunchResume(d) PROVE Complete(d) /\ ResumeDir = d
  BY <1>3, <1>5 DEF LaunchResume, Starting
<1>6. LaunchFails => pc' = "failed"
  BY DEF LaunchFails
<1> QED BY <1>1, <1>4, <1>5, <1>6 DEF Launch

LEMMA CleanUntouched ==
  ASSUME CleanInv, UNCHANGED <<disk, tracker>>, pc \notin {"clear", "write"},
         pc' \notin {"write", "tracker", "hung"}
  PROVE  CleanInv'
BY DEF CleanInv, Ordered, WholeFolders, BothWritten, TrackerNamesComplete, Complete, Empty, Saved

\* Complete means one content throughout.
LEMMA WholeIsComplete ==
  ASSUME NEW d, NEW v \in Snap, \A i \in Items : disk[d][i] = v
  PROVE  Complete(d) /\ disk[d][Meta] = v
BY ItemNames, SentinelAssumption DEF Complete, Saved

LEMMA CleanAfterRemove ==
  ASSUME FilesInv, CleanInv, NEW i \in Items, RemoveItem(i)
  PROVE  CleanInv'
<1>1. snap \in Snap /\ pc = "clear" /\ UNCHANGED <<pc, snap, tracker>>
  BY DEF FilesInv, SaveShape, RemoveItem
<1>2. \A e \in Dirs : \A j \in Items :
        disk'[e][j] = IF e = Clearing /\ j = i THEN Absent ELSE disk[e][j]
  BY <1>1, TargetInDirs, SetItemType DEF FilesInv, RemoveItem
<1>3. Clearing \in {Target, StepDir(snap.step)} /\ Target' = Target
  BY <1>1, TargetInDirs DEF Target
<1>4. \A e \in Dirs : e # Clearing => \A j \in Items : disk'[e][j] = disk[e][j]
  BY <1>2
<1>5. \A e \in Dirs : e # Clearing => (Empty(e)' <=> Empty(e)) /\ (Complete(e)' <=> Complete(e))
  BY <1>4, ItemNames DEF Empty, Complete, Saved
<1>6. WholeFolders'
  BY <1>1, <1>3, <1>5 DEF CleanInv, WholeFolders
<1>7. TrackerNamesComplete'
  <2>1. SUFFICES ASSUME tracker \in Steps, snap.step # tracker PROVE Complete(StepDir(tracker))'
    BY <1>1 DEF TrackerNamesComplete
  <2>2. StepDir(tracker) \in Dirs /\ StepDir(tracker) # Clearing
    BY <1>1, <1>3, <2>1, FolderNames, TargetInDirs DEF StepDir
  <2> QED BY <1>1, <1>5, <2>1, <2>2 DEF CleanInv, TrackerNamesComplete
<1> QED BY <1>1, <1>6, <1>7 DEF CleanInv, Ordered, BothWritten

LEMMA CleanAfterWrite ==
  ASSUME FilesInv, CleanInv, NEW d \in Dirs, NEW i \in Items, WriteItem(d, i)
  PROVE  CleanInv'
<1>0. /\ snap \in Snap /\ d \in {Target, StepDir(snap.step)}
      /\ pc = "write" /\ UNCHANGED <<pc, snap, tracker>>
      /\ \A n \in Needs(d, i) : disk[n[1]][n[2]] = snap
  BY DEF FilesInv, SaveShape, WriteItem
<1>1. PICK v \in {Torn, snap} : SetItem(d, i, v) /\ disk[d][i] \in {Absent, Torn}
  BY <1>0 DEF WriteItem
<1>2. \A e \in Dirs : \A j \in Items :
        disk'[e][j] = IF e = d /\ j = i THEN v ELSE disk[e][j]
  BY <1>0, <1>1, SetItemType DEF FilesInv
<1>3. Target' = Target /\ snap' = snap
  BY <1>0 DEF Target
<1>4. Target \in Dirs /\ StepDir(snap.step) \in Dirs /\ StepDir(snap.step) # Target
      /\ Target \in {Last, Best}
  BY <1>0, FolderNames, TargetInDirs DEF Target, Snap
<1>5. ASSUME NEW e \in Dirs, NEW j \in Items, disk[e][j] = snap PROVE disk'[e][j] = snap
  BY <1>0, <1>1, <1>2, <1>5, SentinelAssumption
<1>6. Ordered'
  <2>1. SUFFICES ASSUME NEW e \in {Target, StepDir(snap.step)}, NEW j \in Items,
                        disk'[e][j] # Absent, NEW n \in Needs(e, j)
                 PROVE  disk'[n[1]][n[2]] = snap
    <3>1. \A e, j : Needs(e, j)' = Needs(e, j)
      BY <1>3 DEF Needs
    <3> QED BY <1>3, <3>1 DEF Ordered
  <2>2. disk[n[1]][n[2]] = snap
    <3>1. CASE e = d /\ j = i
      BY <1>0, <3>1
    <3>2. CASE ~(e = d /\ j = i)
      <4>1. disk[e][j] # Absent
        BY <1>2, <1>4, <2>1, <3>2
      <4> QED BY <1>0, <4>1 DEF CleanInv, Ordered
    <3> QED BY <3>1, <3>2
  <2>3. n[1] \in Dirs /\ n[2] \in Items
    BY <1>0, <1>4, NeedsInside
  <2> QED BY <1>5, <2>2, <2>3
<1>7. \A e \in Dirs : e # d => (Empty(e)' <=> Empty(e)) /\ (Complete(e)' <=> Complete(e))
  BY <1>2, ItemNames DEF Empty, Complete, Saved
<1>8. WholeFolders'
  BY <1>0, <1>3, <1>7 DEF CleanInv, WholeFolders
<1>9. TrackerNamesComplete'
  <2>1. SUFFICES ASSUME tracker \in Steps, snap.step # tracker PROVE Complete(StepDir(tracker))'
    BY <1>0 DEF TrackerNamesComplete
  <2>2. StepDir(tracker) \in Dirs /\ StepDir(tracker) # d
    BY <1>0, <1>4, <2>1, FolderNames DEF StepDir
  <2> QED BY <1>0, <1>7, <2>1, <2>2 DEF CleanInv, TrackerNamesComplete
<1> QED BY <1>0, <1>6, <1>8, <1>9 DEF CleanInv, BothWritten

LEMMA CleanStep == ~CrashInSave /\ FilesInv /\ CleanInv /\ [Next]_vars => CleanInv'
<1> SUFFICES ASSUME ~CrashInSave, FilesInv, CleanInv, [Next]_vars PROVE CleanInv'
  OBVIOUS
<1>1. CASE Launch
  <2>1. pc = "down" /\ UNCHANGED <<disk, tracker>> /\ pc' \in {"train", "failed"}
    BY <1>1, CleanLaunch DEF LaunchFresh, LaunchResume
  <2> QED BY <2>1, CleanUntouched
<1>2. CASE Train
  <2>1. pc = "train" /\ UNCHANGED <<disk, tracker>> /\ pc' \in {"train", "clear", "done"}
    BY <1>2 DEF Train, TrainOnly, TrainAndSave, TrainStep, EndEpoch
  <2> QED BY <2>1, CleanUntouched
<1>3. CASE Save
  <2>1. CASE ClearDone
    <3>1. /\ pc = "clear" /\ pc' = "write" /\ UNCHANGED <<disk, tracker, snap>>
          /\ Empty(Target) /\ Empty(StepDir(snap.step))
      BY <2>1 DEF ClearDone
    <3>2. Target' = Target
      BY <3>1 DEF Target
    <3> QED BY <3>1, <3>2 DEF CleanInv, Ordered, WholeFolders, BothWritten,
                              TrackerNamesComplete, Complete, Empty, Saved
  <2>2. CASE OpenTracker
    <3>1. /\ pc = "write" /\ pc' = "tracker" /\ UNCHANGED <<disk, snap>> /\ tracker' = Torn
          /\ disk[StepDir(snap.step)][Meta] = snap /\ snap \in Snap
      BY <2>2 DEF OpenTracker, FilesInv, SaveShape
    <3>2. /\ \A i \in Items : disk[Target][i] = snap /\ disk[StepDir(snap.step)][i] = snap
          /\ Target' = Target
      BY <3>1, AllWritten DEF CleanInv, Target
    <3>3. Complete(Target) /\ Complete(StepDir(snap.step))
      BY <3>1, <3>2, WholeIsComplete
    <3>4. WholeFolders'
      BY <3>1, <3>3 DEF CleanInv, WholeFolders, Complete, Empty, Saved
    <3>5. TrackerNamesComplete'
      BY <3>1, SentinelAssumption DEF TrackerNamesComplete, Steps
    <3> QED BY <3>1, <3>2, <3>4, <3>5 DEF CleanInv, Ordered, BothWritten
  <2>3. CASE FinishSave
    <3>1. /\ pc = "tracker" /\ pc' \in {"train", "done"} /\ UNCHANGED disk
          /\ tracker' = snap.step /\ snap \in Snap
      BY <2>3 DEF FinishSave, FilesInv, SaveShape
    <3>2. Complete(StepDir(snap.step))
      BY <3>1, WholeIsComplete DEF CleanInv, BothWritten
    <3> QED BY <3>1, <3>2 DEF CleanInv, Ordered, WholeFolders, BothWritten,
                              TrackerNamesComplete, Complete, Empty, Saved
  <2> QED BY <1>3, <2>1, <2>2, <2>3, CleanAfterRemove, CleanAfterWrite DEF Save
<1>4. CASE Crash
  <2>1. pc = "train" /\ UNCHANGED <<disk, tracker>> /\ pc' = "down"
    BY <1>4 DEF Crash, CleanInv
  <2> QED BY <2>1, CleanUntouched
<1>5. CASE UNCHANGED vars
  <2>1. UNCHANGED <<disk, tracker, snap, pc>> /\ \A d, i : Needs(d, i)' = Needs(d, i)
    BY <1>5 DEF vars, Needs, Target
  <2> QED BY <2>1 DEF CleanInv, Ordered, WholeFolders, BothWritten, TrackerNamesComplete,
                      Complete, Empty, Saved, Target
<1> QED BY <1>1, <1>2, <1>3, <1>4, <1>5 DEF Next, Run

LEMMA CleanInvariant ==
  ASSUME ~CrashInSave
  PROVE  Spec => [](FilesInv /\ CleanInv)
<1>1. Init => CleanInv
  <2>1. Init => \A d \in Dirs : Empty(d)
    BY DEF Init, Empty
  <2> QED BY <2>1, SentinelAssumption
             DEF Init, CleanInv, Ordered, WholeFolders, BothWritten, TrackerNamesComplete, Steps
<1> QED BY <1>1, CleanStep, FilesInvariant, PTL DEF Spec

\* With crashes between saves only, the tracker names a whole step-named copy, but
\* while that copy is being written again.
THEOREM TrackerNamesWholeCopies ==
  ASSUME ~CrashInSave
  PROVE  Spec => []TrackerNamesComplete
<1>1. CleanInv => TrackerNamesComplete
  BY DEF CleanInv
<1> QED BY <1>1, CleanInvariant, PTL

-----------------------------------------------------------------------------
(* fit() counts its steps. *)

\* The step number counts the batches in the weights and is not behind the dataloader.
StepCounts(s) == s.pos <= s.step /\ \A r \in Ranks : s.model[r] = s.step

Counted ==
  /\ pc = "train" => /\ step \in 1 .. Total /\ epoch < Epochs
                     /\ epoch * Batches + pos < step
                     /\ \A r \in Ranks : model[r] = step - 1
  /\ Saving => /\ step \in 1 .. Total /\ epoch < Epochs
               /\ epoch * Batches + pos <= step
               /\ snap.model = model /\ StepCounts(snap)
  /\ \A d \in Dirs : Complete(d) =>
       /\ StepCounts(disk[d][Meta])
       /\ disk[d][Meta].step < Total \/ pc = "done" \/ (Saving /\ disk[d][Meta] = snap)
  /\ LastStepSaved

LEMMA Products ==
  /\ Batches \in Nat /\ 0 * Batches = 0
  /\ \A e \in Nat : e * Batches \in Nat /\ (e + 1) * Batches = e * Batches + Batches
  /\ Epochs * Batches = Batches * Epochs
BY SizeAssumption

\* A step that leaves disk alone and does not save.
LEMMA CountedUntouched ==
  ASSUME Counted, UNCHANGED disk, ~Saving, pc # "done", pc' # "done"
  PROVE  \A d \in Dirs : Complete(d)' =>
           /\ StepCounts(disk'[d][Meta])
           /\ disk'[d][Meta].step < Total
BY DEF Counted, Complete, Saved

\* While a save runs every folder that is whole was so before, or is the save's.
LEMMA CompleteAfterSave ==
  ASSUME FilesInv, Save
  PROVE  /\ Saving /\ snap \in Snap
         /\ \A d \in Dirs : Complete(d)' =>
              \/ Complete(d) /\ disk'[d][Meta] = disk[d][Meta]
              \/ pc = "write" /\ pc' = "write" /\ UNCHANGED snap /\ disk'[d][Meta] = snap
<1>1. Saving /\ snap \in Snap
  BY DEF Save, RemoveItem, ClearDone, WriteItem, OpenTracker, FinishSave, Saving,
         FilesInv, SaveShape
<1>2. CASE ClearDone \/ OpenTracker \/ FinishSave
  <2>1. UNCHANGED disk
    BY <1>2 DEF ClearDone, OpenTracker, FinishSave
  <2> QED BY <1>1, <2>1 DEF Complete, Saved
<1>3. ASSUME NEW i \in Items, RemoveItem(i), NEW d \in Dirs, Complete(d)'
      PROVE  Complete(d) /\ disk'[d][Meta] = disk[d][Meta]
  <2>1. \A e \in Dirs : \A j \in Items :
          disk'[e][j] = IF e = Clearing /\ j = i THEN Absent ELSE disk[e][j]
    BY <1>1, <1>3, TargetInDirs, SetItemType DEF FilesInv, RemoveItem
  <2>2. d # Clearing
    BY <1>3, <2>1, ItemNames DEF Complete, Saved
  <2> QED BY <1>3, <2>1, <2>2, ItemNames DEF Complete, Saved
<1>4. ASSUME NEW e \in Dirs, NEW i \in Items, WriteItem(e, i), NEW d \in Dirs, Complete(d)'
      PROVE  \/ Complete(d) /\ disk'[d][Meta] = disk[d][Meta]
             \/ pc = "write" /\ pc' = "write" /\ UNCHANGED snap /\ disk'[d][Meta] = snap
  <2>1. pc = "write" /\ pc' = "write" /\ UNCHANGED snap
    BY <1>4 DEF WriteItem
  <2>2. PICK v \in {Torn, snap} : SetItem(e, i, v)
    BY <1>4 DEF WriteItem
  <2>3. \A o \in Dirs : \A j \in Items :
          disk'[o][j] = IF o = e /\ j = i THEN v ELSE disk[o][j]
    BY <1>1, <2>2, SetItemType DEF FilesInv
  <2>4. CASE d = e
    <3>1. disk'[d][i] = v /\ disk'[d][i] = disk'[d][Meta] /\ disk'[d][Meta] # Torn
      BY <1>4, <2>3, <2>4 DEF Complete, Saved
    <3> QED BY <2>1, <2>2, <3>1
  <2>5. CASE d # e
    BY <1>4, <2>3, <2>5, ItemNames DEF Complete, Saved
  <2> QED BY <2>4, <2>5
<1> QED BY <1>1, <1>2, <1>3, <1>4 DEF Save

LEMMA CountedAfterLaunch ==
  ASSUME Loop = "fit", FilesInv, CleanInv, Counted, Launch
  PROVE  Counted'
<1>1. /\ pc = "down" /\ UNCHANGED disk /\ pc' \in {"train", "failed"}
      /\ \/ LaunchFresh
         \/ \E d \in Dirs : Complete(d) /\ ResumeDir = d /\ LaunchResume(d)
         \/ pc' = "failed"
  BY CleanLaunch DEF LaunchFresh, LaunchResume
<1>2. /\ ~Saving' /\ LastStepSaved'
      /\ \A d \in Dirs : Complete(d)' =>
           StepCounts(disk'[d][Meta]) /\ disk'[d][Meta].step < Total
  BY <1>1, CountedUntouched DEF Saving, LastStepSaved
<1>3. ASSUME pc' = "train"
      PROVE  /\ step' \in 1 .. Total /\ epoch' < Epochs
             /\ epoch' * Batches + pos' < step'
             /\ \A r \in Ranks : model'[r] = step' - 1
  <2>1. CASE LaunchFresh
    BY <2>1, Products, SizeAssumption DEF LaunchFresh, Starting, FirstStep, BaseModel
  <2>2. ASSUME NEW d \in Dirs, Complete(d), LaunchResume(d)
        PROVE  /\ step' \in 1 .. Total /\ epoch' < Epochs
               /\ epoch' * Batches + pos' < step'
               /\ \A r \in Ranks : model'[r] = step' - 1
    <3> DEFINE s == disk[d][Meta]
    <3>1. /\ s \in Snap /\ s.step \in Nat /\ s.pos \in Nat /\ s.model \in [Ranks -> Nat]
          /\ RestoredModel(d) = s.model /\ disk[d][Data] = s
      BY <2>2, CompleteLoads, SizeAssumption DEF Snap, Steps
    <3>2. StepCounts(s) /\ s.step < Total
      BY <1>1, <2>2 DEF Counted, Saving
    <3>3. Saved(d, Meta) /\ Saved(d, Data)
      BY <2>2, ItemNames DEF Complete, Saved
    <3>4. step' = s.step + 1 /\ pos' = s.pos /\ model' = s.model /\ epoch' = 0
      BY <2>2, <3>1, <3>3 DEF LaunchResume, Starting, FirstStep
    <3> HIDE DEF s
    <3> QED BY <3>1, <3>2, <3>4, Products, SizeAssumption DEF StepCounts
  <2> QED BY <1>1, <1>3, <2>1, <2>2
<1> QED BY <1>2, <1>3 DEF Counted

LEMMA CountedAfterTrain ==
  ASSUME Loop = "fit", FilesInv, Counted, Train
  PROVE  Counted' /\ pc' # "done"
<1>1. /\ pc = "train" /\ UNCHANGED disk
      /\ step \in 1 .. Total /\ epoch < Epochs /\ epoch * Batches + pos < step
      /\ \A r \in Ranks : model[r] = step - 1
  BY DEF Train, TrainOnly, TrainAndSave, TrainStep, EndEpoch, Counted
<1>2. /\ model \in [Ranks -> Nat] /\ step \in Nat /\ pos \in Nat /\ epoch \in Nat
      /\ Total \in Nat /\ epoch * Batches \in Nat /\ Epochs \in Nat
  <2>1. TypeOK
    BY DEF FilesInv
  <2>2. Batches * Epochs \in Nat
    BY SizeAssumption
  <2>3. Total \in Nat
    BY <2>2, SizeAssumption
  <2> QED BY <2>1, <2>3, Products, SizeAssumption DEF TypeOK
<1>3. pc' # "done" =>
        \A d \in Dirs : Complete(d)' =>
          StepCounts(disk'[d][Meta]) /\ disk'[d][Meta].step < Total
  BY <1>1, CountedUntouched DEF Saving
<1>4. CASE TrainOnly
  <2>1. /\ ~LastStep /\ pc' = "train" /\ step' = step + 1 /\ pos' = pos + 1 /\ epoch' = epoch
        /\ model' = Trained
    BY <1>4 DEF TrainOnly, TrainStep, SaveDue
  <2>2. step < Total
    BY <1>2, <2>1 DEF LastStep
  <2>3. \A r \in Ranks : model'[r] = step' - 1
    BY <1>1, <1>2, <2>1 DEF Trained
  <2>4. step' \in 1 .. Total /\ epoch' * Batches + pos' < step'
    BY <1>1, <1>2, <2>1, <2>2
  <2> QED BY <1>1, <1>3, <2>1, <2>3, <2>4 DEF Counted, LastStepSaved, Saving
<1>5. ASSUME NEW m \in Metrics \cup {None}, TrainAndSave(m)
      PROVE  Counted' /\ pc' # "done"
  <2>1. /\ pc' = "clear" /\ step' = step /\ pos' = pos + 1 /\ epoch' = epoch
        /\ model' = Trained
        /\ snap'.model = Trained /\ snap'.step = step /\ snap'.pos = pos + 1
    BY <1>5 DEF TrainAndSave, TrainStep
  <2>2. \A r \in Ranks : Trained[r] = step
    BY <1>1, <1>2 DEF Trained
  <2>3. epoch' * Batches + pos' <= step' /\ pos + 1 <= step
    <3>1. epoch * Batches + pos + 1 <= step
      BY <1>1, <1>2
    <3> QED BY <1>2, <2>1, <3>1
  <2>4. StepCounts(snap')
    BY <2>1, <2>2, <2>3 DEF StepCounts
  <2> QED BY <1>1, <1>3, <2>1, <2>3, <2>4 DEF Counted, LastStepSaved, Saving
<1>6. CASE EndEpoch
  <2>1. /\ pos = Batches /\ pos' = 0 /\ epoch' = epoch + 1 /\ UNCHANGED <<model, step>>
        /\ pc' = IF epoch + 1 < Epochs THEN "train" ELSE "done"
    BY <1>6 DEF EndEpoch
  <2>2. (epoch + 1) * Batches = epoch * Batches + Batches
    BY <1>2, Products
  <2>3. (epoch + 1) * Batches + 0 < step
    BY <1>1, <1>2, <2>1, <2>2, Products
  <2>4. epoch + 1 < Epochs
    <3>1. SUFFICES ASSUME epoch + 1 = Epochs PROVE FALSE
      BY <1>1, <1>2
    <3>2. Epochs * Batches < step /\ step <= Total /\ Total <= Batches * Epochs
      <4>1. Batches * Epochs \in Nat
        BY SizeAssumption
      <4>2. Total <= Batches * Epochs
        BY <4>1, SizeAssumption
      <4>3. (epoch + 1) * Batches < step
        BY <1>2, <2>2, <2>3, Products
      <4> QED BY <1>1, <3>1, <4>2, <4>3
    <3>3. Epochs * Batches = Batches * Epochs /\ Batches * Epochs \in Nat
      BY Products, SizeAssumption
    <3> QED BY <1>2, <3>2, <3>3
  <2>5. pc' = "train" /\ epoch' * Batches + pos' < step'
    BY <2>1, <2>3, <2>4
  <2> QED BY <1>1, <1>3, <2>1, <2>4, <2>5 DEF Counted, LastStepSaved, Saving
<1> QED BY <1>4, <1>5, <1>6 DEF Train

LEMMA CountedAfterSave ==
  ASSUME Loop = "fit", FilesInv, CleanInv, Counted, Save
  PROVE  Counted'
<1>1. /\ Saving /\ snap \in Snap /\ snap.step = step
      /\ \A d \in Dirs : Complete(d)' =>
           \/ Complete(d) /\ disk'[d][Meta] = disk[d][Meta]
           \/ pc = "write" /\ pc' = "write" /\ UNCHANGED snap /\ disk'[d][Meta] = snap
  BY CompleteAfterSave DEF FilesInv, SaveShape, Saving
<1>2. /\ step \in 1 .. Total /\ epoch < Epochs /\ epoch * Batches + pos <= step
      /\ snap.model = model /\ StepCounts(snap)
      /\ \A d \in Dirs : Complete(d) =>
           StepCounts(disk[d][Meta]) /\ (disk[d][Meta].step < Total \/ disk[d][Meta] = snap)
  BY <1>1 DEF Counted, Saving
<1>3. CASE ~FinishSave
  <2>1. Saving' /\ UNCHANGED <<step, epoch, pos, model, snap>>
    BY <1>3 DEF Save, RemoveItem, ClearDone, WriteItem, OpenTracker, Saving
  <2>2. \A d \in Dirs : Complete(d)' =>
          StepCounts(disk'[d][Meta]) /\ (disk'[d][Meta].step < Total \/ disk'[d][Meta] = snap)
    BY <1>1, <1>2
  <2>3. pc' # "train" /\ pc' # "done"
    BY <2>1 DEF Saving
  <2> QED BY <1>2, <2>1, <2>2, <2>3 DEF Counted, LastStepSaved
<1>4. CASE FinishSave
  <2>1. /\ pc = "tracker" /\ step' = step + 1 /\ UNCHANGED <<disk, model, pos, epoch>>
        /\ pc' = IF LastStep THEN "done" ELSE "train"
    BY <1>4 DEF FinishSave
  <2>2. /\ step \in Nat /\ pos \in Nat /\ epoch * Batches \in Nat /\ Total \in Nat
        /\ model \in [Ranks -> Nat]
    <3>1. Batches * Epochs \in Nat
      BY SizeAssumption
    <3>2. Total \in Nat
      BY <3>1, SizeAssumption
    <3> QED BY <3>2, Products DEF FilesInv, TypeOK
  <2>3. Complete(Target) /\ disk[Target][Meta] = snap /\ Target \in Dirs
    BY <1>1, <2>1, WholeIsComplete, TargetInDirs DEF CleanInv, BothWritten
  <2>4. pc' = "done" => LastStepSaved'
    <3>1. PICK d \in Dirs : Complete(d) /\ disk[d][Meta] = snap
      BY <2>3
    <3>2. Complete(d)' /\ disk'[d][Meta].model = model'
      BY <1>2, <2>1, <3>1 DEF Complete, Saved
    <3> QED BY <3>2 DEF LastStepSaved
  <2>5. pc' = "train" => /\ step < Total
                         /\ step' \in 1 .. Total /\ epoch' * Batches + pos' < step'
                         /\ \A r \in Ranks : model'[r] = step' - 1
    BY <1>1, <1>2, <2>1, <2>2 DEF LastStep, StepCounts
  <2>6. \A d \in Dirs : Complete(d)' =>
          StepCounts(disk'[d][Meta]) /\ (disk'[d][Meta].step < Total \/ pc' = "done")
    <3>1. SUFFICES ASSUME NEW d \in Dirs, Complete(d)'
                   PROVE  StepCounts(disk'[d][Meta])
                          /\ (disk'[d][Meta].step < Total \/ pc' = "done")
      OBVIOUS
    <3>2. Complete(d) /\ disk'[d][Meta] = disk[d][Meta]
      BY <2>1, <3>1 DEF Complete, Saved
    <3>3. pc' = "train" \/ pc' = "done"
      BY <2>1
    <3>4. disk[d][Meta] = snap => disk[d][Meta].step < Total \/ pc' = "done"
      BY <1>1, <2>5, <3>3
    <3> QED BY <1>2, <3>2, <3>4
  <2>7. ~Saving' /\ (pc' # "done" => LastStepSaved')
    BY <2>1 DEF Saving, LastStepSaved
  <2> QED BY <1>2, <2>1, <2>4, <2>5, <2>6, <2>7 DEF Counted
<1> QED BY <1>3, <1>4

LEMMA CountedStep ==
  Loop = "fit" /\ ~CrashInSave /\ FilesInv /\ CleanInv /\ Counted /\ [Next]_vars => Counted'
<1> SUFFICES ASSUME Loop = "fit", ~CrashInSave, FilesInv, CleanInv, Counted, [Next]_vars
             PROVE  Counted'
  OBVIOUS
<1>1. CASE Crash
  <2>1. pc = "train" /\ UNCHANGED disk /\ pc' = "down"
    BY <1>1 DEF Crash, CleanInv
  <2> QED BY <2>1, CountedUntouched DEF Counted, LastStepSaved, Saving
<1>2. CASE UNCHANGED vars
  <2>1. UNCHANGED <<disk, pc, snap, step, epoch, pos, model>>
    BY <1>2 DEF vars
  <2> QED BY <2>1 DEF Counted, LastStepSaved, Saving, StepCounts, Complete, Saved
<1> QED BY <1>1, <1>2, CountedAfterLaunch, CountedAfterTrain, CountedAfterSave DEF Next, Run

LEMMA CountedInvariant ==
  ASSUME Loop = "fit", ~CrashInSave
  PROVE  Spec => [](FilesInv /\ CleanInv /\ Counted)
<1>1. Init => Counted
  <2>1. Init => \A d \in Dirs : ~Complete(d)
    BY ItemNames DEF Init, Complete, Saved
  <2> QED BY <2>1 DEF Init, Counted, LastStepSaved, Saving
<1> QED BY <1>1, CountedStep, CleanInvariant, PTL DEF Spec

\* fit() does not return before the weights it trained are in a whole checkpoint,
\* also after resumes.
THEOREM FitSavesLastStep ==
  ASSUME Loop = "fit", ~CrashInSave
  PROVE  Spec => []LastStepSaved
<1>1. Counted => LastStepSaved
  BY DEF Counted
<1> QED BY <1>1, CountedInvariant, PTL

-----------------------------------------------------------------------------
(* A resume goes back to the last save that was due. *)

\* The step that "last" holds.
LastStepOnDisk == IF Complete(Last) THEN disk[Last][Meta].step ELSE 0

\* Without a best metric every save goes to "last", and what was trained since is
\* less than an interval.
OneInterval ==
  /\ Saving => ~snap.best /\ SaveDue
  /\ ~Saving => \A d \in Dirs : Complete(d) => Complete(Last)
  /\ pc \in {"train", "down"} =>
       /\ LastStepOnDisk % SaveFreq = 0
       /\ \A r \in Ranks : model[r] < LastStepOnDisk + SaveFreq

\* Multiples of c are c apart.
LEMMA NextMultiple ==
  ASSUME NEW c \in Nat \ {0}, NEW n \in Nat, n % c = 0
  PROVE  (n + c) % c = 0
<1> DEFINE q == n \div c
           m == n + c
           k == m \div c
           t == m % c
<1>1. \A a \in Nat : /\ a \div c \in Nat /\ a % c \in 0 .. c - 1
                     /\ a = c * (a \div c) + (a % c)
  OBVIOUS
<1>2. n = c * q /\ q \in Nat
  BY <1>1
<1>3. m \in Nat /\ k \in Nat /\ t \in 0 .. c - 1 /\ m = c * k + t
  BY <1>1
<1>4. m = c * (q + 1)
  <2>1. c * (q + 1) = c * q + c
    BY <1>2
  <2> QED BY <1>2, <2>1
<1> HIDE DEF q, m, k, t
<1>5. \A a, b \in Nat : a < b => c * a + c <= c * b
  OBVIOUS
<1>6. \A x \in Nat : c * x \in Nat
  OBVIOUS
<1>7. k = q + 1
  BY <1>2, <1>3, <1>4, <1>5, <1>6
<1>8. t = 0
  BY <1>2, <1>3, <1>4, <1>6, <1>7
<1> QED BY <1>8 DEF t, m

\* A launch resumes "last", or "last" is not there.
LEMMA ResumesLast ==
  ASSUME FilesInv, CleanInv, OneInterval, Launch, pc' = "train"
  PROVE  /\ pc = "down" /\ UNCHANGED disk
         /\ \/ Complete(Last) /\ model' = disk[Last][Meta].model
            \/ ~Complete(Last) /\ model' = BaseModel
<1>1. /\ pc = "down" /\ UNCHANGED disk
      /\ \/ LaunchFresh
         \/ \E d \in Dirs : Complete(d) /\ ResumeDir = d /\ LaunchResume(d)
  BY CleanLaunch
<1>2. Complete(Last) => IsCheckpointDir(Last) /\ RestoredModel(Last) = disk[Last][Meta].model
  BY FolderNames, CompleteLoads
<1>3. Complete(Last) => ResumeDir = Last
  BY <1>2 DEF ResumeDir
<1>4. CASE LaunchFresh
  <2>1. ResumeDir = None /\ None # Last /\ model' = BaseModel
    BY <1>4, FolderNames, SentinelAssumption DEF LaunchFresh, Starting
  <2> QED BY <1>1, <1>3, <2>1
<1>5. ASSUME NEW d \in Dirs, Complete(d), ResumeDir = d, LaunchResume(d)
      PROVE  Complete(Last) /\ model' = disk[Last][Meta].model
  <2>1. Complete(Last)
    BY <1>1, <1>5 DEF OneInterval, Saving
  <2>2. d = Last
    BY <1>3, <1>5, <2>1
  <2> QED BY <1>2, <1>5, <2>1, <2>2 DEF LaunchResume
<1> QED BY <1>1, <1>4, <1>5

LEMMA IntervalStep ==
  ASSUME Loop = "fit", ~CrashInSave, Metrics = {}, FilesInv, CleanInv, Counted, OneInterval,
         [Next]_vars
  PROVE  OneInterval' /\ [pc = "down" /\ pc' = "train" =>
                            \A r \in Ranks : model'[r] + SaveFreq > model[r]]_vars
<1>1. /\ model \in [Ranks -> Nat] /\ SaveFreq \in Nat \ {0}
      /\ LastStepOnDisk \in Nat
      /\ Complete(Last) => \A r \in Ranks : disk[Last][Meta].model[r] = LastStepOnDisk
  <2>1. Complete(Last) => disk[Last][Meta] \in Snap
    BY FolderNames, CompleteLoads
  <2>2. Complete(Last) => \A r \in Ranks : disk[Last][Meta].model[r] = disk[Last][Meta].step
    BY FolderNames DEF Counted, StepCounts
  <2> QED BY <2>1, <2>2, SizeAssumption DEF FilesInv, TypeOK, LastStepOnDisk, Snap, Steps
<1>2. ASSUME UNCHANGED disk
      PROVE  /\ LastStepOnDisk' = LastStepOnDisk
             /\ \A d \in Dirs : Complete(d)' <=> Complete(d)
             /\ Complete(Last)' <=> Complete(Last)
  BY <1>2 DEF LastStepOnDisk, Complete, Saved
<1>3. CASE Launch
  <2>1. pc = "down" /\ UNCHANGED disk /\ pc' \in {"train", "failed"}
    BY <1>3, CleanLaunch DEF LaunchFresh, LaunchResume
  <2>2. LastStepOnDisk % SaveFreq = 0 /\ \A r \in Ranks : model[r] < LastStepOnDisk + SaveFreq
    BY <2>1 DEF OneInterval
  <2>3. pc' = "train" => \A r \in Ranks : model'[r] = LastStepOnDisk
    BY <1>1, <1>3, ResumesLast DEF LastStepOnDisk, BaseModel
  <2>4. OneInterval'
    BY <1>1, <1>2, <2>1, <2>2, <2>3 DEF OneInterval, Saving
  <2>5. pc = "down" /\ pc' = "train" => \A r \in Ranks : model'[r] + SaveFreq > model[r]
    BY <1>1, <2>2, <2>3
  <2> QED BY <2>4, <2>5
<1>4. ASSUME pc # "down", OneInterval'
      PROVE  OneInterval' /\ [pc = "down" /\ pc' = "train" =>
                                \A r \in Ranks : model'[r] + SaveFreq > model[r]]_vars
  BY <1>4
<1>5. CASE Train
  <2>1. pc = "train" /\ UNCHANGED disk /\ pc' # "done"
    BY <1>5, CountedAfterTrain DEF Train, TrainOnly, TrainAndSave, TrainStep, EndEpoch
  <2>2. /\ LastStepOnDisk % SaveFreq = 0
        /\ \A r \in Ranks : model[r] < LastStepOnDisk + SaveFreq
        /\ \A r \in Ranks : model[r] = step - 1
        /\ step \in Nat
    BY <2>1 DEF OneInterval, Counted, FilesInv, TypeOK
  <2>3. CASE TrainOnly
    <3>1. pc' = "train" /\ step % SaveFreq # 0 /\ model' = Trained
      BY <2>3, <2>1 DEF TrainOnly, TrainStep, SaveDue, LastStep
    <3>2. step # LastStepOnDisk + SaveFreq
      BY <1>1, <2>2, <3>1, NextMultiple
    <3>3. \A r \in Ranks : model'[r] < LastStepOnDisk + SaveFreq
      BY <1>1, <2>2, <3>1, <3>2 DEF Trained
    <3>4. OneInterval'
      BY <1>2, <2>1, <2>2, <3>1, <3>3 DEF OneInterval, Saving
    <3> QED BY <1>4, <2>1, <3>4
  <2>4. ASSUME NEW m \in Metrics \cup {None}, TrainAndSave(m)
        PROVE  OneInterval'
    <3>1. m = None
      OBVIOUS
    <3>2. ~IsBetter(m)
      BY <3>1 DEF IsBetter
    <3>3. pc' = "clear" /\ ~snap'.best /\ SaveDue /\ step' = step
      BY <2>4, <3>2 DEF TrainAndSave
    <3>4. SaveDue'
      BY <3>3 DEF SaveDue, LastStep
    <3> QED BY <3>3, <3>4 DEF OneInterval, Saving
  <2>5. CASE EndEpoch
    <3>1. pc' = "train" /\ model' = model
      BY <2>1, <2>5 DEF EndEpoch
    <3> QED BY <1>2, <1>4, <2>1, <2>2, <3>1 DEF OneInterval, Saving
  <2> QED BY <1>4, <1>5, <2>1, <2>3, <2>4, <2>5 DEF Train
<1>6. CASE Save
  <2>1. Saving /\ pc # "down" /\ snap \in Snap /\ snap.step = step /\ ~snap.best /\ SaveDue
    BY <1>6, CompleteAfterSave DEF FilesInv, SaveShape, Saving, OneInterval
  <2>2. CASE ~FinishSave
    <3>1. Saving' /\ UNCHANGED <<step, snap>>
      BY <1>6, <2>2 DEF Save, RemoveItem, ClearDone, WriteItem, OpenTracker, Saving
    <3>2. SaveDue' /\ ~snap'.best
      BY <2>1, <3>1 DEF SaveDue, LastStep
    <3>3. OneInterval'
      BY <3>1, <3>2 DEF OneInterval, Saving
    <3> QED BY <1>4, <2>1, <3>3
  <2>3. CASE FinishSave
    <3>1. /\ pc = "tracker" /\ UNCHANGED <<disk, model>>
          /\ pc' = IF LastStep THEN "done" ELSE "train"
      BY <2>3 DEF FinishSave
    <3>2. Target = Last
      BY <2>1 DEF Target
    <3>3. Complete(Last) /\ disk[Last][Meta] = snap
      BY <2>1, <3>1, <3>2, WholeIsComplete DEF CleanInv, BothWritten
    <3>4. LastStepOnDisk = step /\ \A r \in Ranks : model[r] = step
      BY <2>1, <3>3 DEF LastStepOnDisk, Counted, StepCounts
    <3>5. ~LastStep => step % SaveFreq = 0
      BY <2>1 DEF SaveDue
    <3>6. \A r \in Ranks : model[r] < LastStepOnDisk + SaveFreq
      BY <1>1, <3>4
    <3>7. pc' \in {"train", "done"} /\ (pc' = "train" => LastStepOnDisk % SaveFreq = 0)
      BY <3>1, <3>4, <3>5
    <3>8. OneInterval'
      BY <1>2, <3>1, <3>3, <3>6, <3>7 DEF OneInterval, Saving
    <3> QED BY <1>4, <2>1, <3>8
  <2> QED BY <2>2, <2>3
<1>7. CASE Crash
  <2>1. pc = "train" /\ UNCHANGED <<disk, model>> /\ pc' = "down"
    BY <1>7 DEF Crash, CleanInv
  <2> QED BY <1>2, <1>4, <2>1 DEF OneInterval, Saving
<1>8. CASE UNCHANGED vars
  <2>1. UNCHANGED <<disk, pc, snap, step, model>>
    BY <1>8 DEF vars
  <2>2. SaveDue' <=> SaveDue
    BY <2>1 DEF SaveDue, LastStep
  <2>3. OneInterval'
    BY <1>2, <2>1, <2>2 DEF OneInterval, Saving
  <2> QED BY <1>8, <2>3
<1> QED BY <1>3, <1>5, <1>6, <1>7, <1>8 DEF Next, Run

\* Without a best metric (MP-OPD's setting) and with crashes between saves only, a
\* resumed fit() repeats fewer batches than a save interval has.
THEOREM ResumeRepeatsOneInterval ==
  ASSUME Loop = "fit", ~CrashInSave, Metrics = {}
  PROVE  Spec => ResumeLosesOneInterval
<1>1. Init => OneInterval
  <2>1. Init => \A d \in Dirs : ~Complete(d)
    BY ItemNames DEF Init, Complete, Saved
  <2>2. Init => LastStepOnDisk = 0 /\ \A r \in Ranks : model[r] = 0
    BY <2>1, FolderNames DEF Init, LastStepOnDisk, BaseModel
  <2>3. 0 % SaveFreq = 0 /\ SaveFreq \in Nat /\ 0 < 0 + SaveFreq
    BY SizeAssumption
  <2> QED BY <2>1, <2>2, <2>3 DEF Init, OneInterval, Saving
<1>2. FilesInv /\ CleanInv /\ Counted /\ OneInterval /\ [Next]_vars =>
        OneInterval' /\ [pc = "down" /\ pc' = "train" =>
                           \A r \in Ranks : model'[r] + SaveFreq > model[r]]_vars
  BY IntervalStep
<1> QED BY <1>1, <1>2, CountedInvariant, PTL DEF Spec, ResumeLosesOneInterval
=============================================================================
