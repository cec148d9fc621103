-------------------------- MODULE FullyAsyncProofs --------------------------
(***************************************************************************)
(* Theorems about the fully asynchronous policy, for every configuration:  *)
(* no sample is lost or doubled, staleness_samples bounds what is in       *)
(* flight, no sample is left behind, done_tasks is bound when it is used,  *)
(* a threshold of zero trains on policy, any threshold bounds the age of   *)
(* what is trained, and all of it implements BoundedStaleness.  The        *)
(* inductive invariants are named below: Flow, Counting, Ending, Unreaped, *)
(* OnPolicyInv, LagInv and Batches.                                        *)
(***************************************************************************)
EXTENDS FullyAsync, FiniteSetTheorems, TLAPS

-----------------------------------------------------------------------------
(* How often a sample occurs in a queue. *)

Places(s, seq) == {i \in 1 .. Len(seq) : seq[i] = s}

LEMMA OccursPlaces ==
  ASSUME NEW S, NEW q \in Seq(S), NEW s
  PROVE  /\ Occurs(s, q) = Cardinality(Places(s, q)) /\ IsFiniteSet(Places(s, q))
         /\ Occurs(s, q) \in Nat
<1>1. Len(q) \in Nat /\ IsFiniteSet(1 .. Len(q))
  BY FS_Interval
<1>2. Places(s, q) \in SUBSET (1 .. Len(q))
  BY DEF Places
<1>3. IsFiniteSet(Places(s, q))
  BY <1>1, <1>2, FS_Subset
<1> QED BY <1>3, FS_CardinalityType DEF Occurs, Places

LEMMA OccursEmpty == \A s : Occurs(s, <<>>) = 0
<1> SUFFICES ASSUME NEW s PROVE Occurs(s, <<>>) = 0
  OBVIOUS
<1>1. {i \in 1 .. Len(<<>>) : <<>>[i] = s} = {}
  OBVIOUS
<1> QED BY <1>1, FS_EmptySet DEF Occurs

LEMMA OccursAppend ==
  ASSUME NEW S, NEW q \in Seq(S), NEW x \in S, NEW s
  PROVE  Occurs(s, Append(q, x)) = Occurs(s, q) + Is(s = x)
<1>1. Places(s, Append(q, x)) = IF s = x THEN Places(s, q) \cup {Len(q) + 1} ELSE Places(s, q)
  BY DEF Places
<1>2. Len(q) + 1 \notin Places(s, q)
  BY DEF Places
<1>3. Append(q, x) \in Seq(S)
  OBVIOUS
<1>4. /\ Occurs(s, Append(q, x)) = Cardinality(Places(s, Append(q, x)))
      /\ Occurs(s, q) = Cardinality(Places(s, q)) /\ IsFiniteSet(Places(s, q))
      /\ Occurs(s, q) \in Nat
  BY <1>3, OccursPlaces
<1>5. CASE s = x
  <2>1. Cardinality(Places(s, q) \cup {Len(q) + 1}) = Cardinality(Places(s, q)) + 1
    BY <1>2, <1>4, FS_AddElement
  <2> QED BY <1>1, <1>4, <1>5, <2>1 DEF Is
<1>6. CASE s # x
  BY <1>1, <1>4, <1>6 DEF Is
<1> QED BY <1>5, <1>6

LEMMA OccursTail ==
  ASSUME NEW S, NEW q \in Seq(S), q # <<>>, NEW s
  PROVE  Occurs(s, q) = Occurs(s, Tail(q)) + Is(s = Head(q))
<1> DEFINE old == Places(s, q) \ {1}
           new == Places(s, Tail(q))
           shift == [i \in new |-> i + 1]
<1>1. /\ Tail(q) \in Seq(S) /\ Len(Tail(q)) = Len(q) - 1 /\ Len(q) \in Nat \ {0}
      /\ \A i \in 1 .. Len(Tail(q)) : Tail(q)[i] = q[i + 1]
      /\ Head(q) = q[1]
  OBVIOUS
<1>2. shift \in Bijection(new, old)
  <2>1. shift \in [new -> old]
    BY <1>1 DEF Places
  <2>2. \A i, j \in new : shift[i] = shift[j] => i = j
    BY <1>1 DEF Places
  <2>3. \A j \in old : \E i \in new : shift[i] = j
    <3> TAKE j \in old
    <3>1. j - 1 \in new /\ j \in Int
      BY <1>1 DEF Places
    <3>2. shift[j - 1] = j
      BY <3>1
    <3> QED BY <3>1, <3>2
  <2> HIDE DEF old, new, shift
  <2> QED BY <2>1, <2>2, <2>3 DEF Bijection, Injection, Surjection, IsInjective
<1>3. /\ Occurs(s, q) = Cardinality(Places(s, q)) /\ IsFiniteSet(Places(s, q))
      /\ Occurs(s, q) \in Nat
      /\ Occurs(s, Tail(q)) = Cardinality(new) /\ IsFiniteSet(new)
      /\ Occurs(s, Tail(q)) \in Nat
  BY <1>1, OccursPlaces
<1>4. Cardinality(old) = Cardinality(new)
  <2>1. ExistsBijection(new, old)
    BY <1>2 DEF ExistsBijection
  <2> HIDE DEF old, new
  <2> QED BY <1>3, <2>1, FS_Bijection
<1>5. Cardinality(old) = Cardinality(Places(s, q)) - Is(s = Head(q))
  <2>1. 1 \in Places(s, q) <=> s = Head(q)
    BY <1>1 DEF Places
  <2>2. Cardinality(old) = IF 1 \in Places(s, q) THEN Cardinality(Places(s, q)) - 1
                           ELSE Cardinality(Places(s, q))
    BY <1>3, FS_RemoveElement
  <2> QED BY <1>3, <2>1, <2>2 DEF Is
<1> HIDE DEF old, new
<1> QED BY <1>3, <1>4, <1>5 DEF Is

-----------------------------------------------------------------------------
(* The constants. *)

LEMMA ConfigFacts ==
  ASSUME NEW c \in Configs
  PROVE  /\ c.total \in Nat \ {0} /\ c.required \in Nat \ {0} /\ c.trigger \in Nat \ {0}
         /\ c.stale \in Nat /\ c.partial \in BOOLEAN /\ c.slots \in Nat \ {0}
         /\ c.testFreq \in Nat
BY ConfigsAssumption DEF Config

LEMMA MaxRequiredFacts ==
  ASSUME NEW c \in Configs
  PROVE  /\ MaxRequiredOf(c) \in Nat \ {0}
         /\ c.stale = 0 => MaxRequiredOf(c) = c.required * c.trigger
<1> DEFINE p == c.required * c.trigger
           q == p * (100 + c.stale)
<1>1. p \in Nat \ {0}
  <2>1. \A i, j \in Nat \ {0} : i * j \in Nat \ {0}
    OBVIOUS
  <2> QED BY <2>1, ConfigFacts
<1>2. q \in Nat /\ q >= 100 /\ (c.stale = 0 => q = 100 * p)
  <2>1. \A i \in Nat \ {0}, j \in Nat : i * (100 + j) \in Nat /\ i * (100 + j) >= 100
    OBVIOUS
  <2> HIDE DEF p
  <2> QED BY <1>1, <2>1, ConfigFacts
<1>3. MaxRequiredOf(c) = q \div 100
  BY DEF MaxRequiredOf
<1> HIDE DEF q
<1>4. q \div 100 \in Nat \ {0}
  BY <1>2
<1>5. c.stale = 0 => q \div 100 = p
  <2> HIDE DEF p
  <2> QED BY <1>1, <1>2
<1> QED BY <1>3, <1>4, <1>5

-----------------------------------------------------------------------------
(* Types, and what the processor has in hand at each of its statements. *)

Sites  == {"top", "pause", "drain", "idle", "limit", "submit", "finish", "returned", "crashed"}
States == {"running", "queued", "waiting", "asleep", "woken", "ended"}
Waits  == {"asleep", "queued", "head", "ended"}
Stages == {"idle", "pause", "gather", "weights", "update", "count", "resume"}
Turns  == {"collect", "train", "read", "wait", "syncing",
           "end", "last_wait", "last_sync", "last_read", "done"}

TypedControl ==
  /\ config \in Configs
  /\ proc \in [at : Sites, is : States]
  /\ mon \in Waits /\ main \in {"run", "join", "finish", "over"}
  /\ sync \in Stages /\ trainer \in Turns

TypedNumbers ==
  /\ staleness_samples \in Nat /\ counted \in Nat /\ done \in Nat
  /\ taken \in 0 .. DONE /\ hand \in 0 .. DONE
  /\ weights \in Nat /\ current_param_version \in Nat /\ local_trigger_step \in 1 .. Trigger

TypedFlow ==
  /\ generating \in SUBSET Samples
  /\ result \in Seq(Samples) /\ cancel \in Seq(Samples)
  /\ cons \in Samples \cup {Nothing, Dead}
  /\ mq \in Seq(Samples \cup {End})
  /\ batch \in SUBSET Samples /\ trained \in SUBSET Samples
  /\ lost \in SUBSET Samples /\ dropped \in SUBSET (Samples \cup {End})
  /\ born \in [Samples -> Nat \cup {Unborn}]

HandFits ==
  /\ proc.at \in {"top", "pause", "drain", "idle"} => hand = Nothing /\ taken <= Total
  /\ proc.at \in {"limit", "submit"} => hand \in Samples /\ taken <= Total
  /\ proc.at = "finish" => hand = DONE /\ taken = DONE
  /\ proc.at = "returned" => hand = Nothing /\ taken = DONE
  /\ proc.at \in {"returned", "crashed"} <=> proc.is = "ended"

LEMMA TypedInit == Init => TypedControl /\ TypedNumbers /\ TypedFlow /\ HandFits
<1> SUFFICES ASSUME Init PROVE TypedControl /\ TypedNumbers /\ TypedFlow /\ HandFits
  OBVIOUS
<1>1. config \in Configs /\ Total \in Nat \ {0} /\ Trigger \in Nat \ {0}
  BY ConfigFacts DEF Init, Total, Trigger
<1>2. TypedControl
  <2>1. proc \in [at : Sites, is : States]
    BY DEF Init, Sites, States
  <2>2. sync \in Stages /\ trainer \in Turns
    BY DEF Init, Stages, Turns
  <2>3. mon \in Waits /\ main \in {"run", "join", "finish", "over"}
    BY DEF Init, Waits
  <2> QED BY <1>1, <2>1, <2>2, <2>3 DEF TypedControl
<1>3. TypedNumbers
  BY <1>1 DEF Init, TypedNumbers, DONE, Nothing
<1>4. TypedFlow
  BY <1>1 DEF Init, TypedFlow, Nothing, Unborn
<1>5. HandFits
  BY <1>1 DEF Init, HandFits
<1> QED BY <1>2, <1>3, <1>4, <1>5

\* The constants that follow from the configuration do not change.
LEMMA SameConfig ==
  config' = config =>
    /\ Total' = Total /\ Required' = Required /\ Trigger' = Trigger /\ Partial' = Partial
    /\ DONE' = DONE /\ Samples' = Samples /\ MaxRequired' = MaxRequired
    /\ MaxConcurrent' = MaxConcurrent
BY DEF Total, Required, Trigger, Partial, DONE, Samples, MaxRequired, MaxConcurrent

LEMMA ConfigKept == [Next]_vars => config' = config
<1> USE DEF taskVars
<1>1. Processor => config' = config
  BY DEF Processor, PauseSeen, SetPaused, TakeCancelled, Take, Continue, Submit, LoopEnds,
         AwaitTask, TasksGone, Reap, Sleep, Enqueue
<1>2. Rollouter => config' = config
  BY DEF Rollouter, ConsumerTake, ConsumerRaises, ConsumerPut, MonitorLook,
       MonitorPass, MonitorResume, MonitorTurn,
         StreamingEnds, ResultsJoined, SendFinish, Generated, Interrupted, GenerationRaises
<1>3. Synchronizer => config' = config
  BY DEF Synchronizer, Pause, PauseDone, SyncWeights, CountLocal, CountQueue, Resume, AskLock
<1>4. Trainer => config' = config
  BY DEF Trainer, Collect, CollectEnd, Train, StartSync, ReadValidation, EndTraining,
         ReadLastValidation
<1> QED BY <1>1, <1>2, <1>3, <1>4 DEF Next, Over, vars


LEMMA ControlStep == TypedControl /\ [Next]_vars => TypedControl'
<1> SUFFICES ASSUME TypedControl, [Next]_vars PROVE TypedControl'
  OBVIOUS
<1> USE DEF taskVars, rollVars, procVars, syncVars, trainVars
<1>0. config' \in Configs
  BY ConfigKept DEF TypedControl
<1>1. proc' \in [at : Sites, is : States]
  <2>1. /\ \A a \in Sites, i \in States : [at |-> a, is |-> i] \in [at : Sites, is : States]
        /\ Notified \in [at : Sites, is : States]
    BY DEF TypedControl, Notified, States
  <2>2. /\ Crashed \in [at : Sites, is : States]
        /\ \A site \in ReapSites : site \in Sites /\ After(site) \in Sites
        /\ {"running", "queued", "waiting", "asleep", "ended"} \subseteq States
        /\ {"top", "pause", "drain", "idle", "limit", "submit", "finish"} \subseteq Sites
    BY DEF Crashed, ReapSites, Sites, States, After
  <2>3. Processor => proc' \in [at : Sites, is : States]
    BY <2>1, <2>2 DEF Processor, PauseSeen, SetPaused, TakeCancelled, Take, Continue, Submit,
         LoopEnds, AwaitTask, TasksGone, Reap, Sleep, Enqueue, GoTo, TypedControl
  <2>4. Rollouter => proc' \in [at : Sites, is : States]
    BY <2>1 DEF Rollouter, ConsumerTake, ConsumerRaises, ConsumerPut, MonitorLook,
         MonitorPass, MonitorResume, MonitorTurn,
         StreamingEnds, ResultsJoined, SendFinish, Generated, Interrupted, GenerationRaises,
         TypedControl
  <2>5. Synchronizer => proc' \in [at : Sites, is : States]
    BY <2>1 DEF Synchronizer, Pause, PauseDone, SyncWeights, CountLocal, CountQueue, Resume,
         AskLock, TypedControl
  <2>6. Trainer \/ UNCHANGED vars => proc' \in [at : Sites, is : States]
    BY DEF Trainer, Collect, CollectEnd, Train, StartSync, ReadValidation, EndTraining,
         ReadLastValidation, TypedControl, vars
  <2> QED BY <2>3, <2>4, <2>5, <2>6 DEF Next, Over
<1>2. mon' \in Waits /\ main' \in {"run", "join", "finish", "over"}
  <2>1. Processor => mon' = mon /\ main' = main
    BY DEF Processor, PauseSeen, SetPaused, TakeCancelled, Take, Continue, Submit,
         LoopEnds, AwaitTask, TasksGone, Reap, Sleep, Enqueue
  <2>2. Rollouter => mon' \in {mon} \cup Waits /\ main' \in {main, "join", "finish", "over"}
    BY DEF Rollouter, ConsumerTake, ConsumerRaises, ConsumerPut, MonitorLook,
         MonitorPass, MonitorResume, MonitorTurn,
         StreamingEnds, ResultsJoined, SendFinish, Generated, Interrupted, GenerationRaises, NextTurn, Waits
  <2>3. Synchronizer => mon' = mon /\ main' = main
    BY DEF Synchronizer, Pause, PauseDone, SyncWeights, CountLocal, CountQueue, Resume, AskLock
  <2>4. Trainer \/ UNCHANGED vars => mon' = mon /\ main' = main
    BY DEF Trainer, Collect, CollectEnd, Train, StartSync, ReadValidation, EndTraining,
         ReadLastValidation, vars
  <2> QED BY <2>1, <2>2, <2>3, <2>4 DEF Next, Over, TypedControl
<1>3. sync' \in Stages /\ trainer' \in Turns
  <2>1. Processor => sync' = sync /\ trainer' = trainer
    BY DEF Processor, PauseSeen, SetPaused, TakeCancelled, Take, Continue, Submit,
         LoopEnds, AwaitTask, TasksGone, Reap, Sleep, Enqueue
  <2>2. Rollouter => sync' = sync /\ trainer' = trainer
    BY DEF Rollouter, ConsumerTake, ConsumerRaises, ConsumerPut, MonitorLook,
         MonitorPass, MonitorResume, MonitorTurn,
         StreamingEnds, ResultsJoined, SendFinish, Generated, Interrupted, GenerationRaises
  <2>3. Synchronizer => /\ sync' \in {sync, "idle", "gather", "weights", "update", "count", "resume"}
                        /\ trainer' \in {trainer, "read", "last_read"}
    BY DEF Synchronizer, Pause, PauseDone, SyncWeights, CountLocal, CountQueue, Resume, AskLock
  <2>4. Trainer \/ UNCHANGED vars => sync' \in {sync, "pause"} /\ trainer' \in Turns
    BY DEF Trainer, Collect, CollectEnd, Train, StartSync, ReadValidation, EndTraining,
         ReadLastValidation, vars, Turns, TypedControl
  <2> QED BY <2>1, <2>2, <2>3, <2>4 DEF Next, Over, TypedControl, Stages, Turns
<1> QED BY <1>0, <1>1, <1>2, <1>3 DEF TypedControl

-----------------------------------------------------------------------------
(* Who holds the lock. *)

Coroutines == {"processor", "monitor", "sync"}

Locked ==
  /\ lock \in Seq(Coroutines)
  /\ proc.is = "waiting" => Holds("processor")
  /\ sync \in {"gather", "count"} => Holds("sync")

LEMMA LockedStep == TypedControl /\ Locked /\ [Next]_vars => Locked'
<1> SUFFICES ASSUME TypedControl, Locked, [Next]_vars PROVE Locked'
  OBVIOUS
<1> USE DEF taskVars, rollVars, procVars, syncVars, trainVars
<1>1. /\ \A c \in Coroutines : /\ Append(lock, c) \in Seq(Coroutines)
                               /\ <<c>> \in Seq(Coroutines)
                               /\ Append(lock, c) # <<>> /\ <<c>> # <<>>
                               /\ Head(<<c>>) = c
                               /\ lock # <<>> => Head(Append(lock, c)) = Head(lock)
      /\ <<>> \in Seq(Coroutines)
      /\ lock # <<>> => Tail(lock) \in Seq(Coroutines)
  BY DEF Locked
<1>2. "processor" \in Coroutines /\ "monitor" \in Coroutines /\ "sync" \in Coroutines
  BY DEF Coroutines
<1>3. CASE Processor
  <2> USE DEF Enters, At, GoTo, Unlocked, Kept, Crashed
  <2>1. ASSUME lock' = lock, proc'.is # "waiting" \/ proc' = proc, sync' = sync
        PROVE  Locked'
    BY <2>1 DEF Locked, Holds
  <2>2. CASE PauseSeen \/ TakeCancelled \/ Take
    BY <2>1, <2>2 DEF PauseSeen, TakeCancelled, Take
  <2>3. CASE SetPaused \/ Continue \/ Submit
    BY <1>1, <2>3 DEF SetPaused, Continue, Submit, Locked, Holds
  <2>4. ASSUME NEW site \in ReapSites, LoopEnds(site) PROVE Locked'
    BY <2>1, <2>4 DEF LoopEnds
  <2>5. ASSUME NEW site \in ReapSites, AwaitTask(site) PROVE Locked'
    BY <1>1, <1>2, <2>5 DEF AwaitTask, Locked, Holds
  <2>6. ASSUME NEW site \in ReapSites, TasksGone(site) PROVE Locked'
    BY <1>1, <2>6 DEF TasksGone, Locked, Holds
  <2>7. ASSUME NEW site \in ReapSites, Reap(site) PROVE Locked'
    BY <1>1, <2>7 DEF Reap, Locked, Holds
  <2>8. ASSUME NEW site \in {"idle", "submit"}, Sleep(site) PROVE Locked'
    BY <1>1, <2>8 DEF Sleep, Locked, Holds
  <2>9. ASSUME NEW site \in {"pause", "drain", "idle", "limit", "submit", "finish"}, Enqueue(site)
        PROVE  Locked'
    BY <1>1, <1>2, <2>9 DEF Enqueue, Locked, Holds
  <2> QED BY <1>3, <2>2, <2>3, <2>4, <2>5, <2>6, <2>7, <2>8, <2>9 DEF Processor
<1>4. CASE Rollouter
  <2>1. Notified.is = "waiting" => proc.is = "waiting"
    BY DEF Notified, TypedControl
  <2>2. CASE MonitorLook
    BY <1>1, <1>2, <2>1, <2>2 DEF MonitorLook, Locked, Holds
  <2>3. CASE MonitorResume
    <3>1. CASE Tail(lock) = <<>>
      BY <1>1, <2>1, <2>3, <3>1 DEF MonitorResume, Locked, Holds
    <3>2. CASE Tail(lock) # <<>>
      <4>1. /\ Append(Tail(lock), "monitor") \in Seq(Coroutines)
            /\ lock' = Append(Tail(lock), "monitor") /\ Head(lock) = "monitor"
        BY <1>1, <1>2, <2>3, <3>2 DEF MonitorResume, Holds
      <4> QED BY <2>1, <2>3, <4>1 DEF MonitorResume, Locked, Holds
    <3> QED BY <3>1, <3>2
  <2>4. CASE MonitorPass
    BY <1>1, <1>2, <2>4 DEF MonitorPass, Locked, Holds
  <2>5. CASE MonitorTurn
    BY <1>1, <2>5 DEF MonitorTurn, Locked, Holds
  <2>6. ASSUME ~MonitorLook, ~MonitorPass, ~MonitorResume, ~MonitorTurn PROVE Locked'
    BY <1>4, <2>6 DEF Rollouter, ConsumerTake, ConsumerRaises, ConsumerPut, StreamingEnds,
         ResultsJoined, SendFinish, Generated, Interrupted, GenerationRaises, Locked, Holds
  <2> QED BY <2>2, <2>3, <2>4, <2>5, <2>6
<1>5. CASE Synchronizer
  <2> USE DEF InLock, Kept, Unlocked
  <2>1. Notified.is = "waiting" => proc.is = "waiting"
    BY DEF Notified, TypedControl
  <2>2. CASE Pause \/ CountLocal
    BY <1>1, <1>2, <2>2 DEF Pause, CountLocal, Locked, Holds
  <2>3. CASE PauseDone \/ CountQueue
    BY <1>1, <2>3 DEF PauseDone, CountQueue, Locked, Holds
  <2>4. CASE SyncWeights
    BY <2>4 DEF SyncWeights, Locked, Holds
  <2>5. CASE Resume
    BY <1>1, <2>1, <2>5 DEF Resume, Locked, Holds
  <2>6. ASSUME NEW stage \in {"pause", "update", "resume"}, AskLock(stage) PROVE Locked'
    BY <1>1, <1>2, <2>6 DEF AskLock, Locked, Holds
  <2> QED BY <1>5, <2>2, <2>3, <2>4, <2>5, <2>6 DEF Synchronizer
<1>6. CASE Trainer \/ UNCHANGED vars
  BY <1>6 DEF Trainer, Collect, CollectEnd, Train, StartSync, ReadValidation, EndTraining,
         ReadLastValidation, vars, Locked, Holds
<1> QED BY <1>3, <1>4, <1>5, <1>6 DEF Next, Over

-----------------------------------------------------------------------------

LEMMA HandFitsStep == TypedControl /\ TypedNumbers /\ TypedFlow /\ HandFits /\ [Next]_vars => HandFits'
<1> SUFFICES ASSUME TypedControl, TypedNumbers, TypedFlow, HandFits, [Next]_vars
             PROVE  HandFits'
  OBVIOUS
<1> USE DEF taskVars, rollVars, procVars, flowVars, failVars, Nothing
<1>1. DONE' = DONE /\ Samples' = Samples /\ Total' = Total /\ Total \in Nat \ {0}
  BY ConfigKept, SameConfig, ConfigFacts DEF TypedControl, Total
<1>2. DONE = Total + 1 /\ Samples = 1 .. Total
  BY DEF DONE, Samples
<1>3. CASE Processor
  <2> USE DEF Enters, At, GoTo, Crashed
  <2>1. ASSUME proc'.at = proc.at \/ (proc.at \in ReapSites /\ proc'.at = "crashed"),
               proc'.is = "ended" <=> proc'.at = "crashed",
               proc.at \notin {"returned", "crashed"},
               hand' = hand, taken' = taken
        PROVE  HandFits'
    BY <1>1, <2>1 DEF HandFits
  <2>2. CASE PauseSeen
    BY <1>1, <2>2 DEF PauseSeen, HandFits
  <2>3. CASE SetPaused \/ Continue
    BY <1>1, <2>3 DEF SetPaused, Continue, HandFits
  <2>4. CASE TakeCancelled
    BY <1>1, <2>4 DEF TakeCancelled, HandFits, TypedFlow
  <2>5. CASE Take
    BY <1>1, <1>2, <2>5 DEF Take, HandFits, TypedNumbers
  <2>6. CASE Submit
    BY <1>1, <2>6 DEF Submit, HandFits
  <2>7. ASSUME NEW site \in ReapSites, LoopEnds(site) PROVE HandFits'
    BY <1>1, <2>7 DEF LoopEnds, After, HandFits, ReapSites
  <2>8. ASSUME NEW site \in ReapSites, AwaitTask(site) \/ TasksGone(site) \/ Reap(site) PROVE HandFits'
    BY <1>1, <2>1, <2>8 DEF AwaitTask, TasksGone, Reap, ReapSites
  <2>9. ASSUME NEW site \in {"idle", "submit"}, Sleep(site) PROVE HandFits'
    BY <1>1, <2>1, <2>9 DEF Sleep
  <2>10. ASSUME NEW site \in {"pause", "drain", "idle", "limit", "submit", "finish"}, Enqueue(site)
         PROVE  HandFits'
    BY <1>1, <2>1, <2>10 DEF Enqueue
  <2> QED BY <1>3, <2>2, <2>3, <2>4, <2>5, <2>6, <2>7, <2>8, <2>9, <2>10 DEF Processor
<1>4. ASSUME proc' \in {proc, Notified}, hand' = hand, taken' = taken PROVE HandFits'
  BY <1>1, <1>4 DEF HandFits, Notified, TypedControl
<1>5. CASE Rollouter
  BY <1>4, <1>5 DEF Rollouter, ConsumerTake, ConsumerRaises, ConsumerPut, MonitorLook,
       MonitorPass, MonitorResume, MonitorTurn,
     StreamingEnds, ResultsJoined, SendFinish, Generated, Interrupted, GenerationRaises
<1>6. CASE Synchronizer
  BY <1>4, <1>6 DEF Synchronizer, Pause, PauseDone, SyncWeights, CountLocal, CountQueue, Resume, AskLock
<1>7. CASE Trainer \/ UNCHANGED vars
  BY <1>4, <1>7 DEF Trainer, Collect, CollectEnd, Train, StartSync, ReadValidation, EndTraining,
     ReadLastValidation, vars
<1> QED BY <1>3, <1>5, <1>6, <1>7 DEF Next, Over

LEMMA SamplesFinite ==
  ASSUME TypedControl
  PROVE  /\ IsFiniteSet(Samples) /\ Cardinality(Samples) = Total
         /\ \A S \in SUBSET Samples : IsFiniteSet(S) /\ Cardinality(S) \in Nat
<1>1. Total \in Nat \ {0}
  BY ConfigFacts DEF TypedControl, Total
<1>2. IsFiniteSet(Samples) /\ Cardinality(Samples) = Total
  BY <1>1, FS_Interval DEF Samples
<1> QED BY <1>2, FS_Subset, FS_CardinalityType

LEMMA NumbersStep ==
  TypedControl /\ TypedNumbers /\ TypedFlow /\ HandFits /\ [Next]_vars => TypedNumbers'
<1> SUFFICES ASSUME TypedControl, TypedNumbers, TypedFlow, HandFits, [Next]_vars
             PROVE  TypedNumbers'
  OBVIOUS
<1> USE DEF taskVars, rollVars, procVars, flowVars, failVars, syncVars, trainVars, Nothing
<1>1. /\ DONE' = DONE /\ Trigger' = Trigger
      /\ Total \in Nat \ {0} /\ Trigger \in Nat \ {0} /\ DONE = Total + 1 /\ Samples = 1 .. Total
  BY ConfigKept, SameConfig, ConfigFacts DEF TypedControl, Total, Trigger, DONE, Samples
<1>2. /\ Len(result) \in Nat /\ Len(cancel) \in Nat /\ Len(mq) \in Nat
      /\ Cardinality(generating) \in Nat
  <2>1. generating \in SUBSET Samples /\ result \in Seq(Samples) /\ cancel \in Seq(Samples)
        /\ mq \in Seq(Samples \cup {End})
    BY DEF TypedFlow
  <2>2. Cardinality(generating) \in Nat
    BY <2>1, SamplesFinite
  <2> QED BY <2>1, <2>2
<1>3. CASE Processor
  <2> USE DEF At
  <2>1. CASE PauseSeen \/ SetPaused \/ Continue \/ Submit
    BY <1>1, <2>1 DEF PauseSeen, SetPaused, Continue, Submit, TypedNumbers
  <2>2. CASE TakeCancelled
    <3>1. Head(cancel) \in Samples
      BY <2>2 DEF TakeCancelled, TypedFlow
    <3> QED BY <1>1, <2>2, <3>1 DEF TakeCancelled, TypedNumbers
  <2>3. CASE Take
    BY <1>1, <2>3 DEF Take, TypedNumbers, HandFits
  <2>4. ASSUME NEW site \in ReapSites, LoopEnds(site) \/ AwaitTask(site) \/ TasksGone(site)
        PROVE  TypedNumbers'
    <3>1. hand' \in {hand, 0} /\ 0 \in 0 .. DONE
      BY <1>1, <2>4 DEF LoopEnds, AwaitTask, TasksGone
    <3> QED BY <1>1, <2>4, <3>1 DEF LoopEnds, AwaitTask, TasksGone, TypedNumbers
  <2>5. ASSUME NEW site \in ReapSites, Reap(site) PROVE TypedNumbers'
    BY <1>1, <2>5 DEF Reap, TypedNumbers
  <2>6. CASE (\E site \in {"idle", "submit"} : Sleep(site)) \/
             (\E site \in {"pause", "drain", "idle", "limit", "submit", "finish"} : Enqueue(site))
    BY <1>1, <2>6 DEF Sleep, Enqueue, TypedNumbers
  <2> QED BY <1>3, <2>1, <2>2, <2>3, <2>4, <2>5, <2>6 DEF Processor
<1>4. CASE Rollouter
  <2>1. /\ done' \in {done, done + 1}
        /\ UNCHANGED <<staleness_samples, counted, taken, hand>>
        /\ UNCHANGED <<weights, current_param_version, local_trigger_step>>
    BY <1>4 DEF Rollouter, ConsumerTake, ConsumerRaises, ConsumerPut, MonitorLook,
         MonitorPass, MonitorResume, MonitorTurn,
       StreamingEnds, ResultsJoined, SendFinish, Generated, Interrupted, GenerationRaises
  <2> QED BY <1>1, <2>1 DEF TypedNumbers
<1>5. CASE Synchronizer
  <2>1. /\ done' \in {done, 0}
        /\ staleness_samples' \in {staleness_samples, counted + Len(mq)}
        /\ counted' \in {counted, 0, ActiveTasks + Len(result) + Len(cancel)}
        /\ weights' \in {weights, current_param_version}
        /\ UNCHANGED <<taken, hand, current_param_version, local_trigger_step>>
    BY <1>5 DEF Synchronizer, Pause, PauseDone, SyncWeights, CountLocal, CountQueue, Resume, AskLock
  <2>2. ActiveTasks + Len(result) + Len(cancel) \in Nat /\ counted + Len(mq) \in Nat
    BY <1>2 DEF ActiveTasks, TypedNumbers
  <2> QED BY <1>1, <2>1, <2>2 DEF TypedNumbers
<1>6. CASE Trainer
  <2>1. CASE Train
    BY <1>1, <2>1 DEF Train, TypedNumbers
  <2>2. CASE EndTraining
    BY <1>1, <2>2 DEF EndTraining, TypedNumbers
  <2>3. CASE Collect \/ CollectEnd \/ StartSync \/ ReadValidation \/ ReadLastValidation
    BY <1>1, <2>3 DEF Collect, CollectEnd, StartSync, ReadValidation, ReadLastValidation,
       TypedNumbers
  <2> QED BY <1>6, <2>1, <2>2, <2>3 DEF Trainer
<1>7. CASE UNCHANGED vars
  BY <1>1, <1>7 DEF vars, TypedNumbers
<1> QED BY <1>3, <1>4, <1>5, <1>6, <1>7 DEF Next, Over

LEMMA SeqFacts ==
  ASSUME NEW S, NEW q \in Seq(S)
  PROVE  /\ \A x \in S : Append(q, x) \in Seq(S) /\ Len(Append(q, x)) = Len(q) + 1
         /\ q # <<>> => /\ Head(q) \in S /\ Tail(q) \in Seq(S)
                        /\ Len(q) > 0 /\ Len(Tail(q)) = Len(q) - 1
         /\ Len(q) \in Nat /\ (q = <<>> <=> Len(q) = 0)
OBVIOUS

LEMMA PutIntoFacts ==
  ASSUME TypedControl, TypedFlow, NEW x \in Samples \cup {End}, PutIntoQueue(x)
  PROVE  /\ mq' = Append(IF Len(mq) >= MaxRequired THEN Tail(mq) ELSE mq, x)
         /\ Len(mq) >= MaxRequired => mq # <<>>
         /\ mq' \in Seq(Samples \cup {End}) /\ dropped' \in SUBSET (Samples \cup {End})
<1>1. MaxRequired \in Nat \ {0}
  BY MaxRequiredFacts DEF TypedControl, MaxRequired
<1>2. Len(mq) >= MaxRequired => mq # <<>>
  BY <1>1
<1>3. mq' = Append(IF Len(mq) >= MaxRequired THEN Tail(mq) ELSE mq, x)
  BY DEF PutIntoQueue, Queue!PutInto
<1>4. /\ mq \in Seq(Samples \cup {End})
      /\ mq # <<>> => Head(mq) \in Samples \cup {End} /\ Tail(mq) \in Seq(Samples \cup {End})
  BY SeqFacts DEF TypedFlow
<1>5. mq' \in Seq(Samples \cup {End})
  BY <1>2, <1>3, <1>4, SeqFacts
<1> QED BY <1>2, <1>3, <1>4, <1>5 DEF TypedFlow, PutIntoQueue

LEMMA FlowStep ==
  TypedControl /\ TypedNumbers /\ TypedFlow /\ HandFits /\ [Next]_vars => TypedFlow'
<1> SUFFICES ASSUME TypedControl, TypedNumbers, TypedFlow, HandFits, [Next]_vars
             PROVE  TypedFlow'
  OBVIOUS
<1> USE DEF flowVars, failVars, trainVars, queueVars
<1>1. Samples' = Samples
  BY ConfigKept, SameConfig
<1>2. ASSUME UNCHANGED <<generating, result, cancel, cons, mq, batch, trained, lost, dropped, born>>
      PROVE  TypedFlow'
  BY <1>1, <1>2 DEF TypedFlow
<1>3. CASE Processor
  <2>1. CASE TakeCancelled
    <3>1. cancel' \in Seq(Samples)
      BY <2>1, SeqFacts DEF TakeCancelled, TypedFlow
    <3> QED BY <1>1, <2>1, <3>1 DEF TakeCancelled, TypedFlow
  <2>2. CASE Submit
    <3>1. hand \in Samples
      BY <2>2 DEF Submit, Enters, At, HandFits
    <3>2. born' \in [Samples -> Nat \cup {Unborn}]
      BY <2>2 DEF Submit, TypedFlow, TypedNumbers
    <3> QED BY <1>1, <2>2, <3>1, <3>2 DEF Submit, TypedFlow
  <2>3. ASSUME ~TakeCancelled, ~Submit PROVE TypedFlow'
    BY <1>2, <1>3, <2>3 DEF Processor, PauseSeen, SetPaused, Take, Continue, LoopEnds,
       AwaitTask, TasksGone, Reap, Sleep, Enqueue
  <2> QED BY <2>1, <2>2, <2>3
<1>4. CASE Rollouter
  <2>1. ASSUME NEW s \in generating, Generated(s) PROVE TypedFlow'
    <3>1. s \in Samples /\ result' \in Seq(Samples)
      BY <2>1, SeqFacts DEF Generated, TypedFlow
    <3>2. born' \in [Samples -> Nat \cup {Unborn}]
      BY <2>1 DEF Generated, TypedFlow, TypedNumbers
    <3> QED BY <1>1, <2>1, <3>1, <3>2 DEF Generated, TypedFlow
  <2>2. ASSUME NEW s \in generating, Interrupted(s) PROVE TypedFlow'
    <3>1. s \in Samples /\ cancel' \in Seq(Samples)
      BY <2>2, SeqFacts DEF Interrupted, TypedFlow
    <3> QED BY <1>1, <2>2, <3>1 DEF Interrupted, TypedFlow
  <2>3. ASSUME NEW s \in generating, GenerationRaises(s) PROVE TypedFlow'
    BY <1>1, <2>3 DEF GenerationRaises, TypedFlow
  <2>4. CASE ConsumerTake \/ ConsumerRaises
    <3>1. Head(result) \in Samples /\ result' \in Seq(Samples)
      <4>1. result \in Seq(Samples)
        BY DEF TypedFlow
      <4>2. result # <<>> /\ result' = Tail(result)
        BY <2>4 DEF ConsumerTake, ConsumerRaises
      <4> QED BY <4>1, <4>2, SeqFacts
    <3> QED BY <1>1, <2>4, <3>1 DEF ConsumerTake, ConsumerRaises, TypedFlow
  <2>5. CASE ConsumerPut
    <3>1. cons \in Samples \cup {End} /\ PutIntoQueue(cons)
      BY <2>5 DEF ConsumerPut
    <3>2. mq' \in Seq(Samples \cup {End}) /\ dropped' \in SUBSET (Samples \cup {End})
      BY <3>1, PutIntoFacts
    <3> QED BY <1>1, <2>5, <3>2 DEF ConsumerPut, TypedFlow
  <2>6. CASE SendFinish
    <3>1. mq' \in Seq(Samples \cup {End}) /\ dropped' \in SUBSET (Samples \cup {End})
      BY <2>6, PutIntoFacts DEF SendFinish
    <3> QED BY <1>1, <2>6, <3>1 DEF SendFinish, TypedFlow
  <2>7. CASE MonitorLook \/ MonitorPass \/ MonitorResume \/ MonitorTurn
          \/ StreamingEnds \/ ResultsJoined
    BY <1>2, <2>7 DEF MonitorLook,
         MonitorPass, MonitorResume, MonitorTurn, StreamingEnds, ResultsJoined
  <2> QED BY <1>4, <2>1, <2>2, <2>3, <2>4, <2>5, <2>6, <2>7 DEF Rollouter
<1>5. CASE Synchronizer
  BY <1>2, <1>5 DEF Synchronizer, Pause, PauseDone, SyncWeights, CountLocal, CountQueue, Resume, AskLock
<1>6. CASE Trainer
  <2>1. CASE Collect \/ CollectEnd
    <3>1. /\ mq \in Seq(Samples \cup {End}) /\ mq # <<>> /\ mq' = Tail(mq)
          /\ UNCHANGED <<generating, result, cancel, cons, trained, lost, dropped, born>>
      BY <2>1 DEF Collect, CollectEnd, TypedFlow
    <3>2. Head(mq) \in Samples \cup {End} /\ mq' \in Seq(Samples \cup {End})
      BY <3>1, SeqFacts
    <3>3. batch' \in SUBSET Samples
      BY <2>1, <3>2 DEF Collect, CollectEnd, TypedFlow
    <3> QED BY <1>1, <3>1, <3>2, <3>3 DEF TypedFlow
  <2>2. CASE Train
    BY <1>1, <2>2 DEF Train, TypedFlow
  <2>3. CASE StartSync \/ ReadValidation \/ EndTraining \/ ReadLastValidation
    BY <1>2, <2>3 DEF StartSync, ReadValidation, EndTraining, ReadLastValidation
  <2> QED BY <1>6, <2>1, <2>2, <2>3 DEF Trainer
<1>7. CASE UNCHANGED vars
  BY <1>2, <1>7 DEF vars
<1> QED BY <1>3, <1>4, <1>5, <1>6, <1>7 DEF Next, Over

-----------------------------------------------------------------------------
(* Every sample is in one place. *)

\* The sum of EverySampleOnce for one sample, its ten terms before and after the step
\* abbreviated to numbers.
LEMMA OnceStep ==
  TypedControl /\ TypedNumbers /\ TypedFlow /\ HandFits /\ EverySampleOnce /\ [Next]_vars
    => EverySampleOnce'
<1> SUFFICES ASSUME TypedControl, TypedNumbers, TypedFlow, HandFits, EverySampleOnce, [Next]_vars
             PROVE  EverySampleOnce'
  OBVIOUS
<1> USE DEF flowVars, failVars, trainVars, queueVars
<1>1. Samples' = Samples /\ DONE = Total + 1 /\ Samples = 1 .. Total /\ Total \in Nat \ {0}
  BY ConfigKept, SameConfig, ConfigFacts DEF TypedControl, Total, DONE, Samples
<1>2. TypedFlow'
  BY FlowStep
<1> SUFFICES ASSUME NEW s \in Samples
             PROVE  Is(s = hand') + Is(s \in generating') + Occurs(s, result') + Occurs(s, cancel')
                      + Is(s = cons') + Occurs(s, mq') + Is(s \in batch') + Is(s \in trained')
                      + Is(s \in dropped') + Is(s \in lost') = Is(s <= taken')
  BY <1>1, Zenon DEF EverySampleOnce, Occurs, Is
<1> DEFINE H == Is(s = hand)          H1 == Is(s = hand')
           G == Is(s \in generating)  G1 == Is(s \in generating')
           R == Occurs(s, result)     R1 == Occurs(s, result')
           C == Occurs(s, cancel)     C1 == Occurs(s, cancel')
           K == Is(s = cons)          K1 == Is(s = cons')
           Q == Occurs(s, mq)         Q1 == Occurs(s, mq')
           B == Is(s \in batch)       B1 == Is(s \in batch')
           T == Is(s \in trained)     T1 == Is(s \in trained')
           D == Is(s \in dropped)     D1 == Is(s \in dropped')
           L == Is(s \in lost)        L1 == Is(s \in lost')
           N == Is(s <= taken)        N1 == Is(s <= taken')
           Goal == H1 + G1 + R1 + C1 + K1 + Q1 + B1 + T1 + D1 + L1 = N1
<1> SUFFICES Goal
  OBVIOUS
<1>3. H + G + R + C + K + Q + B + T + D + L = N
  BY DEF EverySampleOnce
<1>4. R \in Nat /\ C \in Nat /\ Q \in Nat /\ R1 \in Nat /\ C1 \in Nat /\ Q1 \in Nat
  <2>1. result \in Seq(Samples) /\ cancel \in Seq(Samples) /\ mq \in Seq(Samples \cup {End})
    BY DEF TypedFlow
  <2>2. result' \in Seq(Samples) /\ cancel' \in Seq(Samples) /\ mq' \in Seq(Samples \cup {End})
    BY <1>1, <1>2 DEF TypedFlow, End
  <2> QED BY <2>1, <2>2, OccursPlaces
<1>5. /\ H \in Nat /\ G \in Nat /\ K \in Nat /\ B \in Nat /\ T \in Nat /\ D \in Nat /\ L \in Nat
      /\ H1 \in Nat /\ G1 \in Nat /\ K1 \in Nat /\ B1 \in Nat /\ T1 \in Nat /\ D1 \in Nat
      /\ L1 \in Nat /\ N \in Nat /\ N1 \in Nat /\ N <= 1
  BY DEF Is
<1>6. /\ s # 0 /\ s # -1 /\ s \in Int
      /\ taken \in Nat /\ hand \in Nat
  BY <1>1 DEF TypedNumbers
<1>7. /\ (hand' = hand => H1 = H) /\ (generating' = generating => G1 = G)
      /\ (result' = result => R1 = R) /\ (cancel' = cancel => C1 = C)
      /\ (cons' = cons => K1 = K) /\ (mq' = mq => Q1 = Q)
      /\ (batch' = batch => B1 = B) /\ (trained' = trained => T1 = T)
      /\ (dropped' = dropped => D1 = D) /\ (lost' = lost => L1 = L)
      /\ (taken' = taken => N1 = N)
  BY Zenon DEF Is
<1>8. /\ H = (IF s = hand THEN 1 ELSE 0) /\ G = (IF s \in generating THEN 1 ELSE 0)
      /\ B = (IF s \in batch THEN 1 ELSE 0) /\ T = (IF s \in trained THEN 1 ELSE 0)
      /\ D = (IF s \in dropped THEN 1 ELSE 0) /\ L = (IF s \in lost THEN 1 ELSE 0)
  BY DEF Is
<1> HIDE DEF H, H1, G, G1, R, R1, C, C1, K, K1, Q, Q1, B, B1, T, T1, D, D1, L, L1, N, N1
<1>9. ASSUME UNCHANGED <<hand, taken, generating, result, cancel, cons, mq>>,
             UNCHANGED <<batch, trained, dropped, lost>>
      PROVE  Goal
  BY <1>3, <1>7, <1>9
<1>10. CASE Processor
  <2>1. CASE PauseSeen \/ SetPaused \/ Continue
    BY <1>9, <2>1 DEF PauseSeen, SetPaused, Continue
  <2>2. CASE TakeCancelled
    <3>1. /\ hand = 0 /\ cancel # <<>> /\ cancel \in Seq(Samples)
          /\ hand' = Head(cancel) /\ cancel' = Tail(cancel)
          /\ UNCHANGED <<taken, generating, result, cons, mq, batch, trained, dropped, lost>>
      BY <2>2 DEF TakeCancelled, HandFits, At, Nothing, TypedFlow
    <3>2. C = C1 + H1
      BY <3>1, OccursTail DEF C, C1, H1
    <3>3. H = 0
      BY <1>5, <1>6, <1>8, <3>1
    <3>4. /\ G1 = G /\ R1 = R /\ K1 = K /\ Q1 = Q /\ B1 = B /\ T1 = T /\ D1 = D /\ L1 = L
          /\ N1 = N
      BY <1>7, <3>1
    <3> QED BY <1>3, <1>4, <1>5, <3>2, <3>3, <3>4
  <2>3. CASE Take
    <3>1. /\ hand = 0 /\ hand' = taken + 1 /\ taken' = taken + 1
          /\ UNCHANGED <<generating, result, cancel, cons, mq, batch, trained, dropped, lost>>
      BY <2>3 DEF Take, HandFits, At, Nothing
    <3>2. H = 0 /\ N1 = N + H1
      BY <1>6, <3>1 DEF H, H1, N, N1, Is
    <3>3. /\ G1 = G /\ R1 = R /\ C1 = C /\ K1 = K /\ Q1 = Q /\ B1 = B /\ T1 = T /\ D1 = D
          /\ L1 = L
      BY <1>7, <3>1
    <3> QED BY <1>3, <1>4, <1>5, <3>2, <3>3
  <2>4. CASE Submit
    <3>1. /\ hand \in Samples /\ hand' = 0 /\ generating' = generating \cup {hand}
          /\ UNCHANGED <<taken, result, cancel, cons, mq, batch, trained, dropped, lost>>
      BY <2>4 DEF Submit, HandFits, Enters, At, Nothing
    <3>2. s = hand => s \notin generating
      BY <1>3, <1>4, <1>5, <1>8
    <3>3. H1 = 0 /\ G1 = G + H
      BY <1>6, <3>1, <3>2 DEF H, H1, G, G1, Is
    <3> QED BY <1>3, <1>4, <1>5, <1>7, <3>1, <3>3
  <2>5. ASSUME NEW site \in ReapSites, LoopEnds(site) PROVE Goal
    <3>1. /\ s # hand' <=> s # hand
          /\ UNCHANGED <<taken, generating, result, cancel, cons, mq, batch, trained, dropped, lost>>
      BY <1>1, <2>5 DEF LoopEnds, HandFits, At, Nothing
    <3>2. H1 = H
      BY <3>1 DEF H, H1, Is
    <3> QED BY <1>3, <1>7, <3>1, <3>2
  <2>6. ASSUME NEW site \in ReapSites, AwaitTask(site) \/ TasksGone(site) \/ Reap(site)
        PROVE  Goal
    BY <1>9, <2>6 DEF AwaitTask, TasksGone, Reap
  <2>7. CASE (\E site \in {"idle", "submit"} : Sleep(site)) \/
             (\E site \in {"pause", "drain", "idle", "limit", "submit", "finish"} : Enqueue(site))
    BY <1>9, <2>7 DEF Sleep, Enqueue
  <2> QED BY <1>10, <2>1, <2>2, <2>3, <2>4, <2>5, <2>6, <2>7 DEF Processor
<1>11. CASE Rollouter
  <2>1. ASSUME NEW g \in generating, Generated(g) PROVE Goal
    <3>1. /\ g \in Samples /\ result \in Seq(Samples) /\ result' = Append(result, g)
          /\ generating' = generating \ {g}
          /\ UNCHANGED <<taken, hand, cancel, cons, mq, batch, trained, dropped, lost>>
      BY <2>1 DEF Generated, TypedFlow
    <3>2. R1 = R + Is(s = g)
      BY <3>1, OccursAppend DEF R, R1
    <3>3. G1 = G - Is(s = g) /\ Is(s = g) \in Nat
      BY <2>1, <3>1 DEF Is, G, G1
    <3>4. /\ H1 = H /\ C1 = C /\ K1 = K /\ Q1 = Q /\ B1 = B /\ T1 = T /\ D1 = D /\ L1 = L
          /\ N1 = N
      BY <1>7, <3>1
    <3>5. R1 + G1 = R + G
      BY <1>4, <1>5, <3>2, <3>3
    <3> QED BY <1>3, <1>4, <1>5, <3>4, <3>5
  <2>2. ASSUME NEW g \in generating, Interrupted(g) PROVE Goal
    <3>1. /\ g \in Samples /\ cancel \in Seq(Samples) /\ cancel' = Append(cancel, g)
          /\ generating' = generating \ {g}
          /\ UNCHANGED <<taken, hand, result, cons, mq, batch, trained, dropped, lost>>
      BY <2>2 DEF Interrupted, TypedFlow
    <3>2. C1 = C + Is(s = g)
      BY <3>1, OccursAppend DEF C, C1
    <3>3. G1 = G - Is(s = g) /\ Is(s = g) \in Nat
      BY <2>2, <3>1 DEF Is, G, G1
    <3>4. /\ H1 = H /\ R1 = R /\ K1 = K /\ Q1 = Q /\ B1 = B /\ T1 = T /\ D1 = D /\ L1 = L
          /\ N1 = N
      BY <1>7, <3>1
    <3>5. C1 + G1 = C + G
      BY <1>4, <1>5, <3>2, <3>3
    <3> QED BY <1>3, <1>4, <1>5, <3>4, <3>5
  <2>3. ASSUME NEW g \in generating, GenerationRaises(g) PROVE Goal
    <3>1. /\ generating' = generating \ {g} /\ lost' = lost \cup {g}
          /\ UNCHANGED <<taken, hand, result, cancel, cons, mq, batch, trained, dropped>>
      BY <2>3 DEF GenerationRaises
    <3>2. s \in generating => s \notin lost
      BY <1>3, <1>4, <1>5, <1>8
    <3>3. G1 + L1 = G + L
      BY <2>3, <3>1, <3>2 DEF G, G1, L, L1, Is
    <3>4. G1 \in Nat /\ L1 \in Nat
      BY DEF G1, L1, Is
    <3> QED BY <1>3, <1>4, <1>5, <1>7, <3>1, <3>3, <3>4
  <2>4. CASE ConsumerTake \/ ConsumerRaises
    <3>1. /\ result \in Seq(Samples) /\ result # <<>> /\ result' = Tail(result) /\ cons = 0
          /\ UNCHANGED <<taken, hand, generating, cancel, mq, batch, trained, dropped>>
          /\ \/ cons' = Head(result) /\ lost' = lost
             \/ cons' = -1 /\ lost' = lost \cup {Head(result)}
      BY <2>4 DEF ConsumerTake, ConsumerRaises, TypedFlow, Nothing, Dead
    <3>2. R = R1 + Is(s = Head(result)) /\ Is(s = Head(result)) \in Nat
      BY <3>1, OccursTail DEF R, R1, Is
    <3>3. s = Head(result) => s \notin lost
      BY <1>3, <1>4, <1>5, <1>8, <3>2 DEF Is
    <3>4. K = 0 /\ K1 + L1 = L + Is(s = Head(result))
      BY <1>6, <3>1, <3>3 DEF Is, K, K1, L, L1
    <3>5. K1 \in Nat /\ L1 \in Nat
      BY DEF K1, L1, Is
    <3>6. /\ H1 = H /\ G1 = G /\ C1 = C /\ Q1 = Q /\ B1 = B /\ T1 = T /\ D1 = D /\ N1 = N
      BY <1>7, <3>1
    <3> QED BY <1>3, <1>4, <1>5, <3>2, <3>4, <3>5, <3>6
  <2>5. ASSUME NEW x \in Samples \cup {End}, PutIntoQueue(x),
               UNCHANGED <<taken, hand, generating, result, cancel, batch, trained, lost>>,
               IF x = End THEN cons' = cons ELSE x = cons /\ cons' = 0
        PROVE  Goal
    <3>1. mq \in Seq(Samples \cup {End})
      BY DEF TypedFlow
    <3>2. \A q \in Seq(Samples \cup {End}) :
            Occurs(s, Append(q, x)) = Occurs(s, q) + Is(s = x) /\ Occurs(s, q) \in Nat
      BY OccursAppend, OccursPlaces
    <3>3. K1 = K - Is(s = x) /\ Is(s = x) \in Nat
      BY <1>6, <2>5 DEF Is, End, K, K1
    <3>4. CASE Len(mq) >= MaxRequired
      <4>1. /\ mq # <<>> /\ mq' = Append(Tail(mq), x) /\ dropped' = dropped \cup {Head(mq)}
        BY <2>5, <3>4, PutIntoFacts DEF PutIntoQueue
      <4>2. Tail(mq) \in Seq(Samples \cup {End})
        BY <3>1, <4>1
      <4>3. Q = Occurs(s, Tail(mq)) + Is(s = Head(mq))
        BY <3>1, <4>1, OccursTail DEF Q
      <4>4. Q1 = Occurs(s, Tail(mq)) + Is(s = x) /\ Occurs(s, Tail(mq)) \in Nat
        BY <3>2, <4>1, <4>2 DEF Q1
      <4>5. s = Head(mq) => s \notin dropped
        BY <1>3, <1>4, <1>5, <1>8, <4>3, <4>4, SMTT(30) DEF Is
      <4>6. D1 = D + Is(s = Head(mq)) /\ Is(s = Head(mq)) \in Nat
        BY <4>1, <4>5 DEF Is, D, D1
      <4> QED BY <1>3, <1>4, <1>5, <1>7, <2>5, <3>3, <4>3, <4>4, <4>6
    <3>5. CASE ~(Len(mq) >= MaxRequired)
      <4>1. mq' = Append(mq, x) /\ dropped' = dropped
        BY <2>5, <3>5, PutIntoFacts DEF PutIntoQueue
      <4>2. Q1 = Q + Is(s = x)
        BY <3>1, <3>2, <4>1 DEF Q, Q1
      <4>3. /\ H1 = H /\ G1 = G /\ R1 = R /\ C1 = C /\ B1 = B /\ T1 = T /\ D1 = D /\ L1 = L
            /\ N1 = N
        BY <1>7, <2>5, <4>1
      <4> QED BY <1>3, <1>4, <1>5, <3>3, <4>2, <4>3
    <3> QED BY <3>4, <3>5
  <2>6. CASE ConsumerPut
    BY <1>1, <2>5, <2>6 DEF ConsumerPut, End, Nothing
  <2>7. CASE SendFinish
    BY <2>5, <2>7 DEF SendFinish
  <2>8. CASE MonitorLook \/ MonitorPass \/ MonitorResume \/ MonitorTurn
          \/ StreamingEnds \/ ResultsJoined
    BY <1>9, <2>8 DEF MonitorLook,
         MonitorPass, MonitorResume, MonitorTurn, StreamingEnds, ResultsJoined
  <2> QED BY <1>11, <2>1, <2>2, <2>3, <2>4, <2>6, <2>7, <2>8 DEF Rollouter
<1>12. CASE Synchronizer
  BY <1>9, <1>12 DEF Synchronizer, Pause, PauseDone, SyncWeights, CountLocal, CountQueue, Resume,
     AskLock
<1>13. CASE Trainer
  <2>1. CASE Collect \/ CollectEnd
    <3>1. /\ mq \in Seq(Samples \cup {End}) /\ mq # <<>> /\ mq' = Tail(mq)
          /\ batch' = IF Head(mq) = End THEN batch ELSE batch \cup {Head(mq)}
          /\ UNCHANGED <<taken, hand, generating, result, cancel, cons, trained, dropped, lost>>
      BY <2>1 DEF Collect, CollectEnd, TypedFlow
    <3>2. Q = Q1 + Is(s = Head(mq)) /\ Is(s = Head(mq)) \in Nat
      BY <3>1, OccursTail DEF Q, Q1, Is
    <3>3. s = Head(mq) => s \notin batch
      BY <1>3, <1>4, <1>5, <1>8, <3>2 DEF Is
    <3>4. B1 = B + Is(s = Head(mq))
      BY <1>6, <3>1, <3>3 DEF Is, End, B, B1
    <3>5. /\ H1 = H /\ G1 = G /\ R1 = R /\ C1 = C /\ K1 = K /\ T1 = T /\ D1 = D /\ L1 = L
          /\ N1 = N
      BY <1>7, <3>1
    <3> QED BY <1>3, <1>4, <1>5, <3>2, <3>4, <3>5
  <2>2. CASE Train
    <3>1. /\ trained' = trained \cup batch /\ batch' = {}
          /\ UNCHANGED <<taken, hand, generating, result, cancel, cons, mq, dropped, lost>>
      BY <2>2 DEF Train
    <3>2. s \in batch => s \notin trained
      BY <1>3, <1>4, <1>5, <1>8
    <3>3. B1 = 0 /\ T1 = T + B
      BY <3>1, <3>2 DEF B, B1, T, T1, Is
    <3> QED BY <1>3, <1>4, <1>5, <1>7, <3>1, <3>3
  <2>3. CASE StartSync \/ ReadValidation \/ EndTraining \/ ReadLastValidation
    BY <1>9, <2>3 DEF StartSync, ReadValidation, EndTraining, ReadLastValidation
  <2> QED BY <1>13, <2>1, <2>2, <2>3 DEF Trainer
<1>14. CASE UNCHANGED vars
  BY <1>9, <1>14 DEF vars
<1> QED BY <1>10, <1>11, <1>12, <1>13, <1>14 DEF Next, Over

-----------------------------------------------------------------------------

Flow == TypedControl /\ Locked /\ TypedNumbers /\ TypedFlow /\ HandFits /\ EverySampleOnce

LEMMA FlowInit == Init => Flow
<1> SUFFICES ASSUME Init PROVE Flow
  OBVIOUS
<1>1. TypedControl /\ TypedNumbers /\ TypedFlow /\ HandFits
  BY TypedInit
<1>2. Locked
  BY DEF Init, Locked, Holds
<1>3. EverySampleOnce
  <2> SUFFICES ASSUME NEW s \in Samples
               PROVE  Is(s = hand) + Is(s \in generating) + Occurs(s, result) + Occurs(s, cancel)
                        + Is(s = cons) + Occurs(s, mq) + Is(s \in batch) + Is(s \in trained)
                        + Is(s \in dropped) + Is(s \in lost) = Is(s <= taken)
    BY DEF EverySampleOnce
  <2>1. s # 0 /\ ~(s <= 0)
    BY <1>1, ConfigFacts DEF TypedControl, Samples, Total
  <2>2. Occurs(s, result) = 0 /\ Occurs(s, cancel) = 0 /\ Occurs(s, mq) = 0
    BY OccursEmpty DEF Init
  <2> QED BY <2>1, <2>2 DEF Init, Is, Nothing
<1> QED BY <1>1, <1>2, <1>3 DEF Flow

LEMMA FlowNext == Flow /\ [Next]_vars => Flow'
BY ControlStep, LockedStep, NumbersStep, FlowStep, HandFitsStep, OnceStep DEF Flow

LEMMA FlowAlways == Spec => []Flow
BY FlowInit, FlowNext, PTL DEF Spec

(* Whatever the configuration, pauses, interruptions and resumptions neither lose nor       *)
(* duplicate a sample: what the processor took is in exactly one place of the pipeline.     *)
THEOREM SamplesNeitherLostNorDoubled == Spec => []EverySampleOnce
<1>1. Flow => EverySampleOnce
  BY DEF Flow
<1> QED BY <1>1, FlowAlways, PTL

-----------------------------------------------------------------------------
(* How much is in flight. *)

LEMMA InQueue ==
  ASSUME NEW S, NEW q \in Seq(S)
  PROVE  /\ IsFiniteSet(In(q)) /\ Cardinality(In(q)) <= Len(q) /\ Cardinality(In(q)) \in Nat
         /\ \A s : Occurs(s, q) > 0 <=> s \in In(q)
<1>1. Len(q) \in Nat /\ IsFiniteSet(1 .. Len(q)) /\ Cardinality(1 .. Len(q)) = Len(q)
  <2>1. Len(q) \in Nat
    OBVIOUS
  <2>2. \A n \in Nat : IsFiniteSet(1 .. n) /\ Cardinality(1 .. n) = n
    BY FS_Interval
  <2> QED BY <2>1, <2>2
<1>2. q \in Surjection(1 .. Len(q), In(q))
  BY DEF Surjection, In
<1>3. ASSUME NEW s PROVE Occurs(s, q) > 0 <=> s \in In(q)
  <2>1. s \in In(q) <=> Places(s, q) # {}
    BY DEF In, Places
  <2>2. /\ Occurs(s, q) = Cardinality(Places(s, q)) /\ IsFiniteSet(Places(s, q))
        /\ Occurs(s, q) \in Nat
    BY OccursPlaces
  <2>3. Cardinality(Places(s, q)) = 0 <=> Places(s, q) = {}
    BY <2>2, FS_EmptySet
  <2> QED BY <2>1, <2>2, <2>3
<1> QED BY <1>1, <1>2, <1>3, FS_Surjection, FS_CardinalityType

\* What EverySampleOnce leaves for a sample in flight.
LEMMA WhereInFlight ==
  ASSUME Flow
  PROVE  InFlight \subseteq {hand} \cup generating \cup In(result) \cup In(cancel) \cup {cons} \cup In(mq)
<1> SUFFICES ASSUME NEW s \in InFlight,
                    s # hand, s \notin generating, s # cons,
                    s \notin In(result), s \notin In(cancel), s \notin In(mq)
             PROVE  FALSE
  OBVIOUS
<1>1. /\ s \in Samples /\ s <= taken
      /\ s \notin batch /\ s \notin trained /\ s \notin dropped /\ s \notin lost
  BY DEF InFlight
<1>2. Occurs(s, result) \in Nat /\ Occurs(s, cancel) \in Nat /\ Occurs(s, mq) \in Nat
  BY OccursPlaces DEF Flow, TypedFlow
<1>3. Occurs(s, result) = 0 /\ Occurs(s, cancel) = 0 /\ Occurs(s, mq) = 0
  BY <1>2, InQueue DEF Flow, TypedFlow
<1> QED BY <1>1, <1>3 DEF Flow, EverySampleOnce, Is

LEMMA UnionBound ==
  ASSUME NEW S, NEW T, IsFiniteSet(S), IsFiniteSet(T)
  PROVE  /\ IsFiniteSet(S \cup T) /\ Cardinality(S \cup T) \in Nat
         /\ Cardinality(S \cup T) <= Cardinality(S) + Cardinality(T)
<1>1. S \cap T \in SUBSET S
  OBVIOUS
<1>2. IsFiniteSet(S \cap T)
  BY <1>1, FS_Subset
<1>3. /\ IsFiniteSet(S \cup T)
      /\ Cardinality(S \cup T) = Cardinality(S) + Cardinality(T) - Cardinality(S \cap T)
  BY FS_Union
<1>4. /\ Cardinality(S) \in Nat /\ Cardinality(T) \in Nat /\ Cardinality(S \cap T) \in Nat
      /\ Cardinality(S \cup T) \in Nat
  BY <1>2, <1>3, FS_CardinalityType
<1> QED BY <1>3, <1>4

LEMMA InFlightSum ==
  ASSUME Flow
  PROVE  Cardinality(InFlight)
           <= Cardinality(generating) + Len(result) + Len(cancel) + Len(mq) + 2
<1> DEFINE A == {hand} \cup generating
           B == A \cup In(result)
           C == B \cup In(cancel)
           D == C \cup {cons}
           E == D \cup In(mq)
<1>1. /\ IsFiniteSet(generating) /\ Cardinality(generating) \in Nat
      /\ result \in Seq(Samples) /\ cancel \in Seq(Samples) /\ mq \in Seq(Samples \cup {End})
  BY SamplesFinite DEF Flow, TypedFlow
<1>2. /\ IsFiniteSet(In(result)) /\ Cardinality(In(result)) <= Len(result)
      /\ IsFiniteSet(In(cancel)) /\ Cardinality(In(cancel)) <= Len(cancel)
      /\ IsFiniteSet(In(mq)) /\ Cardinality(In(mq)) <= Len(mq)
      /\ Cardinality(In(result)) \in Nat /\ Cardinality(In(cancel)) \in Nat
      /\ Cardinality(In(mq)) \in Nat
      /\ Len(result) \in Nat /\ Len(cancel) \in Nat /\ Len(mq) \in Nat
  BY <1>1, InQueue
<1>3. \A S, T : IsFiniteSet(S) /\ IsFiniteSet(T) =>
        /\ IsFiniteSet(S \cup T) /\ Cardinality(S \cup T) \in Nat
        /\ Cardinality(S \cup T) <= Cardinality(S) + Cardinality(T)
  BY UnionBound
<1>4. /\ IsFiniteSet({hand}) /\ Cardinality({hand}) = 1
      /\ IsFiniteSet({cons}) /\ Cardinality({cons}) = 1
  BY FS_Singleton
<1>5. IsFiniteSet(A) /\ Cardinality(A) \in Nat /\ Cardinality(A) <= Cardinality(generating) + 1
  BY <1>1, <1>3, <1>4
<1>6. IsFiniteSet(B) /\ Cardinality(B) \in Nat /\ Cardinality(B) <= Cardinality(A) + Len(result)
  <2> HIDE DEF A
  <2> QED BY <1>2, <1>3, <1>5
<1>7. IsFiniteSet(C) /\ Cardinality(C) \in Nat /\ Cardinality(C) <= Cardinality(B) + Len(cancel)
  <2> HIDE DEF B
  <2> QED BY <1>2, <1>3, <1>6
<1>8. IsFiniteSet(D) /\ Cardinality(D) \in Nat /\ Cardinality(D) <= Cardinality(C) + 1
  <2> HIDE DEF C
  <2>1. /\ IsFiniteSet(C \cup {cons}) /\ Cardinality(C \cup {cons}) \in Nat
        /\ Cardinality(C \cup {cons}) <= Cardinality(C) + Cardinality({cons})
    BY <1>3, <1>4, <1>7
  <2> QED BY <1>4, <1>7, <2>1
<1>9. IsFiniteSet(E) /\ Cardinality(E) \in Nat /\ Cardinality(E) <= Cardinality(D) + Len(mq)
  <2> HIDE DEF D
  <2> QED BY <1>2, <1>3, <1>8
<1>10. InFlight \subseteq E
  BY WhereInFlight
<1> HIDE DEF A, B, C, D, E
<1>11. Cardinality(InFlight) <= Cardinality(E) /\ Cardinality(InFlight) \in Nat
  BY <1>9, <1>10, FS_Subset, FS_CardinalityType
<1>12. Cardinality(D) <= Cardinality(generating) + 1 + Len(result) + Len(cancel) + 1
  <2>1. Cardinality(generating) \in Nat /\ Len(result) \in Nat /\ Len(cancel) \in Nat
    BY <1>1, <1>2
  <2> QED BY <2>1, <1>5, <1>6, <1>7, <1>8
<1>13. /\ Cardinality(generating) \in Nat /\ Len(result) \in Nat /\ Len(cancel) \in Nat
       /\ Len(mq) \in Nat
  BY <1>1, <1>2
<1> QED BY SMTT(20), <1>8, <1>9, <1>11, <1>12, <1>13

\* With Flow: how many samples are in flight, and what update_param_version has seen of
\* them between its two reads.
Counting ==
  /\ Cardinality(InFlight) <= staleness_samples + 2
  /\ InFlightBounded
  /\ sync = "count" => Cardinality(generating) + Len(result) + Len(cancel) <= counted

LEMMA InFlightFinite ==
  ASSUME TypedControl
  PROVE  IsFiniteSet(InFlight) /\ Cardinality(InFlight) \in Nat
<1>1. InFlight \in SUBSET Samples
  BY DEF InFlight
<1> QED BY <1>1, SamplesFinite

LEMMA CountingInit == Init => Counting
<1> SUFFICES ASSUME Init PROVE Counting
  OBVIOUS
<1>1. InFlight = {}
  BY TypedInit, ConfigFacts DEF Init, InFlight, Samples, Total
<1>2. Cardinality(InFlight) = 0
  BY <1>1, FS_EmptySet
<1>3. MaxRequired \in Nat \ {0}
  BY MaxRequiredFacts DEF MaxRequired, Init
<1> QED BY <1>2, <1>3 DEF Init, Counting, InFlightBounded

LEMMA CountingStep == Flow /\ Flow' /\ Counting /\ [Next]_vars => Counting'
<1> SUFFICES ASSUME Flow, Flow', Counting, [Next]_vars PROVE Counting'
  OBVIOUS
<1> USE DEF rollVars, flowVars, failVars, procVars, taskVars, queueVars, syncVars, trainVars
<1>1. /\ Samples' = Samples /\ Samples = 1 .. Total /\ Total \in Nat \ {0}
      /\ MaxRequired' = MaxRequired /\ MaxRequired \in Nat \ {0}
  BY ConfigKept, SameConfig, ConfigFacts, MaxRequiredFacts
     DEF Flow, TypedControl, Total, Samples, MaxRequired
<1>2. /\ staleness_samples \in Nat /\ counted \in Nat /\ taken \in Nat
      /\ Len(mq) \in Nat /\ Len(result) \in Nat /\ Len(cancel) \in Nat
      /\ Cardinality(generating) \in Nat /\ IsFiniteSet(generating)
      /\ IsFiniteSet(InFlight) /\ Cardinality(InFlight) \in Nat
  <2>1. TypedControl /\ TypedNumbers /\ TypedFlow /\ DONE = Total + 1
    BY DEF Flow, DONE
  <2>2. staleness_samples \in Nat /\ counted \in Nat /\ taken \in Nat
    BY <1>1, <2>1 DEF TypedNumbers
  <2>3. /\ mq \in Seq(Samples \cup {End}) /\ result \in Seq(Samples) /\ cancel \in Seq(Samples)
        /\ generating \in SUBSET Samples
    BY <2>1 DEF TypedFlow
  <2>4. IsFiniteSet(generating) /\ Cardinality(generating) \in Nat
    BY <2>1, <2>3, SamplesFinite
  <2> QED BY <2>1, <2>2, <2>3, <2>4, InFlightFinite
<1> DEFINE Local == Cardinality(generating) + Len(result) + Len(cancel)
\* Every step but the processor's take leaves no more samples in flight.
<1>3. ASSUME InFlight' \subseteq InFlight PROVE Cardinality(InFlight') <= Cardinality(InFlight)
  BY <1>2, <1>3, FS_Subset
<1>4. ASSUME InFlight' \subseteq InFlight, staleness_samples' = staleness_samples,
             sync' = "count" => /\ sync = "count" /\ counted' = counted
                                /\ Local' <= Local /\ Local' \in Nat
      PROVE  Counting'
  <2>1. Cardinality(InFlight') \in Nat
    BY <1>2, <1>4, FS_Subset, FS_CardinalityType
  <2> QED BY <1>1, <1>2, <1>3, <1>4, <2>1 DEF Counting, InFlightBounded
<1>5. ASSUME UNCHANGED <<taken, batch, trained, dropped, lost>>
      PROVE  InFlight' = InFlight
  BY <1>1, <1>5 DEF InFlight
<1>6. ASSUME UNCHANGED <<taken, batch, trained, dropped, lost, staleness_samples>>,
             UNCHANGED <<generating, result, cancel, sync, counted>>
      PROVE  Counting'
  BY <1>2, <1>4, <1>5, <1>6 DEF Counting
<1>7. CASE Processor
  <2>1. CASE PauseSeen \/ SetPaused \/ Continue
    BY <1>6, <2>1 DEF PauseSeen, SetPaused, Continue
  <2>2. CASE TakeCancelled
    <3>1. cancel \in Seq(Samples) /\ cancel # <<>> /\ cancel' = Tail(cancel)
      BY <2>2 DEF TakeCancelled, Flow, TypedFlow
    <3>2. Len(cancel') = Len(cancel) - 1 /\ Len(cancel') \in Nat
      BY <3>1, SeqFacts
    <3> QED BY <1>2, <1>4, <1>5, <2>2, <3>2 DEF TakeCancelled
  <2>3. CASE Take
    <3>1. InFlight' \subseteq InFlight \cup {taken + 1}
      BY <1>1, <1>2, <2>3 DEF Take, InFlight
    <3>2. /\ IsFiniteSet(InFlight \cup {taken + 1})
          /\ Cardinality(InFlight \cup {taken + 1}) <= Cardinality(InFlight) + 1
      BY <1>2, FS_AddElement
    <3>3. /\ Cardinality(InFlight') <= Cardinality(InFlight \cup {taken + 1})
          /\ Cardinality(InFlight') \in Nat /\ Cardinality(InFlight \cup {taken + 1}) \in Nat
      BY <3>1, <3>2, FS_Subset, FS_CardinalityType
    <3>4. staleness_samples < MaxRequired /\ staleness_samples' = staleness_samples + 1
      BY <1>1, <1>2, <2>3 DEF Take, ShouldPause
    <3>5. UNCHANGED <<sync, counted, generating, result, cancel>>
      BY <2>3 DEF Take
    <3> QED BY <1>1, <1>2, <3>2, <3>3, <3>4, <3>5 DEF Counting, InFlightBounded
  \* update_param_version keeps the lock between its two reads, so nothing is submitted.
  <2>4. CASE Submit
    <3>1. sync # "count"
      BY <2>4 DEF Submit, Enters, Flow, Locked, Holds
    <3> QED BY <1>4, <1>5, <2>4, <3>1 DEF Submit
  <2>5. ASSUME NEW site \in ReapSites,
               LoopEnds(site) \/ AwaitTask(site) \/ TasksGone(site) \/ Reap(site)
        PROVE  Counting'
    BY <1>6, <2>5 DEF LoopEnds, AwaitTask, TasksGone, Reap
  <2>6. CASE (\E site \in {"idle", "submit"} : Sleep(site)) \/
             (\E site \in {"pause", "drain", "idle", "limit", "submit", "finish"} : Enqueue(site))
    BY <1>6, <2>6 DEF Sleep, Enqueue
  <2> QED BY <1>7, <2>1, <2>2, <2>3, <2>4, <2>5, <2>6 DEF Processor
<1>8. CASE Rollouter
  <2>1. ASSUME NEW g \in generating, generating' = generating \ {g}
        PROVE  /\ Cardinality(generating') = Cardinality(generating) - 1
               /\ Cardinality(generating') \in Nat
    BY <1>2, <2>1, FS_RemoveElement, FS_CardinalityType
  <2>2. ASSUME NEW g \in generating, Generated(g) \/ Interrupted(g) PROVE Counting'
    <3>1. g \in Samples /\ result \in Seq(Samples) /\ cancel \in Seq(Samples)
      BY DEF Flow, TypedFlow
    <3>2. Len(Append(result, g)) = Len(result) + 1 /\ Len(Append(cancel, g)) = Len(cancel) + 1
      BY <3>1, SeqFacts
    <3>3. /\ Cardinality(generating') = Cardinality(generating) - 1
          /\ Cardinality(generating') \in Nat
      BY <2>1, <2>2 DEF Generated, Interrupted
    <3>4. Local' = Local /\ Local' \in Nat
      <4>1. \/ Len(result') = Len(result) + 1 /\ Len(cancel') = Len(cancel)
            \/ Len(result') = Len(result) /\ Len(cancel') = Len(cancel) + 1
        BY <2>2, <3>2 DEF Generated, Interrupted
      <4>2. Len(result) \in Nat /\ Len(cancel) \in Nat /\ Cardinality(generating) \in Nat
        BY <1>2
      <4>3. CASE Len(result') = Len(result) + 1 /\ Len(cancel') = Len(cancel)
        BY <3>3, <4>2, <4>3
      <4>4. CASE Len(result') = Len(result) /\ Len(cancel') = Len(cancel) + 1
        BY <3>3, <4>2, <4>4
      <4> QED BY <4>1, <4>3, <4>4
    <3> QED BY <1>2, <1>4, <1>5, <2>2, <3>4 DEF Generated, Interrupted
  <2>3. ASSUME NEW g \in generating, GenerationRaises(g) PROVE Counting'
    <3>1. InFlight' \subseteq InFlight
      BY <1>1, <2>3 DEF GenerationRaises, InFlight
    <3>2. /\ Cardinality(generating') = Cardinality(generating) - 1
          /\ Cardinality(generating') \in Nat
          /\ Len(result') = Len(result) /\ Len(cancel') = Len(cancel)
      BY <2>1, <2>3 DEF GenerationRaises
    <3>3. Local' <= Local /\ Local' \in Nat
      BY <1>2, <3>2
    <3> QED BY <1>4, <2>3, <3>1, <3>3 DEF GenerationRaises
  <2>4. CASE ConsumerTake \/ ConsumerRaises
    <3>1. InFlight' \subseteq InFlight
      BY <1>1, <2>4 DEF ConsumerTake, ConsumerRaises, InFlight
    <3>2. result \in Seq(Samples) /\ result # <<>> /\ result' = Tail(result)
      BY <2>4 DEF ConsumerTake, ConsumerRaises, Flow, TypedFlow
    <3>3. Len(result') = Len(result) - 1 /\ Len(result') \in Nat
      BY <3>2, SeqFacts
    <3> QED BY <1>2, <1>4, <2>4, <3>1, <3>3 DEF ConsumerTake, ConsumerRaises
  <2>5. CASE ConsumerPut \/ SendFinish
    <3>1. InFlight' \subseteq InFlight
      BY <1>1, <2>5 DEF ConsumerPut, SendFinish, PutIntoQueue, InFlight
    <3> QED BY <1>2, <1>4, <2>5, <3>1 DEF ConsumerPut, SendFinish
  <2>6. CASE MonitorLook \/ MonitorPass \/ MonitorResume \/ MonitorTurn
          \/ StreamingEnds \/ ResultsJoined
    BY <1>6, <2>6 DEF MonitorLook,
         MonitorPass, MonitorResume, MonitorTurn, StreamingEnds, ResultsJoined
  <2> QED BY <1>8, <2>2, <2>3, <2>4, <2>5, <2>6 DEF Rollouter
<1>9. CASE Synchronizer
  <2>1. CASE Pause \/ PauseDone \/ SyncWeights \/ Resume \/
             \E stage \in {"pause", "update", "resume"} : AskLock(stage)
    <3>1. UNCHANGED <<taken, batch, trained, dropped, lost, generating, result, cancel>>
      BY <2>1 DEF Pause, PauseDone, SyncWeights, Resume, AskLock
    <3>2. /\ staleness_samples' = staleness_samples /\ counted' = counted
          /\ sync' = "count" => sync = "count"
      BY <2>1 DEF Pause, PauseDone, SyncWeights, Resume, AskLock
    <3> QED BY <1>2, <1>4, <1>5, <3>1, <3>2
  <2>2. CASE CountLocal
    <3>1. Local <= counted'
      BY <1>2, <2>2 DEF CountLocal, ActiveTasks, Flow, TypedNumbers
    <3>2. InFlight' = InFlight
      BY <1>5, <2>2 DEF CountLocal
    <3> QED BY <1>1, <1>2, <2>2, <3>1, <3>2 DEF CountLocal, Counting, InFlightBounded
  <2>3. CASE CountQueue
    <3>1. Cardinality(InFlight) <= Local + Len(mq) + 2
      BY InFlightSum, <1>2
    <3>2. Local <= counted /\ staleness_samples' = counted + Len(mq) /\ sync' # "count"
      BY <2>3 DEF CountQueue, Counting
    <3>3. InFlight' = InFlight
      BY <1>5, <2>3 DEF CountQueue
    <3> QED BY <1>1, <1>2, <3>1, <3>2, <3>3 DEF Counting, InFlightBounded
  <2> QED BY <1>9, <2>1, <2>2, <2>3 DEF Synchronizer
<1>10. CASE Trainer
  <2>1. CASE Collect \/ CollectEnd \/ Train
    <3>1. InFlight' \subseteq InFlight
      BY <1>1, <2>1 DEF Collect, CollectEnd, Train, InFlight
    <3> QED BY <1>2, <1>4, <2>1, <3>1 DEF Collect, CollectEnd, Train
  <2>2. CASE StartSync
    BY <1>4, <1>5, <2>2 DEF StartSync
  <2>3. CASE ReadValidation \/ EndTraining \/ ReadLastValidation
    BY <1>6, <2>3 DEF ReadValidation, EndTraining, ReadLastValidation
  <2> QED BY <1>10, <2>1, <2>2, <2>3 DEF Trainer
<1>11. CASE UNCHANGED vars
  BY <1>6, <1>11 DEF vars
<1> QED BY <1>7, <1>8, <1>9, <1>10, <1>11 DEF Next, Over

(* staleness_samples bounds what the rollouter has in flight, for every configuration: no   *)
(* interleaving of takes, pauses and resets of the counter lets more than                    *)
(* max_required_samples and two samples into the pipeline.                                  *)
THEOREM StalenessBoundsInFlight == Spec => []InFlightBounded
<1>1. Spec => []Counting
  BY CountingInit, CountingStep, FlowAlways, PTL DEF Spec
<1>2. Counting => InFlightBounded
  BY DEF Counting
<1> QED BY <1>1, <1>2, PTL

-----------------------------------------------------------------------------
(* The end of the data. *)

TrainerEnded == trainer \in {"end", "last_wait", "last_sync", "last_read", "done"}

\* The end signal is the last element of the queue and occurs once.
EndsIn(q) == /\ q # <<>> /\ q[Len(q)] = End
             /\ \A i \in 1 .. Len(q) : q[i] = End => i = Len(q)

Handover ==
  /\ sync \in {"pause", "gather", "weights"} <=> trainer \in {"syncing", "last_sync"}
  /\ ~Partial => serving /\ cancel = <<>>

Drained ==
  /\ main # "run" => proc.is = "ended"
  /\ main = "join" => proc.at = "returned"
  /\ proc.at = "returned" => generating = {}
  /\ proc.at = "returned" /\ main \in {"finish", "over"} => result = <<>> /\ cons = Nothing

EndSignal ==
  /\ main # "over" => ~TrainerEnded /\ End \notin In(mq) /\ End \notin dropped
  /\ proc.at = "returned" /\ main = "over" =>
       /\ End \notin dropped
       /\ IF TrainerEnded THEN mq = <<>> ELSE EndsIn(mq)

Ending == Handover /\ Drained /\ EndSignal

LEMMA EndingInit == Init => Ending
BY DEF Init, Ending, Handover, Drained, EndSignal, TrainerEnded, In, Nothing

LEMMA HandoverStep == Flow /\ Handover /\ [Next]_vars => Handover'
<1> SUFFICES ASSUME Flow, Handover, [Next]_vars PROVE Handover'
  OBVIOUS
<1> USE DEF flowVars, failVars, syncVars, trainVars
<1>1. Partial' = Partial
  BY ConfigKept, SameConfig
<1>2. CASE Processor
  <2>1. CASE TakeCancelled
    BY <1>1, <2>1 DEF TakeCancelled, Handover
  <2>2. ASSUME ~TakeCancelled PROVE Handover'
    BY <1>1, <1>2, <2>2 DEF Processor, PauseSeen, SetPaused, Take, Continue, Submit, LoopEnds,
       AwaitTask, TasksGone, Reap, Sleep, Enqueue, Handover
  <2> QED BY <2>1, <2>2
<1>3. CASE Rollouter
  BY <1>1, <1>3 DEF Rollouter, ConsumerTake, ConsumerRaises, ConsumerPut, MonitorLook,

          MonitorPass, MonitorResume, MonitorTurn, StreamingEnds, ResultsJoined, SendFinish, Generated, Interrupted,
     GenerationRaises, Handover
<1>4. CASE Synchronizer
  BY <1>1, <1>4 DEF Synchronizer, Pause, PauseDone, SyncWeights, CountLocal, CountQueue, Resume,
     AskLock, InLock, Handover
<1>5. CASE Trainer
  BY <1>1, <1>5 DEF Trainer, Collect, CollectEnd, Train, StartSync, ReadValidation, EndTraining,
     ReadLastValidation, Handover
<1>6. CASE UNCHANGED vars
  BY <1>1, <1>6 DEF vars, Handover
<1> QED BY <1>2, <1>3, <1>4, <1>5, <1>6 DEF Next, Over

LEMMA EndedStays == Flow /\ proc.is = "ended" /\ [Next]_vars => proc' = proc
<1> SUFFICES ASSUME Flow, proc.is = "ended", [Next]_vars PROVE proc' = proc
  OBVIOUS
<1> USE DEF procVars
<1>1. ~Processor
  BY DEF Processor, PauseSeen, SetPaused, TakeCancelled, Take, Continue, Submit, LoopEnds,
     AwaitTask, TasksGone, Reap, Sleep, Enqueue, Enters, At
<1>2. Notified = proc
  BY DEF Notified
<1>3. Rollouter => proc' = proc
  BY <1>2 DEF Rollouter, ConsumerTake, ConsumerRaises, ConsumerPut, MonitorLook,
       MonitorPass, MonitorResume, MonitorTurn,
     StreamingEnds, ResultsJoined, SendFinish, Generated, Interrupted, GenerationRaises
<1>4. Synchronizer => proc' = proc
  BY <1>2 DEF Synchronizer, Pause, PauseDone, SyncWeights, CountLocal, CountQueue, Resume, AskLock
<1>5. Trainer \/ UNCHANGED vars => proc' = proc
  BY DEF Trainer, Collect, CollectEnd, Train, StartSync, ReadValidation, EndTraining,
     ReadLastValidation, vars
<1> QED BY <1>1, <1>3, <1>4, <1>5 DEF Next, Over

LEMMA DrainedStep == Flow /\ Flow' /\ Drained /\ [Next]_vars => Drained'
<1> SUFFICES ASSUME Flow, Flow', Drained, [Next]_vars PROVE Drained'
  OBVIOUS
<1> USE DEF flowVars, failVars, taskVars
<1>1. proc.is = "ended" <=> proc.at \in {"returned", "crashed"}
  BY DEF Flow, HandFits
<1>2. proc.is = "ended" => proc' = proc
  BY EndedStays
<1>3. CASE Processor
  <2>1. proc.is # "ended" /\ main' = main
    BY <1>3 DEF Processor, PauseSeen, SetPaused, TakeCancelled, Take, Continue, Submit, LoopEnds,
       AwaitTask, TasksGone, Reap, Sleep, Enqueue, Enters, At
  <2>2. main = "run"
    BY <2>1 DEF Drained
  <2>3. proc'.at = "returned" => generating' = {}
    <3>1. ASSUME NEW site \in ReapSites, LoopEnds(site) PROVE proc'.at = "returned" => generating' = {}
      <4>1. IsFiniteSet(generating) /\ Cardinality(generating) \in Nat /\ done \in Nat
        BY SamplesFinite DEF Flow, TypedFlow, TypedNumbers
      <4>2. proc'.at = "returned" => ~Looping("finish") /\ generating' = generating
        BY <3>1 DEF LoopEnds, After, ReapSites
      <4>3. ~Looping("finish") => Cardinality(generating) = 0
        BY <4>1 DEF Looping, ActiveTasks
      <4> QED BY <4>1, <4>2, <4>3, FS_EmptySet
    <3>2. ASSUME \A site \in ReapSites : ~LoopEnds(site) PROVE proc'.at # "returned"
      BY <1>1, <1>3, <2>1, <3>2 DEF Processor, PauseSeen, SetPaused, TakeCancelled, Take, Continue,
         Submit, AwaitTask, TasksGone, Reap, Sleep, Enqueue, GoTo, Crashed, Enters, At, ReapSites
    <3> QED BY <3>1, <3>2
  <2> QED BY <2>1, <2>2, <2>3 DEF Drained
<1>4. ASSUME UNCHANGED <<main, generating, result, cons>>, proc' = proc PROVE Drained'
  BY <1>4 DEF Drained
<1>5. CASE Rollouter
  <2>1. ASSUME NEW g \in generating, Generated(g) \/ Interrupted(g) \/ GenerationRaises(g)
        PROVE  Drained'
    BY <1>1, <1>2, <2>1 DEF Generated, Interrupted, GenerationRaises, procVars, Drained
  <2>2. CASE ConsumerTake \/ ConsumerRaises \/ ConsumerPut
    BY <2>2 DEF ConsumerTake, ConsumerRaises, ConsumerPut, procVars, Drained, Nothing, Samples
  <2>3. CASE StreamingEnds \/ ResultsJoined \/ SendFinish
    BY <1>1, <2>3 DEF StreamingEnds, ResultsJoined, SendFinish, procVars, Drained
  <2>4. CASE MonitorLook \/ MonitorPass \/ MonitorResume \/ MonitorTurn
    BY <2>4 DEF MonitorLook,
         MonitorPass, MonitorResume, MonitorTurn, Notified, procVars, Drained, Flow, TypedControl
  <2> QED BY <1>5, <2>1, <2>2, <2>3, <2>4 DEF Rollouter
<1>6. CASE Synchronizer
  <2>1. UNCHANGED <<main, generating, result, cons>> /\ proc' \in {proc, Notified}
    BY <1>6 DEF Synchronizer, Pause, PauseDone, SyncWeights, CountLocal, CountQueue, Resume,
       AskLock, procVars
  <2> QED BY <2>1 DEF Notified, Drained, Flow, TypedControl
<1>7. CASE Trainer \/ UNCHANGED vars
  BY <1>4, <1>7 DEF Trainer, Collect, CollectEnd, Train, StartSync, ReadValidation, EndTraining,
     ReadLastValidation, procVars, vars
<1> QED BY <1>3, <1>5, <1>6, <1>7 DEF Next, Over

LEMMA InSteps ==
  ASSUME NEW S, NEW q \in Seq(S)
  PROVE  /\ \A x \in S : In(Append(q, x)) = In(q) \cup {x}
         /\ q # <<>> => Head(q) \in In(q) /\ In(Tail(q)) \subseteq In(q)
         /\ In(q) \subseteq S
<1>1. ASSUME NEW x \in S PROVE In(Append(q, x)) = In(q) \cup {x}
  <2>1. /\ Len(Append(q, x)) = Len(q) + 1 /\ Len(q) \in Nat
        /\ Append(q, x)[Len(q) + 1] = x
        /\ \A i \in 1 .. Len(q) : Append(q, x)[i] = q[i]
    OBVIOUS
  <2> QED BY <2>1 DEF In
<1>2. ASSUME q # <<>> PROVE Head(q) \in In(q) /\ In(Tail(q)) \subseteq In(q)
  <2>1. /\ Len(Tail(q)) = Len(q) - 1 /\ Len(q) \in Nat \ {0} /\ Head(q) = q[1]
        /\ \A i \in 1 .. Len(Tail(q)) : Tail(q)[i] = q[i + 1]
    BY <1>2
  <2> QED BY <2>1 DEF In
<1> QED BY <1>1, <1>2 DEF In

LEMMA EndsInSteps ==
  ASSUME NEW S, NEW q \in Seq(S), End \in S
  PROVE  /\ End \notin In(q) => EndsIn(Append(q, End))
         /\ EndsIn(q) => IF Head(q) = End THEN Tail(q) = <<>> ELSE EndsIn(Tail(q))
<1>1. ASSUME End \notin In(q) PROVE EndsIn(Append(q, End))
  <2>1. /\ Len(Append(q, End)) = Len(q) + 1 /\ Len(q) \in Nat /\ Append(q, End) # <<>>
        /\ Append(q, End)[Len(q) + 1] = End
        /\ \A i \in 1 .. Len(q) : Append(q, End)[i] = q[i]
    OBVIOUS
  <2> QED BY <1>1, <2>1 DEF In, EndsIn
<1>2. ASSUME EndsIn(q) PROVE IF Head(q) = End THEN Tail(q) = <<>> ELSE EndsIn(Tail(q))
  <2> DEFINE n == Len(q)
             t == Tail(q)
  <2>1. q # <<>> /\ n \in Nat /\ n > 0 /\ q[n] = End
    BY <1>2 DEF EndsIn
  <2>2. ASSUME NEW i \in 1 .. n, q[i] = End PROVE i = n
    BY <1>2, <2>2 DEF EndsIn
  <2>3. /\ Len(t) = n - 1 /\ Head(q) = q[1]
        /\ t \in Seq(S) /\ (t = <<>> <=> Len(t) = 0)
    <3>1. t \in Seq(S) /\ Len(t) = n - 1 /\ Head(q) = q[1]
      BY <2>1
    <3>2. \A p \in Seq(S) : p = <<>> <=> Len(p) = 0
      OBVIOUS
    <3>3. t = <<>> <=> Len(t) = 0
      BY <3>1, <3>2
    <3> HIDE DEF t
    <3> QED BY <3>1, <3>3
  <2>4. ASSUME NEW i \in 1 .. n - 1 PROVE t[i] = q[i + 1]
    <3>1. \A j \in 1 .. Len(Tail(q)) : Tail(q)[j] = q[j + 1]
      BY <2>1
    <3> QED BY <2>3, <2>4, <3>1
  <2> HIDE DEF n, t
  <2>5. CASE Head(q) = End
    <3>1. n = 1
      BY <2>1, <2>2, <2>3, <2>5
    <3>2. t = <<>>
      BY <2>3, <3>1
    <3> QED BY <2>5, <3>2 DEF t
  <2>6. CASE Head(q) # End
    <3>1. n > 1
      BY <2>1, <2>3, <2>6
    <3>2. t # <<>> /\ t[n - 1] = End
      BY <2>1, <2>3, <2>4, <3>1
    <3>3. ASSUME NEW i \in 1 .. n - 1, t[i] = End PROVE i = n - 1
      BY <2>1, <2>2, <2>4, <3>3
    <3>4. EndsIn(t)
      BY <2>3, <3>2, <3>3 DEF EndsIn
    <3> QED BY <2>6, <3>4 DEF t
  <2> QED BY <2>5, <2>6
<1> QED BY <1>1, <1>2

LEMMA EndSignalStep == Flow /\ Handover /\ Drained /\ EndSignal /\ [Next]_vars => EndSignal'
<1> SUFFICES ASSUME Flow, Handover, Drained, EndSignal, [Next]_vars PROVE EndSignal'
  OBVIOUS
<1> USE DEF taskVars, queueVars, trainVars, procVars
<1>1. proc.is = "ended" => proc' = proc
  BY EndedStays
<1>2. /\ mq \in Seq(Samples \cup {End}) /\ End \in Samples \cup {End} /\ End \notin Samples
      /\ TypedControl /\ TypedFlow
  BY ConfigFacts DEF Flow, TypedFlow, TypedControl, Samples, End, Total
<1>3. ASSUME UNCHANGED <<main, mq, dropped>>, TrainerEnded' = TrainerEnded PROVE EndSignal'
  BY <1>1, <1>3 DEF EndSignal, Drained, In, EndsIn
<1>4. CASE Processor
  <2>1. UNCHANGED <<main, mq, dropped, trainer>>
    BY <1>4 DEF Processor, PauseSeen, SetPaused, TakeCancelled, Take, Continue, Submit, LoopEnds,
       AwaitTask, TasksGone, Reap, Sleep, Enqueue
  <2> QED BY <1>3, <2>1 DEF TrainerEnded
<1>5. CASE Rollouter
  <2>1. CASE ConsumerPut
    <3>1. cons \in Samples \cup {End} /\ cons # End /\ cons # Nothing /\ PutIntoQueue(cons)
      BY <1>2, <2>1 DEF ConsumerPut, Nothing, End
    <3>2. /\ mq' = Append(IF Len(mq) >= MaxRequired THEN Tail(mq) ELSE mq, cons)
          /\ Len(mq) >= MaxRequired => mq # <<>>
      BY <1>2, <3>1, PutIntoFacts
    <3>3. In(mq') \subseteq In(mq) \cup {cons} /\ dropped' \subseteq dropped \cup In(mq)
      <4>1. CASE Len(mq) >= MaxRequired
        <5>1. Tail(mq) \in Seq(Samples \cup {End}) /\ Head(mq) \in In(mq) /\ In(Tail(mq)) \subseteq In(mq)
          BY <1>2, <3>2, <4>1, InSteps, SeqFacts
        <5>2. \A q \in Seq(Samples \cup {End}) : In(Append(q, cons)) = In(q) \cup {cons}
          BY <3>1, InSteps
        <5> QED BY <3>1, <3>2, <4>1, <5>1, <5>2 DEF PutIntoQueue
      <4>2. CASE ~(Len(mq) >= MaxRequired)
        BY <1>2, <3>1, <3>2, <4>2, InSteps DEF PutIntoQueue
      <4> QED BY <4>1, <4>2
    <3>4. main' = main /\ TrainerEnded' = TrainerEnded /\ proc' = proc
      BY <2>1 DEF ConsumerPut, TrainerEnded
    <3>5. CASE main = "over"
      BY <3>1, <3>4, <3>5 DEF EndSignal, Drained
    <3>6. CASE main # "over"
      BY <3>1, <3>3, <3>4, <3>6 DEF EndSignal
    <3> QED BY <3>5, <3>6
  <2>2. CASE SendFinish
    <3>1. /\ End \notin In(mq) /\ End \notin dropped /\ ~TrainerEnded
          /\ ~TrainerEnded' /\ main' = "over" /\ PutIntoQueue(End)
      BY <2>2 DEF SendFinish, EndSignal, TrainerEnded
    <3>2. /\ mq' = Append(IF Len(mq) >= MaxRequired THEN Tail(mq) ELSE mq, End)
          /\ Len(mq) >= MaxRequired => mq # <<>>
      BY <1>2, <3>1, PutIntoFacts
    <3>3. CASE Len(mq) >= MaxRequired
      <4>1. /\ Tail(mq) \in Seq(Samples \cup {End}) /\ Head(mq) \in In(mq)
            /\ In(Tail(mq)) \subseteq In(mq)
        BY <1>2, <3>2, <3>3, InSteps, SeqFacts
      <4>2. EndsIn(mq')
        BY <1>2, <3>1, <3>2, <3>3, <4>1, EndsInSteps
      <4> QED BY <3>1, <3>3, <4>1, <4>2 DEF EndSignal, PutIntoQueue, EndsIn
    <3>4. CASE ~(Len(mq) >= MaxRequired)
      <4>1. EndsIn(mq')
        BY <1>2, <3>1, <3>2, <3>4, EndsInSteps
      <4> QED BY <3>1, <3>4, <4>1 DEF EndSignal, PutIntoQueue, EndsIn
    <3> QED BY <3>3, <3>4
  <2>3. CASE StreamingEnds \/ ResultsJoined
    BY <2>3 DEF StreamingEnds, ResultsJoined, EndSignal, TrainerEnded, In
  <2>4. ASSUME ~ConsumerPut, ~SendFinish, ~StreamingEnds, ~ResultsJoined PROVE EndSignal'
    <3>1. UNCHANGED <<main, mq, dropped, trainer>>
      BY <1>5, <2>4 DEF Rollouter, ConsumerTake, ConsumerRaises, MonitorLook,
           MonitorPass, MonitorResume, MonitorTurn,
         Generated, Interrupted, GenerationRaises
    <3> QED BY <1>3, <3>1 DEF TrainerEnded
  <2> QED BY <2>1, <2>2, <2>3, <2>4
<1>6. CASE Synchronizer
  <2>1. UNCHANGED <<main, mq, dropped>>
    BY <1>6 DEF Synchronizer, Pause, PauseDone, SyncWeights, CountLocal, CountQueue, Resume, AskLock
  <2>2. TrainerEnded' = TrainerEnded
    BY <1>6 DEF Synchronizer, Pause, PauseDone, SyncWeights, CountLocal, CountQueue, Resume, AskLock,
       Handover, TrainerEnded
  <2> QED BY <1>3, <2>1, <2>2
<1>7. CASE Trainer
  <2>1. CASE Collect
    <3>1. /\ Head(mq) # End /\ mq # <<>> /\ mq' = Tail(mq) /\ ~TrainerEnded /\ ~TrainerEnded'
          /\ UNCHANGED <<main, dropped, proc>>
      BY <2>1 DEF Collect, TrainerEnded
    <3>2. In(mq') \subseteq In(mq) /\ (EndsIn(mq) => EndsIn(mq'))
      BY <1>2, <3>1, InSteps, EndsInSteps
    <3> QED BY <3>1, <3>2 DEF EndSignal
  <2>2. CASE CollectEnd
    <3>1. /\ Head(mq) = End /\ mq # <<>> /\ mq' = Tail(mq) /\ ~TrainerEnded /\ TrainerEnded'
          /\ UNCHANGED <<main, dropped, proc>>
      BY <2>2 DEF CollectEnd, TrainerEnded
    <3>2. End \in In(mq) /\ (EndsIn(mq) => mq' = <<>>)
      BY <1>2, <3>1, InSteps, EndsInSteps
    <3> QED BY <3>1, <3>2 DEF EndSignal
  <2>3. CASE Train \/ StartSync \/ ReadValidation \/ EndTraining \/ ReadLastValidation
    <3>1. UNCHANGED <<main, mq, dropped>> /\ TrainerEnded' = TrainerEnded
      BY <2>3 DEF Train, StartSync, ReadValidation, EndTraining, ReadLastValidation, TrainerEnded
    <3> QED BY <1>3, <3>1
  <2> QED BY <1>7, <2>1, <2>2, <2>3 DEF Trainer
<1>8. CASE UNCHANGED vars
  BY <1>3, <1>8 DEF vars, TrainerEnded
<1> QED BY <1>4, <1>5, <1>6, <1>7, <1>8 DEF Next, Over

LEMMA EndingAlways == Spec => []Ending
<1>1. Flow /\ Flow' /\ Ending /\ [Next]_vars => Ending'
  BY HandoverStep, DrainedStep, EndSignalStep DEF Ending
<1> QED BY <1>1, EndingInit, FlowAlways, PTL DEF Spec

(* Without partial rollout no sample is left behind: when both sides are done and the       *)
(* rollouter was not stopped by an exception, every sample was trained, dropped by the full *)
(* queue, given up by an exception, or is in the last, incomplete batch.                    *)
THEOREM NoSampleLeftBehind == Spec => []AllSamplesUsed
<1>1. Flow /\ Ending => AllSamplesUsed
  <2> SUFFICES ASSUME Flow, Ending,
                      ~Partial, trainer = "done", main = "over", proc.at = "returned"
               PROVE  Samples = trained \cup batch \cup dropped \cup lost
    BY DEF AllSamplesUsed
  <2>1. /\ hand = Nothing /\ taken = DONE /\ generating = {} /\ result = <<>> /\ cancel = <<>>
        /\ cons = Nothing /\ mq = <<>> /\ End \notin dropped
    BY DEF Flow, HandFits, Ending, Handover, Drained, EndSignal, TrainerEnded
  <2>2. trained \cup batch \cup dropped \cup lost \subseteq Samples
    BY <2>1 DEF Flow, TypedFlow
  <2>3. ASSUME NEW s \in Samples PROVE s \in trained \cup batch \cup dropped \cup lost
    <3>1. s # Nothing /\ s <= taken
      BY <2>1, ConfigFacts DEF Flow, TypedControl, Samples, Nothing, DONE, Total
    <3>2. Occurs(s, <<>>) = 0
      BY OccursEmpty
    <3> QED BY <2>1, <3>1, <3>2 DEF Flow, EverySampleOnce, Is
  <2> QED BY <2>2, <2>3
<1> QED BY <1>1, FlowAlways, EndingAlways, PTL

-----------------------------------------------------------------------------
(* done_tasks: until the processor first took a done task out, it ran without a pause of    *)
(* its own, alone in the event loop, or waits in the first asyncio.wait.                    *)

FirstRun ==
  /\ proc.is = "running"
  /\ proc.at \in {"top", "pause", "drain", "limit", "submit", "finish"}
  /\ lock = <<>> /\ mon = "asleep" /\ main = "run" /\ sync = "idle" /\ trainer = "collect"
  /\ mq = <<>> /\ result = <<>> /\ cancel = <<>> /\ cons = Nothing /\ done = 0
  /\ staleness_samples = taken
  /\ proc.at # "drain" => ~paused
  /\ proc.at = "top" /\ taken > 0 => generating # {}
  /\ proc.at \in {"pause", "drain", "finish"} => generating # {}

Unreaped == ~bound => proc.is = "waiting" \/ FirstRun

Raised == /\ raised => lost # {}
          /\ proc.at = "crashed" => lost # {}

LEMMA UnreapedInit == Init => Unreaped /\ Raised
BY DEF Init, Unreaped, Raised, FirstRun

LEMMA UnreapedStep == Flow /\ Unreaped /\ [Next]_vars => Unreaped'
<1> SUFFICES ASSUME Flow, Unreaped, [Next]_vars, ~bound' PROVE Unreaped'
  BY DEF Unreaped
<1> USE DEF rollVars, flowVars, failVars, procVars, taskVars, queueVars, syncVars, trainVars
<1>0. ~bound
  <2>1. bound' = bound \/ bound' = TRUE
    <3>1. Processor => bound' = bound \/ bound' = TRUE
      BY DEF Processor, PauseSeen, SetPaused, TakeCancelled, Take, Continue, Submit, LoopEnds,
         AwaitTask, TasksGone, Reap, Sleep, Enqueue
    <3>2. Rollouter => bound' = bound
      BY DEF Rollouter, ConsumerTake, ConsumerRaises, ConsumerPut, MonitorLook,
           MonitorPass, MonitorResume, MonitorTurn,
         StreamingEnds, ResultsJoined, SendFinish, Generated, Interrupted, GenerationRaises
    <3>3. Synchronizer => bound' = bound
      BY DEF Synchronizer, Pause, PauseDone, SyncWeights, CountLocal, CountQueue, Resume, AskLock
    <3>4. Trainer \/ UNCHANGED vars => bound' = bound
      BY DEF Trainer, Collect, CollectEnd, Train, StartSync, ReadValidation, EndTraining,
         ReadLastValidation, vars
    <3> QED BY <3>1, <3>2, <3>3, <3>4 DEF Next, Over
  <2> QED BY <2>1
<1>1. /\ IsFiniteSet(generating) /\ Cardinality(generating) \in Nat /\ taken \in Nat
      /\ Total \in Nat \ {0} /\ DONE = Total + 1 /\ MaxRequired \in Nat \ {0}
      /\ cons = Nothing => cons \notin Samples
  <2>1. TypedControl /\ TypedFlow /\ TypedNumbers
    BY DEF Flow
  <2>2. Total \in Nat \ {0} /\ DONE = Total + 1 /\ MaxRequired \in Nat \ {0} /\ Samples = 1 .. Total
    BY <2>1, ConfigFacts, MaxRequiredFacts DEF TypedControl, Total, DONE, MaxRequired, Samples
  <2>3. taken \in Nat /\ (cons = Nothing => cons \notin Samples)
    BY <2>1, <2>2 DEF TypedNumbers, Nothing
  <2>4. IsFiniteSet(generating) /\ Cardinality(generating) \in Nat
    BY <2>1, SamplesFinite DEF TypedFlow
  <2> QED BY <2>2, <2>3, <2>4
<1>2. generating # {} => Cardinality(generating) > 0
  BY <1>1, FS_EmptySet
<1>3. CASE proc.is = "waiting"
  <2>1. proc' = proc
    <3>1. Notified = proc
      BY <1>3 DEF Notified
    <3>2. ~Processor
      BY <1>3 DEF Processor, PauseSeen, SetPaused, TakeCancelled, Take, Continue, Submit, LoopEnds,
         AwaitTask, TasksGone, Reap, Sleep, Enqueue, Enters, At
    <3>3. Rollouter => proc' = proc
      BY <3>1 DEF Rollouter, ConsumerTake, ConsumerRaises, ConsumerPut, MonitorLook,
           MonitorPass, MonitorResume, MonitorTurn,
         StreamingEnds, ResultsJoined, SendFinish, Generated, Interrupted, GenerationRaises
    <3>4. Synchronizer => proc' = proc
      BY <3>1 DEF Synchronizer, Pause, PauseDone, SyncWeights, CountLocal, CountQueue, Resume,
         AskLock
    <3>5. Trainer \/ UNCHANGED vars => proc' = proc
      BY DEF Trainer, Collect, CollectEnd, Train, StartSync, ReadValidation, EndTraining,
         ReadLastValidation, vars
    <3> QED BY <3>2, <3>3, <3>4, <3>5 DEF Next, Over
  <2> QED BY <1>3, <2>1 DEF Unreaped
<1>4. CASE FirstRun
  <2>1. UNCHANGED vars => Unreaped'
    BY <1>4 DEF Unreaped, FirstRun, vars
  <2>2. ~Rollouter
    BY <1>1, <1>4 DEF FirstRun, LoopFree, Rollouter, ConsumerTake, ConsumerRaises, ConsumerPut,
       MonitorLook,
            MonitorPass, MonitorResume, MonitorTurn, StreamingEnds, ResultsJoined, SendFinish, Generated, Interrupted,
       GenerationRaises
  <2>3. ~Synchronizer
    BY <1>4 DEF FirstRun, LoopFree, Synchronizer, InLock, Pause, PauseDone, SyncWeights, CountLocal,
       CountQueue, Resume, AskLock
  <2>4. ~Trainer
    BY <1>4 DEF FirstRun, Trainer, Collect, CollectEnd, Train, StartSync, ReadValidation,
       EndTraining, ReadLastValidation
  <2>5. CASE Processor
    <3> USE DEF At, GoTo, Enters, Unlocked
    <3>1. CASE PauseSeen
      <4>1. taken > 0
        BY <1>1, <1>4, <3>1 DEF PauseSeen, FirstRun, ShouldPause
      <4> QED BY <1>4, <3>1, <4>1 DEF PauseSeen, FirstRun, Unreaped
    <3>2. CASE SetPaused \/ TakeCancelled \/ Continue
      BY <1>4, <3>2 DEF SetPaused, TakeCancelled, Continue, FirstRun, Unreaped
    <3>3. CASE Take
      BY <1>1, <1>4, <3>3 DEF Take, FirstRun, Unreaped
    <3>4. CASE Submit
      BY <1>4, <3>4 DEF Submit, FirstRun, Unreaped
    <3>5. ASSUME NEW site \in ReapSites, LoopEnds(site) PROVE Unreaped'
      <4>1. site = "limit"
        BY <1>1, <1>2, <1>4, <3>5 DEF LoopEnds, FirstRun, Looping, ActiveTasks, ReapSites
      <4> QED BY <1>4, <3>5, <4>1 DEF LoopEnds, After, FirstRun, Unreaped
    <3>6. ASSUME NEW site \in ReapSites, AwaitTask(site) PROVE Unreaped'
      BY <3>6 DEF AwaitTask, Unreaped
    <3>7. ASSUME NEW site \in ReapSites, TasksGone(site) \/ Reap(site) PROVE FALSE
      BY <1>4, <3>7 DEF TasksGone, Reap, FirstRun
    <3>8. ASSUME NEW site \in {"idle", "submit"}, Sleep(site) PROVE FALSE
      BY <1>4, <3>8 DEF Sleep, FirstRun
    <3>9. ASSUME NEW site \in {"pause", "drain", "idle", "limit", "submit", "finish"}, Enqueue(site)
          PROVE  FALSE
      BY <1>4, <3>9 DEF Enqueue, FirstRun
    <3> QED BY <2>5, <3>1, <3>2, <3>3, <3>4, <3>5, <3>6, <3>7, <3>8, <3>9 DEF Processor
  <2> QED BY <2>1, <2>2, <2>3, <2>4, <2>5 DEF Next, Over
<1> QED BY <1>0, <1>3, <1>4 DEF Unreaped

\* The processor ends with an exception only if a task ended with one.
LEMMA RaisedStep == Flow /\ Unreaped /\ Raised /\ [Next]_vars => Raised'
<1> SUFFICES ASSUME Flow, Unreaped, Raised, [Next]_vars PROVE Raised'
  OBVIOUS
<1> USE DEF flowVars, failVars, procVars
<1>1. ASSUME UNCHANGED failVars, proc' \in {proc, Notified} PROVE Raised'
  BY <1>1 DEF Raised, Notified, Flow, TypedControl
<1>2. CASE Processor
  <2>1. ASSUME NEW site \in ReapSites, TasksGone(site) PROVE Raised'
    <3>1. bound
      BY <2>1 DEF TasksGone, Unreaped, FirstRun, Enters, At
    <3> QED BY <2>1, <3>1 DEF TasksGone, GoTo, ReapSites, Raised
  <2>2. ASSUME NEW site \in ReapSites, Reap(site) PROVE Raised'
    BY <2>2 DEF Reap, GoTo, Crashed, ReapSites, Raised
  <2>3. ASSUME \A site \in ReapSites : ~TasksGone(site) /\ ~Reap(site) PROVE Raised'
    <3>1. UNCHANGED failVars /\ proc'.at # "crashed"
      BY <1>2, <2>3 DEF Processor, PauseSeen, SetPaused, TakeCancelled, Take, Continue, Submit,
         LoopEnds, AwaitTask, Sleep, Enqueue, GoTo, At, Enters, After, ReapSites
    <3> QED BY <3>1 DEF Raised
  <2> QED BY <2>1, <2>2, <2>3
<1>3. CASE Rollouter
  BY <1>1, <1>3 DEF Rollouter, ConsumerTake, ConsumerRaises, ConsumerPut, MonitorLook,

          MonitorPass, MonitorResume, MonitorTurn, StreamingEnds, ResultsJoined, SendFinish, Generated, Interrupted,
     GenerationRaises, Raised
<1>4. CASE Synchronizer
  BY <1>1, <1>4 DEF Synchronizer, Pause, PauseDone, SyncWeights, CountLocal, CountQueue, Resume,
     AskLock, Raised
<1>5. CASE Trainer \/ UNCHANGED vars
  BY <1>1, <1>5 DEF Trainer, Collect, CollectEnd, Train, StartSync, ReadValidation, EndTraining,
     ReadLastValidation, vars
<1> QED BY <1>2, <1>3, <1>4, <1>5 DEF Next, Over

LEMMA UnreapedAlways == Spec => [](Unreaped /\ Raised)
<1>1. Flow /\ Unreaped /\ Raised /\ [Next]_vars => (Unreaped /\ Raised)'
  BY UnreapedStep, RaisedStep
<1> QED BY <1>1, UnreapedInit, FlowAlways, PTL DEF Spec

(* The processor never uses done_tasks before a task was taken out: when it is queued for   *)
(* the lock, the one way to find active_tasks empty, the variable is bound.                 *)
THEOREM DoneTasksBound == Spec => [](proc.is \in {"queued", "woken"} => bound)
<1>1. Unreaped => (proc.is \in {"queued", "woken"} => bound)
  BY DEF Unreaped, FirstRun
<1> QED BY <1>1, UnreapedAlways, PTL

-----------------------------------------------------------------------------
(***************************************************************************)
(* With staleness_threshold = 0 the fully asynchronous policy trains every *)
(* batch on the weights that generated it, and the message queue never     *)
(* drops anything: the theorem, for every such configuration.              *)
(*                                                                         *)
(* The argument counts by windows of max_required_samples samples.  Until  *)
(* staleness_samples is reset the rollouter takes one window and stops;    *)
(* the trainer needs all of it before it asks for a synchronization; so    *)
(* the reset finds nothing in flight and opens the next window, and        *)
(* everything generated in a window started with the same weights.         *)
(***************************************************************************)

\* How often staleness_samples was reset, which update_param_version does some time after
\* the weights changed.
Resets == IF sync \in {"update", "count"} THEN weights - 1 ELSE weights

\* The trainer has the whole window, the rollouter does not know it yet.
Synced == sync \in {"update", "count"} \/ trainer \in {"wait", "syncing"}

\* The trainer's counters, for every threshold.
Paced ==
  /\ weights = IF trainer \in {"wait", "syncing"} THEN current_param_version - 1
               ELSE current_param_version
  /\ trainer \in {"wait", "syncing"} => local_trigger_step = 1
  /\ Cardinality(trained) = (current_param_version * Trigger + local_trigger_step - 1) * Required
  /\ trainer = "collect" => Cardinality(batch) < Required
  /\ trainer = "train" => Cardinality(batch) = Required
  /\ trainer \notin {"collect", "train"} => batch = {}

Phases == Paced /\ (sync \in {"update", "count"} => trainer \in {"read", "collect"} /\ weights > 0)

Windows ==
  /\ staleness_samples = taken - Resets * MaxRequired
  /\ staleness_samples <= MaxRequired
  /\ 1 .. Resets * MaxRequired \subseteq trained
  /\ Synced => trained = 1 .. taken /\ taken = Resets * MaxRequired + MaxRequired
  /\ sync \in {"weights", "update", "count"} => done = 0
  /\ sync = "count" => counted = 0

Born ==
  /\ \A s \in Samples : s > taken => born[s] = Unborn
  /\ \A s \in Samples : s > Resets * MaxRequired => born[s] \in {Unborn, Resets}
  /\ \A s \in Samples : s = cons \/ s \in In(result) \/ s \in In(mq) \/ s \in batch
                          => born[s] # Unborn

Fits ==
  /\ dropped = {} /\ Len(mq) <= MaxRequired /\ Occurs(End, mq) <= 1
  /\ TrainerEnded /\ cons \in Samples => Len(mq) < MaxRequired

OnPolicyInv ==
  config.stale = 0 => Fits /\ (~TrainerEnded => Phases /\ Windows /\ Born)

-----------------------------------------------------------------------------

LEMMA Multiples ==
  /\ \A a, b \in Nat : a * b \in Nat /\ (a + 1) * b = a * b + b
  /\ \A r, t, c \in Nat : (c * t + t - 1) * r + r = ((c + 1) * t + 1 - 1) * r
  /\ \A r, t, c \in Nat : ((c + 1) * t + 1 - 1) * r = c * (r * t) + r * t
  /\ \A r, t, c, k \in Nat : (c * t + (k + 1) - 1) * r = (c * t + k - 1) * r + r
OBVIOUS

LEMMA Constants ==
  ASSUME Flow
  PROVE  /\ Total \in Nat \ {0} /\ Required \in Nat \ {0} /\ Trigger \in Nat \ {0}
         /\ MaxRequired \in Nat \ {0} /\ (config.stale = 0 => MaxRequired = Required * Trigger)
         /\ Samples = 1 .. Total /\ DONE = Total + 1 /\ End \notin Samples /\ Nothing \notin Samples
         /\ taken \in 0 .. DONE /\ staleness_samples \in Nat /\ weights \in Nat
         /\ current_param_version \in Nat /\ local_trigger_step \in 1 .. Trigger
         /\ counted \in Nat /\ done \in Nat
         /\ config \in Configs
<1>1. config \in Configs
  BY DEF Flow, TypedControl
<1>2. /\ Total \in Nat \ {0} /\ Required \in Nat \ {0} /\ Trigger \in Nat \ {0}
      /\ MaxRequired \in Nat \ {0} /\ (config.stale = 0 => MaxRequired = Required * Trigger)
  BY <1>1, ConfigFacts, MaxRequiredFacts DEF Total, Required, Trigger, MaxRequired
<1>3. /\ Samples = 1 .. Total /\ DONE = Total + 1 /\ End \notin Samples /\ Nothing \notin Samples
  BY <1>2 DEF Samples, DONE, End, Nothing
<1> QED BY <1>1, <1>2, <1>3 DEF Flow, TypedNumbers

\* A sample in flight is not trained, and is nowhere twice.
LEMMA Untrained ==
  ASSUME Flow, NEW s \in Samples
  PROVE  /\ s \in trained => s <= taken
         /\ (s = hand \/ s \in generating \/ s \in In(result) \/ s \in In(cancel)
             \/ s = cons \/ s \in In(mq) \/ s \in batch \/ s \in lost)
              => s <= taken /\ s \notin trained
         /\ s \in In(mq) => s \notin batch /\ s # cons /\ s \notin lost
         /\ s = cons => s \notin lost
         /\ Occurs(s, mq) <= 1
<1> DEFINE R == Occurs(s, result)
           C == Occurs(s, cancel)
           Q == Occurs(s, mq)
<1>1. R \in Nat /\ C \in Nat /\ Q \in Nat
  BY OccursPlaces DEF Flow, TypedFlow
<1>2. /\ s \in In(result) <=> R > 0
      /\ s \in In(cancel) <=> C > 0
      /\ s \in In(mq) <=> Q > 0
  BY InQueue DEF Flow, TypedFlow
<1>3. Is(s = hand) + Is(s \in generating) + R + C + Is(s = cons) + Q + Is(s \in batch)
        + Is(s \in trained) + Is(s \in dropped) + Is(s \in lost) = Is(s <= taken)
  BY DEF Flow, EverySampleOnce
<1> HIDE DEF R, C, Q
<1>4. s \in trained => s <= taken
  BY <1>1, <1>3 DEF Is
<1>5. /\ s = hand \/ s \in generating \/ R > 0 \/ C > 0 => s <= taken /\ s \notin trained
      /\ s = cons \/ Q > 0 \/ s \in batch \/ s \in lost => s <= taken /\ s \notin trained
  BY <1>1, <1>3 DEF Is
<1>6. /\ Q > 0 => s \notin batch /\ s # cons /\ s \notin lost
      /\ s = cons => s \notin lost
      /\ Q <= 1
  BY <1>1, <1>3 DEF Is
<1>7. (s = hand \/ s \in generating \/ s \in In(result) \/ s \in In(cancel)
       \/ s = cons \/ s \in In(mq) \/ s \in batch \/ s \in lost)
        => s <= taken /\ s \notin trained
  BY <1>2, <1>5
<1>8. s \in In(mq) => s \notin batch /\ s # cons /\ s \notin lost
  BY <1>2, <1>6
<1>9. Occurs(s, mq) <= 1
  BY <1>6 DEF Q
<1> QED BY <1>4, <1>6, <1>7, <1>8, <1>9

\* When everything taken is trained, nothing is in flight.
LEMMA NothingInFlight ==
  ASSUME Flow, trained = 1 .. taken
  PROVE  /\ hand \notin Samples /\ generating = {} /\ result = <<>> /\ cancel = <<>>
         /\ cons \notin Samples /\ batch = {} /\ lost = {} /\ In(mq) \subseteq {End}
<1>1. /\ generating \subseteq Samples /\ batch \subseteq Samples /\ lost \subseteq Samples
      /\ result \in Seq(Samples) /\ cancel \in Seq(Samples) /\ mq \in Seq(Samples \cup {End})
      /\ taken \in Int
  <2>1. DONE \in Int
    BY ConfigFacts DEF Flow, TypedControl, DONE, Total
  <2> QED BY <2>1 DEF Flow, TypedFlow, TypedNumbers
<1>2. Samples \subseteq Int /\ \A s \in Samples : s >= 1
  BY ConfigFacts DEF Flow, TypedControl, Samples, Total
<1>3. ASSUME NEW s \in Samples
      PROVE  /\ s # hand /\ s \notin generating /\ s \notin In(result) /\ s \notin In(cancel)
             /\ s # cons /\ s \notin In(mq) /\ s \notin batch /\ s \notin lost
  <2>1. s <= taken => s \in trained
    BY <1>1, <1>2
  <2>2. (s = hand \/ s \in generating \/ s \in In(result) \/ s \in In(cancel)
         \/ s = cons \/ s \in In(mq) \/ s \in batch \/ s \in lost)
          => s <= taken /\ s \notin trained
    BY Untrained
  <2> QED BY <2>1, <2>2
<1>4. In(result) \subseteq Samples /\ In(cancel) \subseteq Samples /\ In(mq) \subseteq Samples \cup {End}
  BY <1>1, InSteps
<1>5. In(result) = {} /\ In(cancel) = {}
  BY <1>3, <1>4
<1>6. result = <<>> /\ cancel = <<>>
  <2>1. \A q \in Seq(Samples) : q # <<>> => In(q) # {}
    BY InSteps
  <2> QED BY <1>1, <1>5, <2>1
<1> QED BY <1>1, <1>3, <1>4, <1>6

-----------------------------------------------------------------------------
(* The message queue has room for what is put into it. *)

LEMMA PairSize ==
  ASSUME NEW i, NEW j, i # j
  PROVE  Cardinality({i} \cup {j}) = 2
<1>1. IsFiniteSet({i}) /\ Cardinality({i}) = 1
  BY FS_Singleton
<1>2. Cardinality({i} \cup {j}) = Cardinality({i}) + 1
  BY <1>1, FS_AddElement
<1> QED BY <1>1, <1>2

LEMMA OncePlaced ==
  ASSUME NEW S, NEW q \in Seq(S), NEW s, Occurs(s, q) <= 1,
         NEW i \in 1 .. Len(q), NEW j \in 1 .. Len(q), q[i] = s, q[j] = s
  PROVE  i = j
<1> SUFFICES ASSUME i # j PROVE FALSE
  OBVIOUS
<1> DEFINE P == Places(s, q)
           T == {i} \cup {j}
<1>1. Occurs(s, q) = Cardinality(P) /\ IsFiniteSet(P) /\ Occurs(s, q) \in Nat
  BY OccursPlaces
<1>2. T \in SUBSET P
  BY DEF Places
<1>3. Cardinality(T) = 2
  BY PairSize
<1> HIDE DEF P, T
<1>4. Cardinality(T) <= Cardinality(P)
  BY <1>1, <1>2, FS_Subset
<1> QED BY <1>1, <1>3, <1>4

\* The elements of q lie in W, each once, except for End, which z can stand for; x is
\* in W and not in q.
LEMMA Room ==
  ASSUME NEW S, NEW q \in Seq(S), NEW W, IsFiniteSet(W), NEW x \in W, NEW z,
         \A s \in S : Occurs(s, q) <= 1,
         In(q) \ {End} \subseteq W \ {x},
         End \in In(q) => z \in W /\ z # x /\ z \notin In(q)
  PROVE  Len(q) < Cardinality(W)
<1> SUFFICES ASSUME ~(Len(q) < Cardinality(W)) PROVE FALSE
  OBVIOUS
<1> DEFINE f == [i \in 1 .. Len(q) |-> IF q[i] = End THEN z ELSE q[i]]
<1>1. Len(q) \in Nat /\ IsFiniteSet(1 .. Len(q)) /\ Cardinality(1 .. Len(q)) = Len(q)
  <2>1. Len(q) \in Nat
    OBVIOUS
  <2>2. \A n \in Nat : IsFiniteSet(1 .. n) /\ Cardinality(1 .. n) = n
    BY FS_Interval
  <2> QED BY <2>1, <2>2
<1>2. /\ Cardinality(W) \in Nat /\ IsFiniteSet(W \ {x})
      /\ Cardinality(W \ {x}) = Cardinality(W) - 1
  BY FS_RemoveElement, FS_CardinalityType
<1>3. f \in [1 .. Len(q) -> W \ {x}]
  BY DEF In
<1>4. Cardinality(W \ {x}) < Cardinality(1 .. Len(q))
  BY <1>1, <1>2
<1> HIDE DEF f
<1>5. PICK i, j \in 1 .. Len(q) : i # j /\ f[i] = f[j]
  BY <1>1, <1>2, <1>3, <1>4, FS_PigeonHole
<1>6. q[i] = q[j] /\ q[i] \in S
  <2>1. q[i] \in S /\ q[j] \in S /\ q[i] \in In(q) /\ q[j] \in In(q)
    BY DEF In
  <2> QED BY <1>5, <2>1 DEF f
<1> QED BY <1>5, <1>6, OncePlaced

LEMMA Span ==
  ASSUME NEW w \in Nat, NEW m \in Nat \ {0}
  PROVE  IsFiniteSet(w + 1 .. w + m) /\ Cardinality(w + 1 .. w + m) = m
<1> DEFINE a == w + 1
           b == w + m
<1>1. a \in Int /\ b \in Int /\ ~(a > b) /\ b - a + 1 = m
  OBVIOUS
<1> HIDE DEF a, b
<1>2. IsFiniteSet(a .. b) /\ Cardinality(a .. b) = m
  BY <1>1, FS_Interval
<1> QED BY <1>2 DEF a, b

\* The samples not trained yet are the window that is open.
LEMMA Window ==
  ASSUME Flow, config.stale = 0, Phases, Windows
  PROVE  /\ Resets \in Nat /\ Resets * MaxRequired \in Nat
         /\ taken <= Resets * MaxRequired + MaxRequired
         /\ Resets * MaxRequired <= Total
         /\ \A s \in Samples : s <= taken /\ s \notin trained =>
              s \in Resets * MaxRequired + 1 .. Resets * MaxRequired + MaxRequired
         /\ IsFiniteSet(Resets * MaxRequired + 1 .. Resets * MaxRequired + MaxRequired)
         /\ Cardinality(Resets * MaxRequired + 1 .. Resets * MaxRequired + MaxRequired) = MaxRequired
<1>1. /\ weights \in Nat /\ Total \in Nat \ {0} /\ MaxRequired \in Nat \ {0} /\ Samples = 1 .. Total
      /\ taken \in Nat /\ DONE = Total + 1
  BY Constants
<1>2. Resets \in Nat
  BY <1>1 DEF Resets, Phases, Paced
<1> DEFINE w == Resets * MaxRequired
<1>3. w \in Nat
  BY <1>1, <1>2, Multiples
<1>4. taken <= w + MaxRequired
  <2>1. staleness_samples = taken - w /\ staleness_samples <= MaxRequired
    BY DEF Windows
  <2> HIDE DEF w
  <2> QED BY <1>1, <1>3, <2>1
<1>5. 1 .. w \subseteq trained /\ trained \subseteq Samples
  BY DEF Windows, Flow, TypedFlow
<1> HIDE DEF w
<1>6. w <= Total
  <2>1. w # 0 => w \in 1 .. w
    BY <1>3
  <2> QED BY <1>1, <1>3, <1>5, <2>1
<1>7. ASSUME NEW s \in Samples, s <= taken, s \notin trained PROVE s \in w + 1 .. w + MaxRequired
  BY <1>1, <1>3, <1>4, <1>5, <1>7
<1>8. /\ IsFiniteSet(w + 1 .. w + MaxRequired)
      /\ Cardinality(w + 1 .. w + MaxRequired) = MaxRequired
  BY <1>1, <1>3, Span
<1> QED BY <1>2, <1>3, <1>4, <1>6, <1>7, <1>8 DEF w

\* A sample to be put, or the end signal, finds room.
LEMMA RoomToPut ==
  ASSUME Flow, Ending, Raised, config.stale = 0, Fits, ~TrainerEnded => Phases /\ Windows
  PROVE  cons \in Samples \/ main = "finish" => Len(mq) < MaxRequired
<1> SUFFICES ASSUME cons \in Samples \/ main = "finish", ~TrainerEnded
             PROVE  Len(mq) < MaxRequired
  BY DEF Fits, Ending, EndSignal
<1> DEFINE W == Resets * MaxRequired + 1 .. Resets * MaxRequired + MaxRequired
<1>1. mq \in Seq(Samples \cup {End}) /\ lost \subseteq Samples /\ End \notin Samples
  BY Constants DEF Flow, TypedFlow
<1>2. In(mq) \subseteq Samples \cup {End} /\ \A s \in Samples \cup {End} : Occurs(s, mq) <= 1
  BY <1>1, InSteps, Untrained DEF Fits
<1>3. /\ IsFiniteSet(W) /\ Cardinality(W) = MaxRequired
      /\ \A s \in Samples : s <= taken /\ s \notin trained => s \in W
  BY Window
<1>4. ASSUME NEW s \in Samples, s \in In(mq) \/ s = cons \/ s \in lost PROVE s \in W
  BY <1>3, <1>4, Untrained
<1>5. In(mq) \ {End} \subseteq W
  BY <1>2, <1>4
<1>6. lost \cap In(mq) = {} /\ cons \notin lost
  BY <1>1, Untrained
<1> HIDE DEF W
<1>7. ASSUME NEW x \in W, x \notin In(mq), End \notin In(mq) PROVE Len(mq) < MaxRequired
  <2>1. In(mq) \ {End} \subseteq W \ {x}
    BY <1>5, <1>7
  <2> QED BY <1>1, <1>2, <1>3, <1>7, <2>1, Room
<1>8. CASE main = "finish" /\ proc.at = "returned"
  <2>1. End \notin In(mq) /\ taken = DONE
    BY <1>8 DEF Ending, EndSignal, Flow, HandFits
  <2>2. DONE \in W /\ DONE \notin In(mq)
    <3>1. /\ Resets * MaxRequired \in Nat /\ taken <= Resets * MaxRequired + MaxRequired
          /\ Resets * MaxRequired <= Total
      BY Window
    <3>2. Total \in Nat /\ DONE = Total + 1 /\ DONE \notin Samples \cup {End} /\ MaxRequired \in Nat
      BY Constants DEF End
    <3> DEFINE w == Resets * MaxRequired
    <3> HIDE DEF w
    <3>3. DONE \in w + 1 .. w + MaxRequired
      BY <2>1, <3>1, <3>2 DEF w
    <3> QED BY <1>2, <3>2, <3>3 DEF w, W
  <2> QED BY <1>7, <2>1, <2>2
<1>9. CASE main = "finish" /\ proc.at = "crashed"
  <2>1. End \notin In(mq)
    BY <1>9 DEF Ending, EndSignal
  <2>2. PICK z \in lost : TRUE
    BY <1>9 DEF Raised
  <2>3. z \in W /\ z \notin In(mq)
    BY <1>1, <1>4, <1>6, <2>2
  <2> QED BY <1>7, <2>1, <2>3
<1>10. CASE cons \in Samples
  <2>1. cons \in W /\ cons \notin In(mq)
    BY <1>4, <1>10, Untrained
  <2>2. In(mq) \ {End} \subseteq W \ {cons}
    BY <1>5, <2>1
  <2>3. CASE End \notin In(mq)
    BY <1>7, <2>1, <2>3
  <2>4. CASE End \in In(mq)
    <3>1. main = "over" /\ proc.at = "crashed"
      BY <1>10, <2>4, Constants DEF Ending, EndSignal, Drained, Flow, HandFits, TypedControl
    <3>2. PICK z \in lost : TRUE
      BY <3>1 DEF Raised
    <3>3. z \in W /\ z # cons /\ z \notin In(mq)
      BY <1>1, <1>4, <1>6, <3>2
    <3> QED BY <1>1, <1>2, <1>3, <2>1, <2>2, <3>3, Room
  <2> QED BY <2>3, <2>4
<1>11. main = "finish" => proc.at \in {"returned", "crashed"}
  BY DEF Ending, Drained, Flow, HandFits
<1> QED BY <1>8, <1>9, <1>10, <1>11

LEMMA FitsStep ==
  ASSUME Flow, Ending, Raised, config.stale = 0, Fits, ~TrainerEnded => Phases /\ Windows,
         [Next]_vars
  PROVE  Fits'
<1> USE DEF rollVars, flowVars, failVars, procVars, taskVars, queueVars, syncVars, trainVars
<1>1. /\ config' = config /\ MaxRequired' = MaxRequired /\ Samples' = Samples
      /\ MaxRequired \in Nat \ {0} /\ End \notin Samples
      /\ Nothing \notin Samples /\ Dead \notin Samples
      /\ mq \in Seq(Samples \cup {End}) /\ Len(mq) \in Nat
  <2>1. config' = config /\ MaxRequired' = MaxRequired /\ Samples' = Samples
    BY ConfigKept, SameConfig
  <2>2. MaxRequired \in Nat \ {0} /\ End \notin Samples /\ Nothing \notin Samples
    BY Constants
  <2>3. Dead \notin Samples
    BY Constants DEF Dead
  <2>4. mq \in Seq(Samples \cup {End})
    BY DEF Flow, TypedFlow
  <2>5. Len(mq) \in Nat
    BY <2>4
  <2> QED BY <2>1, <2>2, <2>3, <2>4, <2>5
<1>2. /\ Occurs(End, mq) \in Nat
      /\ \A x \in Samples \cup {End} : Occurs(End, Append(mq, x)) = Occurs(End, mq) + Is(End = x)
      /\ \A x \in Samples \cup {End} : Len(Append(mq, x)) = Len(mq) + 1
      /\ mq # <<>> => Occurs(End, mq) = Occurs(End, Tail(mq)) + Is(End = Head(mq))
      /\ mq # <<>> => Len(Tail(mq)) = Len(mq) - 1 /\ Occurs(End, Tail(mq)) \in Nat
  <2>1. Occurs(End, mq) \in Nat
    BY <1>1, OccursPlaces
  <2>2. \A x \in Samples \cup {End} : Occurs(End, Append(mq, x)) = Occurs(End, mq) + Is(End = x)
    BY <1>1, OccursAppend
  <2>3. mq # <<>> => Occurs(End, mq) = Occurs(End, Tail(mq)) + Is(End = Head(mq))
    BY <1>1, OccursTail
  <2>4. /\ \A x \in Samples \cup {End} : Len(Append(mq, x)) = Len(mq) + 1
        /\ mq # <<>> => Len(Tail(mq)) = Len(mq) - 1 /\ Tail(mq) \in Seq(Samples \cup {End})
    BY <1>1, SeqFacts
  <2>5. mq # <<>> => Occurs(End, Tail(mq)) \in Nat
    BY <2>4, OccursPlaces
  <2> QED BY <2>1, <2>2, <2>3, <2>4, <2>5
<1>3. ASSUME UNCHANGED queueVars, trainer' = trainer \/ ~TrainerEnded',
             cons' = cons \/ cons' \notin Samples \/ ~TrainerEnded'
      PROVE  Fits'
  BY <1>1, <1>3 DEF Fits, TrainerEnded, Occurs
<1>4. CASE ConsumerPut
  <2>1. Len(mq) < MaxRequired /\ cons \in Samples
    BY <1>4, RoomToPut DEF ConsumerPut
  <2>2. mq' = Append(mq, cons) /\ dropped' = dropped /\ cons' = Nothing
    BY <1>1, <1>4, <2>1 DEF ConsumerPut, PutIntoQueue, Queue!PutInto
  <2>3. Occurs(End, mq') = Occurs(End, mq) /\ Len(mq') = Len(mq) + 1
    BY <1>1, <1>2, <2>1, <2>2 DEF Is
  <2>4. Occurs(End, mq)' = Occurs(End, mq')
    BY Zenon DEF Occurs
  <2> QED BY <1>1, <2>1, <2>2, <2>3, <2>4 DEF Fits
<1>5. CASE SendFinish
  <2>1. Len(mq) < MaxRequired /\ ~TrainerEnded /\ End \notin In(mq)
    BY <1>5, RoomToPut DEF SendFinish, Ending, EndSignal
  <2>2. mq' = Append(mq, End) /\ dropped' = dropped /\ ~TrainerEnded'
    BY <1>1, <1>5, <2>1 DEF SendFinish, PutIntoQueue, Queue!PutInto, TrainerEnded
  <2>3. Occurs(End, mq) = 0
    <3>1. \A s : Occurs(s, mq) > 0 <=> s \in In(mq)
      BY <1>1, InQueue
    <3> QED BY <1>2, <2>1, <3>1
  <2>4. Occurs(End, mq') = 1 /\ Len(mq') = Len(mq) + 1
    BY <1>2, <2>2, <2>3 DEF Is
  <2>5. Occurs(End, mq)' = Occurs(End, mq')
    BY Zenon DEF Occurs
  <2> QED BY <1>1, <2>1, <2>2, <2>4, <2>5 DEF Fits
<1>6. CASE Collect \/ CollectEnd
  <2>1. mq # <<>> /\ mq' = Tail(mq) /\ dropped' = dropped
    BY <1>6 DEF Collect, CollectEnd
  <2>2. Occurs(End, mq') <= Occurs(End, mq) /\ Len(mq') = Len(mq) - 1 /\ Occurs(End, mq') \in Nat
    BY <1>2, <2>1 DEF Is
  <2>3. Occurs(End, mq)' = Occurs(End, mq')
    BY Zenon DEF Occurs
  <2> QED BY <1>1, <1>2, <2>1, <2>2, <2>3 DEF Fits
<1>7. CASE Processor
  BY <1>3, <1>7 DEF Processor, PauseSeen, SetPaused, TakeCancelled, Take, Continue, Submit, LoopEnds,
     AwaitTask, TasksGone, Reap, Sleep, Enqueue
<1>8. CASE Rollouter
  <2>1. CASE ConsumerTake
    <3>1. ~TrainerEnded'
      BY <2>1 DEF ConsumerTake, Ending, EndSignal, TrainerEnded
    <3> QED BY <1>3, <2>1, <3>1 DEF ConsumerTake
  <2> QED BY <1>1, <1>3, <1>4, <1>5, <1>8, <2>1 DEF Rollouter, ConsumerRaises, MonitorLook,

               MonitorPass, MonitorResume, MonitorTurn, StreamingEnds, ResultsJoined, Generated, Interrupted, GenerationRaises
<1>9. CASE Synchronizer
  <2>1. CASE SyncWeights
    <3>1. TrainerEnded' => TrainerEnded
      BY <2>1 DEF SyncWeights, Ending, Handover, TrainerEnded
    <3> QED BY <1>1, <2>1, <3>1 DEF SyncWeights, Fits, Occurs
  <2> QED BY <1>3, <1>9, <2>1 DEF Synchronizer, Pause, PauseDone, CountLocal, CountQueue, Resume,
          AskLock
<1>10. CASE Trainer
  <2>1. CASE Train \/ StartSync \/ ReadValidation \/ EndTraining \/ ReadLastValidation
    <3>1. TrainerEnded' => TrainerEnded
      BY <2>1 DEF Train, StartSync, ReadValidation, EndTraining, ReadLastValidation, TrainerEnded
    <3>2. UNCHANGED <<mq, dropped, cons>>
      BY <2>1 DEF Train, StartSync, ReadValidation, EndTraining, ReadLastValidation
    <3> QED BY <1>1, <3>1, <3>2 DEF Fits, Occurs
  <2> QED BY <1>6, <1>10, <2>1 DEF Trainer
<1>11. CASE UNCHANGED vars
  BY <1>3, <1>11 DEF vars
<1> QED BY <1>7, <1>8, <1>9, <1>10, <1>11 DEF Next, Over

-----------------------------------------------------------------------------
(* The trainer's phases, as long as it has not met the end of the data. *)

LEMMA EndedForGood == Ending /\ TrainerEnded /\ [Next]_vars => TrainerEnded'
<1> SUFFICES ASSUME Ending, TrainerEnded, [Next]_vars PROVE TrainerEnded'
  OBVIOUS
<1> USE DEF syncVars, trainVars, TrainerEnded
<1>1. CASE SyncWeights
  BY <1>1 DEF SyncWeights, Ending, Handover
<1>2. CASE Trainer
  BY <1>2 DEF Trainer, Collect, CollectEnd, Train, StartSync, ReadValidation, EndTraining,
     ReadLastValidation
<1>3. CASE Processor
  BY <1>3 DEF Processor, PauseSeen, SetPaused, TakeCancelled, Take, Continue, Submit, LoopEnds,
     AwaitTask, TasksGone, Reap, Sleep, Enqueue
<1>4. CASE Rollouter
  BY <1>4 DEF Rollouter, ConsumerTake, ConsumerRaises, ConsumerPut, MonitorLook,
       MonitorPass, MonitorResume, MonitorTurn,
     StreamingEnds, ResultsJoined, SendFinish, Generated, Interrupted, GenerationRaises
<1>5. CASE Synchronizer
  BY <1>1, <1>5 DEF Synchronizer, Pause, PauseDone, CountLocal, CountQueue, Resume, AskLock
<1> QED BY <1>2, <1>3, <1>4, <1>5 DEF Next, Over, vars

phaseVars == <<config, weights, sync, trainer, batch, trained,
               current_param_version, local_trigger_step>>

LEMMA PacedStep ==
  ASSUME Flow, Ending, Paced, ~TrainerEnded, ~TrainerEnded',
         [Next]_vars
  PROVE  Paced'
<1> USE DEF rollVars, flowVars, failVars, procVars, taskVars, queueVars, syncVars, trainVars
<1>1. /\ config' = config /\ Trigger' = Trigger /\ Required' = Required
      /\ Trigger \in Nat \ {0} /\ Required \in Nat \ {0}
      /\ weights \in Nat /\ current_param_version \in Nat /\ local_trigger_step \in 1 .. Trigger
  BY Constants, ConfigKept, SameConfig
<1>2. ASSUME UNCHANGED phaseVars PROVE Paced'
  BY <1>1, <1>2 DEF phaseVars, Paced
<1>3. CASE Processor
  BY <1>1, <1>2, <1>3 DEF Processor, PauseSeen, SetPaused, TakeCancelled, Take, Continue, Submit,
     LoopEnds, AwaitTask, TasksGone, Reap, Sleep, Enqueue, phaseVars
<1>4. CASE Rollouter
  BY <1>1, <1>2, <1>4 DEF Rollouter, ConsumerTake, ConsumerRaises, ConsumerPut, MonitorLook,

          MonitorPass, MonitorResume, MonitorTurn, StreamingEnds, ResultsJoined, SendFinish, Generated, Interrupted,
     GenerationRaises, phaseVars
<1>5. CASE Synchronizer
  <2>1. CASE SyncWeights
    <3>1. trainer = "syncing"
      BY <2>1 DEF SyncWeights, Ending, Handover, TrainerEnded
    <3> QED BY <1>1, <2>1, <3>1 DEF SyncWeights, Paced
  <2>2. ASSUME ~SyncWeights PROVE Paced'
    <3>1. UNCHANGED <<config, weights, trainer, batch, trained, current_param_version,
                      local_trigger_step>>
      BY <1>1, <1>5, <2>2 DEF Synchronizer, Pause, PauseDone, CountLocal, CountQueue, Resume, AskLock
    <3> QED BY <1>1, <3>1 DEF Paced
  <2> QED BY <2>1, <2>2
<1>6. CASE Collect
  <2>1. /\ mq \in Seq(Samples \cup {End}) /\ IsFiniteSet(batch) /\ Cardinality(batch) \in Nat
        /\ Head(mq) \in Samples \cap In(mq)
    <3>1. mq \in Seq(Samples \cup {End}) /\ mq # <<>> /\ Head(mq) # End
      BY <1>6 DEF Collect, Flow, TypedFlow
    <3>2. Head(mq) \in In(mq) /\ In(mq) \subseteq Samples \cup {End}
      BY <3>1, InSteps
    <3> QED BY <3>1, <3>2, SamplesFinite DEF Flow, TypedFlow
  <2>2. Head(mq) \notin batch
    BY <2>1, Untrained
  <2>3. Cardinality(batch \cup {Head(mq)}) = Cardinality(batch) + 1
    BY <2>1, <2>2, FS_AddElement
  <2> QED BY <1>1, <1>6, <2>1, <2>3 DEF Collect, Paced
<1>7. CASE Train
  <2>1. /\ IsFiniteSet(batch) /\ IsFiniteSet(trained) /\ batch \cap trained = {}
        /\ Cardinality(trained) \in Nat
    BY SamplesFinite, Untrained DEF Flow, TypedFlow
  <2>2. Cardinality(trained') = Cardinality(trained) + Required
    <3>1. Cardinality(trained \cup batch)
            = Cardinality(trained) + Cardinality(batch) - Cardinality(batch \cap trained)
      BY <2>1, FS_Union
    <3>2. Cardinality(batch \cap trained) = 0 /\ Cardinality(batch) = Required
      BY <1>7, <2>1, FS_EmptySet DEF Train, Paced
    <3> QED BY <1>1, <1>7, <2>1, <3>1, <3>2 DEF Train
  <2>3. Cardinality(trained')
          = (current_param_version' * Trigger + local_trigger_step' - 1) * Required
    <3> DEFINE c == current_param_version
               k == local_trigger_step
    <3>1. Cardinality(trained) = (c * Trigger + k - 1) * Required
      BY DEF Paced
    <3>2. (c * Trigger + (k + 1) - 1) * Required = (c * Trigger + k - 1) * Required + Required
      BY <1>1, Multiples
    <3>3. (c * Trigger + Trigger - 1) * Required + Required = ((c + 1) * Trigger + 1 - 1) * Required
      BY <1>1, Multiples
    <3>4. CASE k < Trigger
      <4>1. local_trigger_step' = k + 1 /\ current_param_version' = c
        BY <1>7, <3>4 DEF Train
      <4>2. (current_param_version' * Trigger + local_trigger_step' - 1) * Required
              = (c * Trigger + k - 1) * Required + Required
        BY <3>2, <4>1
      <4> QED BY <2>2, <3>1, <4>2
    <3>5. CASE ~(k < Trigger)
      <4>1. local_trigger_step' = 1 /\ current_param_version' = c + 1 /\ k = Trigger
        BY <1>1, <1>7, <3>5 DEF Train
      <4>2. (current_param_version' * Trigger + local_trigger_step' - 1) * Required
              = (c * Trigger + Trigger - 1) * Required + Required
        BY <3>3, <4>1
      <4> QED BY <2>2, <3>1, <4>1, <4>2
    <3> QED BY <3>4, <3>5
  <2> QED BY <1>1, <1>7, <2>3 DEF Train, Paced
<1>8. CASE StartSync \/ ReadValidation
  <2>1. Cardinality({}) = 0
    BY FS_EmptySet
  <2>2. /\ UNCHANGED <<weights, current_param_version, local_trigger_step, trained, batch>>
        /\ batch = {}
    BY <1>8 DEF StartSync, ReadValidation, Paced
  <2>3. Cardinality(trained')
          = (current_param_version' * Trigger' + local_trigger_step' - 1) * Required'
    BY <1>1, <2>2 DEF Paced
  <2>4. CASE StartSync
    BY <1>1, <2>1, <2>2, <2>3, <2>4 DEF StartSync, Paced, TrainerEnded
  <2>5. CASE ReadValidation
    BY <1>1, <2>1, <2>2, <2>3, <2>5 DEF ReadValidation, Paced, TrainerEnded
  <2> QED BY <1>8, <2>4, <2>5
<1>9. CASE CollectEnd \/ EndTraining \/ ReadLastValidation
  BY <1>9 DEF CollectEnd, EndTraining, ReadLastValidation, TrainerEnded
<1>10. CASE UNCHANGED vars
  BY <1>2, <1>10 DEF vars, phaseVars
<1> QED BY <1>3, <1>4, <1>5, <1>6, <1>7, <1>8, <1>9, <1>10 DEF Next, Over, Trainer

LEMMA PhasesStep ==
  ASSUME Flow, Ending, config.stale = 0, Phases, Windows, ~TrainerEnded, ~TrainerEnded',
         [Next]_vars
  PROVE  Phases'
<1> USE DEF rollVars, flowVars, failVars, procVars, taskVars, queueVars, syncVars, trainVars
<1>1. Paced'
  BY PacedStep DEF Phases
<1>2. weights \in Nat /\ current_param_version \in Nat
  BY Constants
<1>3. ASSUME sync' \in {"update", "count"} PROVE trainer' \in {"read", "collect"} /\ weights' > 0
  <2>1. ASSUME UNCHANGED <<sync, trainer, weights>>
        PROVE  trainer' \in {"read", "collect"} /\ weights' > 0
    BY <1>3, <2>1 DEF Phases
  <2>2. CASE Processor
    BY <2>1, <2>2 DEF Processor, PauseSeen, SetPaused, TakeCancelled, Take, Continue, Submit,
       LoopEnds, AwaitTask, TasksGone, Reap, Sleep, Enqueue
  <2>3. CASE Rollouter
    BY <2>1, <2>3 DEF Rollouter, ConsumerTake, ConsumerRaises, ConsumerPut, MonitorLook,

            MonitorPass, MonitorResume, MonitorTurn, StreamingEnds, ResultsJoined, SendFinish, Generated, Interrupted,
       GenerationRaises
  <2>4. CASE SyncWeights
    <3>1. trainer = "syncing"
      BY <2>4 DEF SyncWeights, Ending, Handover, TrainerEnded
    <3> QED BY <1>2, <2>4, <3>1 DEF SyncWeights, Phases, Paced
  <2>5. ASSUME Synchronizer, ~SyncWeights PROVE trainer' \in {"read", "collect"} /\ weights' > 0
    <3>1. UNCHANGED <<trainer, weights>> /\ sync \in {"update", "count"}
      BY <1>3, <2>5 DEF Synchronizer, Pause, PauseDone, CountLocal, CountQueue, Resume, AskLock,
         InLock
    <3> QED BY <3>1 DEF Phases
  <2>6. CASE Collect
    <3>1. mq \in Seq(Samples \cup {End}) /\ mq # <<>> /\ Head(mq) # End
      BY <2>6 DEF Collect, Flow, TypedFlow
    <3>2. ~(In(mq) \subseteq {End})
      BY <3>1, InSteps
    <3>3. ~Synced
      BY <3>2, NothingInFlight DEF Windows
    <3> QED BY <1>3, <2>6, <3>3 DEF Collect, Synced
  <2>7. CASE Train \/ StartSync \/ ReadValidation
    BY <1>3, <2>7 DEF Train, StartSync, ReadValidation, Phases
  <2>8. CASE CollectEnd \/ EndTraining \/ ReadLastValidation
    BY <2>8 DEF CollectEnd, EndTraining, ReadLastValidation, TrainerEnded
  <2>9. CASE UNCHANGED vars
    BY <2>1, <2>9 DEF vars
  <2> QED BY <2>2, <2>3, <2>4, <2>5, <2>6, <2>7, <2>8, <2>9 DEF Next, Over, Trainer
<1> QED BY <1>1, <1>3 DEF Phases

-----------------------------------------------------------------------------
(* The windows, and the weights the samples of a window were born with.    *)

windowVars == <<config, staleness_samples, taken, weights, sync, trainer, trained, done, counted>>

LEMMA WindowsStep ==
  ASSUME Flow, Flow', Ending, Raised, config.stale = 0, Phases, Phases', Windows,
         ~TrainerEnded, [Next]_vars
  PROVE  Windows'
<1> USE DEF rollVars, flowVars, failVars, procVars, taskVars, queueVars, syncVars, trainVars
<1>1. config' = config /\ MaxRequired' = MaxRequired /\ Total' = Total
  BY ConfigKept, SameConfig
<1>2. /\ taken \in Nat /\ staleness_samples \in Nat /\ weights \in Nat /\ done \in Nat
      /\ MaxRequired \in Nat \ {0} /\ Resets * MaxRequired \in Nat
      /\ taken <= Resets * MaxRequired + MaxRequired
      /\ DONE = Total + 1 /\ Total \in Nat \ {0} /\ Samples = 1 .. Total
  BY Constants, Window
<1> DEFINE w == Resets * MaxRequired
<1>3. ASSUME UNCHANGED windowVars PROVE Windows'
  BY <1>1, <1>3 DEF windowVars, Windows, Resets, Synced
\* From the end of the trainer's window to the reset, nothing is in flight.
<1>4. ASSUME Synced
      PROVE  /\ hand \notin Samples /\ generating = {} /\ result = <<>> /\ cancel = <<>>
             /\ lost = {} /\ In(mq) \subseteq {End} /\ staleness_samples = MaxRequired
  <2>1. trained = 1 .. taken /\ taken = w + MaxRequired /\ staleness_samples = taken - w
    BY <1>4 DEF Windows
  <2> HIDE DEF w
  <2>2. staleness_samples = MaxRequired
    BY <1>2, <2>1 DEF w
  <2> QED BY <2>1, <2>2, NothingInFlight
<1>5. sync = "weights" => Synced
  BY DEF Ending, Handover, Synced, TrainerEnded
<1>6. ASSUME UNCHANGED <<staleness_samples, taken, trained, counted, done>>, Resets' = Resets,
             Synced' => Synced,
             sync' = "weights" => sync = "weights" \/ done' = 0,
             sync' \in {"update", "count"} => sync \in {"weights", "update", "count"},
             sync' = "count" => sync = "count" \/ counted' = 0
      PROVE  Windows'
  BY <1>1, <1>6 DEF Windows
<1>7. CASE Processor
  <2>1. CASE Take
    <3>1. ~Synced
      <4>1. staleness_samples < MaxRequired
        BY <1>2, <2>1 DEF Take, ShouldPause
      <4> QED BY <1>2, <1>4, <4>1
    <3>2. /\ UNCHANGED <<weights, sync, trainer, trained, done, counted>>
          /\ staleness_samples' = staleness_samples + 1 /\ taken' = taken + 1
      BY <2>1 DEF Take
    <3>3. staleness_samples < MaxRequired
      BY <1>2, <2>1 DEF Take, ShouldPause
    <3>4. Resets' = Resets /\ ~Synced'
      BY <3>1, <3>2 DEF Resets, Synced
    <3>5. staleness_samples = taken - w
      BY DEF Windows
    <3> HIDE DEF w
    <3>6. staleness_samples' = taken' - w /\ staleness_samples' <= MaxRequired
      BY <1>2, <3>2, <3>3, <3>5 DEF w
    <3> QED BY <1>1, <3>2, <3>4, <3>6 DEF Windows, w
  <2>2. ASSUME NEW site \in ReapSites, Reap(site) PROVE Windows'
    BY <1>1, <2>2 DEF Reap, Windows, Resets, Synced
  <2> QED BY <1>1, <1>3, <1>7, <2>1, <2>2 DEF Processor, PauseSeen, SetPaused, TakeCancelled,
          Continue, Submit, LoopEnds, AwaitTask, TasksGone, Sleep, Enqueue, windowVars
<1>8. CASE Rollouter
  <2>1. ASSUME NEW s \in generating, Generated(s) \/ Interrupted(s) \/ GenerationRaises(s)
        PROVE  Windows'
    <3>1. ~Synced /\ sync \notin {"weights", "update", "count"}
      BY <1>4, <1>5 DEF Synced
    <3> QED BY <1>1, <2>1, <3>1 DEF Generated, Interrupted, GenerationRaises, Windows, Resets, Synced
  <2> QED BY <1>1, <1>3, <1>8, <2>1 DEF Rollouter, ConsumerTake, ConsumerRaises, ConsumerPut,
          MonitorLook,
               MonitorPass, MonitorResume, MonitorTurn, StreamingEnds, ResultsJoined, SendFinish, windowVars
<1>9. CASE Synchronizer
  <2>1. CASE SyncWeights
    <3>1. trainer = "syncing" /\ Synced
      BY <2>1 DEF SyncWeights, Ending, Handover, TrainerEnded, Synced
    <3>2. weights' - 1 = weights
      BY <1>2, <2>1, <3>1, Constants DEF SyncWeights, Phases, Paced
    <3>3. Resets' = Resets
      BY <2>1, <3>2 DEF SyncWeights, Resets
    <3> QED BY <1>1, <2>1, <3>1, <3>3 DEF SyncWeights, Windows
  <2>2. CASE CountLocal
    <3>1. Synced /\ done = 0
      BY <2>2 DEF CountLocal, InLock, Synced, Windows
    <3>2. Cardinality({}) = 0 /\ Len(<<>>) = 0
      BY FS_EmptySet
    <3>3. counted' = 0
      <4>1. Cardinality(generating) = 0 /\ Len(result) = 0 /\ Len(cancel) = 0
        BY <1>4, <3>1, <3>2
      <4>2. counted' = Cardinality(generating) + done + Len(result) + Len(cancel)
        BY <2>2 DEF CountLocal, ActiveTasks
      <4> QED BY <3>1, <4>1, <4>2
    <3> QED BY <1>1, <2>2, <3>1, <3>3 DEF CountLocal, InLock, Windows, Resets, Synced
  <2>3. CASE CountQueue
    <3>1. Synced /\ counted = 0 /\ sync' = "resume" /\ staleness_samples' = counted + Len(mq)
      BY <2>3 DEF CountQueue, Synced, Windows
    <3>2. mq = <<>>
      <4>1. End \notin In(mq)
        <5> SUFFICES ASSUME End \in In(mq) PROVE FALSE
          OBVIOUS
        <5>1. main = "over" /\ proc.at \in {"returned", "crashed"}
          BY DEF Ending, EndSignal, Drained, Flow, HandFits, TypedControl
        <5>2. proc.at # "crashed"
          BY <1>4, <3>1 DEF Raised
        <5>3. taken = DONE
          BY <5>1, <5>2 DEF Flow, HandFits
        <5>4. trained = 1 .. taken /\ trained \subseteq Samples
          BY <3>1 DEF Windows, Flow, TypedFlow
        <5> QED BY <1>2, <5>3, <5>4
      <4>2. \A q \in Seq(Samples \cup {End}) : q # <<>> => Head(q) \in In(q)
        BY InSteps
      <4> QED BY <1>4, <3>1, <4>1, <4>2 DEF Flow, TypedFlow
    <3>3. staleness_samples' = 0
      BY <3>1, <3>2
    <3>4. ~Synced'
      BY <2>3 DEF CountQueue, Phases, Paced, Synced
    <3>5. Resets \in Nat /\ Resets' = Resets + 1
      <4>1. Resets \in Nat /\ weights \in Nat
        BY Constants, Window
      <4>2. sync = "count" /\ sync' = "resume" /\ weights' = weights
        BY <2>3 DEF CountQueue
      <4>3. Resets = weights - 1 /\ Resets' = weights
        BY <4>2 DEF Resets
      <4> QED BY <4>1, <4>3
    <3>6. Resets' * MaxRequired = w + MaxRequired
      BY <1>2, <3>5, Multiples
    <3>7. trained = 1 .. taken /\ taken = w + MaxRequired
      BY <3>1 DEF Windows
    <3>8. UNCHANGED <<taken, trained, done>>
      BY <2>3 DEF CountQueue
    <3> HIDE DEF w
    <3>9. staleness_samples' = taken' - Resets' * MaxRequired' /\ staleness_samples' <= MaxRequired'
      BY <1>1, <1>2, <3>3, <3>6, <3>7, <3>8
    <3>10. 1 .. Resets' * MaxRequired' \subseteq trained'
      BY <1>1, <3>6, <3>7, <3>8
    <3> QED BY <3>1, <3>4, <3>9, <3>10 DEF Windows
  <2>4. CASE Pause \/ Resume \/ \E stage \in {"pause", "update", "resume"} : AskLock(stage)
    BY <1>6, <2>4 DEF Pause, Resume, AskLock, InLock, Resets, Synced
  <2>5. CASE PauseDone
    BY <1>1, <2>5 DEF PauseDone, Windows, Resets, Synced
  <2> QED BY <1>9, <2>1, <2>2, <2>3, <2>4, <2>5 DEF Synchronizer
<1>10. CASE Collect \/ StartSync \/ ReadValidation
  BY <1>6, <1>10 DEF Collect, StartSync, ReadValidation, Resets, Synced, TrainerEnded
<1>11. CASE Train
  <2>1. /\ trainer = "train" /\ sync \notin {"weights", "update", "count"}
        /\ Resets = weights /\ weights = current_param_version
    BY <1>11 DEF Train, Phases, Paced, Ending, Handover, Resets
  <2>2. /\ UNCHANGED <<staleness_samples, taken, weights, sync, done, counted>>
        /\ trained' = trained \cup batch
    BY <1>11 DEF Train
  <2>3. Resets' = Resets
    BY <2>1, <2>2 DEF Resets
  <2>4. trained' \subseteq 1 .. taken
    <3>1. \A s \in Samples : s \in trained \/ s \in batch => s <= taken
      BY Untrained
    <3>2. trained \subseteq Samples /\ batch \subseteq Samples
      BY DEF Flow, TypedFlow
    <3> QED BY <1>2, <2>2, <3>1, <3>2
  <2>5. ASSUME Synced' PROVE trained' = 1 .. taken /\ taken = w + MaxRequired
    <3>1. trainer' = "wait" /\ current_param_version' = current_param_version + 1
          /\ local_trigger_step' = 1
      BY <1>11, <2>1, <2>2, <2>5 DEF Train, Synced
    <3>2. Cardinality(trained') = w + MaxRequired
      <4> DEFINE c == current_param_version
      <4>1. /\ Trigger \in Nat /\ Required \in Nat /\ c \in Nat /\ MaxRequired = Required * Trigger
            /\ Trigger' = Trigger /\ Required' = Required
        BY <1>1, Constants, SameConfig
      <4>2. ((c + 1) * Trigger + 1 - 1) * Required = c * (Required * Trigger) + Required * Trigger
        BY <4>1, Multiples
      <4>3. Cardinality(trained') = ((c + 1) * Trigger + 1 - 1) * Required
        BY <3>1, <4>1 DEF Phases, Paced
      <4> QED BY <2>1, <4>1, <4>2, <4>3
    <3>3. IsFiniteSet(1 .. taken) /\ Cardinality(1 .. taken) = taken
      <4>1. \A n \in Nat : IsFiniteSet(1 .. n) /\ Cardinality(1 .. n) = n
        BY FS_Interval
      <4> QED BY <1>2, <4>1
    <3>4. /\ Cardinality(trained') <= Cardinality(1 .. taken)
          /\ Cardinality(1 .. taken) = Cardinality(trained') => 1 .. taken = trained'
      BY <2>4, <3>3, FS_Subset
    <3> HIDE DEF w
    <3>5. taken = w + MaxRequired
      BY <1>2, <3>2, <3>3, <3>4 DEF w
    <3> QED BY <3>2, <3>3, <3>4, <3>5
  <2> QED BY <1>1, <2>1, <2>2, <2>3, <2>5 DEF Windows
<1>12. CASE CollectEnd \/ EndTraining \/ ReadLastValidation
  <2>1. UNCHANGED <<staleness_samples, taken, weights, sync, trained, done, counted>>
    BY <1>12 DEF CollectEnd, EndTraining, ReadLastValidation, TrainerEnded
  <2>2. trainer' \notin {"wait", "syncing"}
    BY <1>12 DEF CollectEnd, EndTraining, ReadLastValidation
  <2> QED BY <1>6, <2>1, <2>2 DEF Resets, Synced
<1>13. CASE UNCHANGED vars
  BY <1>1, <1>3, <1>13 DEF vars, windowVars
<1> QED BY <1>7, <1>8, <1>9, <1>10, <1>11, <1>12, <1>13 DEF Next, Over, Trainer

bornVars == <<config, born, taken, weights, sync, cons, result, mq, batch>>

LEMMA BornStep ==
  ASSUME Flow, Flow', Ending, config.stale = 0, Phases, Windows, Born, ~TrainerEnded, [Next]_vars
  PROVE  Born'
<1> USE DEF rollVars, flowVars, failVars, procVars, taskVars, queueVars, syncVars, trainVars
<1>1. /\ config' = config /\ MaxRequired' = MaxRequired /\ Samples' = Samples
      /\ Resets \in Nat /\ weights \in Nat /\ Unborn \notin Nat
      /\ taken \in Nat /\ MaxRequired \in Nat
      /\ born \in [Samples -> Nat \cup {Unborn}]
      /\ End \notin Samples /\ Nothing \notin Samples /\ Dead \notin Samples
  <2>1. config' = config /\ MaxRequired' = MaxRequired /\ Samples' = Samples
    BY ConfigKept, SameConfig
  <2>2. weights \in Nat /\ taken \in Nat /\ MaxRequired \in Nat
    BY Constants
  <2>3. Unborn \notin Nat /\ End \notin Samples /\ Nothing \notin Samples /\ Dead \notin Samples
    BY Constants DEF Unborn, Dead
  <2> QED BY <2>1, <2>2, <2>3, Window DEF Flow, TypedFlow
<1>2. ASSUME UNCHANGED bornVars PROVE Born'
  BY <1>1, <1>2 DEF bornVars, Born, Resets, In
<1>3. Synced => hand \notin Samples /\ generating = {}
  BY NothingInFlight DEF Windows
<1>4. CASE Processor
  <2>1. CASE Take
    <3>1. taken' = taken + 1 /\ UNCHANGED <<born, weights, sync, cons, result, mq, batch>>
      BY <2>1 DEF Take
    <3>2. \A s \in Samples : s > taken' => s > taken
      BY <1>1, <3>1, Constants
    <3> QED BY <1>1, <3>1, <3>2 DEF Born, Resets, In
  <2>2. CASE Submit
    <3>1. hand \in Samples
      BY <2>2 DEF Submit, Enters, At, Flow, HandFits
    <3>2. Resets = weights /\ hand <= taken
      BY <1>3, <3>1, Untrained DEF Resets, Synced
    <3>3. /\ born' = [born EXCEPT ![hand] = IF @ = Unborn /\ serving THEN weights ELSE @]
          /\ UNCHANGED <<taken, weights, sync, cons, result, mq, batch>>
      BY <2>2 DEF Submit
    <3>4. Resets' = Resets /\ In(result)' = In(result) /\ In(mq)' = In(mq)
      BY <3>3 DEF Resets, In
    <3>5. \A s \in Samples : s # hand => born'[s] = born[s]
      BY <1>1, <3>3
    <3>6. born'[hand] = IF born[hand] = Unborn /\ serving THEN weights ELSE born[hand]
      BY <1>1, <3>1, <3>3
    <3>7. ~(hand > taken)
      BY <1>1, <3>1, <3>2, Constants
    <3> QED BY <1>1, <3>1, <3>2, <3>3, <3>4, <3>5, <3>6, <3>7 DEF Born
  <2> QED BY <1>1, <1>2, <1>4, <2>1, <2>2 DEF Processor, PauseSeen, SetPaused, TakeCancelled, Continue,
          LoopEnds, AwaitTask, TasksGone, Reap, Sleep, Enqueue, bornVars
<1>5. CASE Rollouter
  <2>1. ASSUME NEW s \in generating, Generated(s) PROVE Born'
    <3>1. s \in Samples /\ result \in Seq(Samples)
      BY DEF Flow, TypedFlow
    <3>2. Resets = weights /\ s <= taken
      BY <1>3, <3>1, Untrained DEF Resets, Synced
    <3>3. /\ born' = [born EXCEPT ![s] = IF @ = Unborn THEN weights ELSE @]
          /\ result' = Append(result, s)
          /\ UNCHANGED <<taken, weights, sync, cons, mq, batch>>
      BY <2>1 DEF Generated
    <3>4. Resets' = Resets /\ In(result') = In(result) \cup {s} /\ In(mq') = In(mq)
      BY <3>1, <3>3, InSteps DEF Resets
    <3>5. \A r \in Samples : r # s => born'[r] = born[r]
      BY <1>1, <3>3
    <3>6. born'[s] = IF born[s] = Unborn THEN weights ELSE born[s]
      BY <1>1, <3>1, <3>3
    <3>7. ~(s > taken)
      BY <1>1, <3>1, <3>2, Constants
    <3>8. In(result)' = In(result') /\ In(mq)' = In(mq')
      BY DEF In
    <3> QED BY <1>1, <3>1, <3>2, <3>3, <3>4, <3>5, <3>6, <3>7, <3>8 DEF Born
  <2>2. CASE ConsumerTake \/ ConsumerRaises
    <3>1. result \in Seq(Samples) /\ result # <<>>
      BY <2>2 DEF ConsumerTake, ConsumerRaises, Flow, TypedFlow
    <3>2. Head(result) \in In(result) /\ In(Tail(result)) \subseteq In(result)
      BY <3>1, InSteps
    <3>3. /\ UNCHANGED <<born, taken, weights, sync, mq, batch>>
          /\ result' = Tail(result) /\ cons' \in {Head(result), Dead}
      BY <2>2 DEF ConsumerTake, ConsumerRaises
    <3>4. In(result)' = In(Tail(result)) /\ In(mq)' = In(mq) /\ Resets' = Resets
      BY <3>3 DEF In, Resets
    <3> QED BY <1>1, <3>2, <3>3, <3>4 DEF Born
  <2>3. CASE ConsumerPut
    <3>1. PutIntoQueue(cons) /\ cons \in Samples /\ cons' = Nothing
      BY <2>3 DEF ConsumerPut
    <3>2. /\ mq' = Append(IF Len(mq) >= MaxRequired THEN Tail(mq) ELSE mq, cons)
          /\ Len(mq) >= MaxRequired => mq # <<>>
      BY <3>1, PutIntoFacts DEF Flow
    <3>3. mq \in Seq(Samples \cup {End}) /\ (mq # <<>> => Tail(mq) \in Seq(Samples \cup {End}))
      BY DEF Flow, TypedFlow
    <3>4. \A q \in Seq(Samples \cup {End}) : In(Append(q, cons)) = In(q) \cup {cons}
      BY <3>1, InSteps
    <3>5. mq # <<>> => In(Tail(mq)) \subseteq In(mq)
      BY <3>3, InSteps
    <3>6. In(mq') \subseteq In(mq) \cup {cons}
      BY <3>2, <3>3, <3>4, <3>5
    <3>7. UNCHANGED <<born, taken, weights, sync, result, batch>>
      BY <2>3 DEF ConsumerPut
    <3>8. In(result)' = In(result) /\ In(mq)' = In(mq') /\ Resets' = Resets
      BY <3>7 DEF In, Resets
    <3> QED BY <1>1, <3>1, <3>6, <3>7, <3>8 DEF Born
  <2>4. CASE SendFinish
    <3>1. PutIntoQueue(End)
      BY <2>4 DEF SendFinish
    <3>2. /\ mq' = Append(IF Len(mq) >= MaxRequired THEN Tail(mq) ELSE mq, End)
          /\ Len(mq) >= MaxRequired => mq # <<>>
      BY <3>1, PutIntoFacts DEF Flow
    <3>3. mq \in Seq(Samples \cup {End}) /\ (mq # <<>> => Tail(mq) \in Seq(Samples \cup {End}))
      BY DEF Flow, TypedFlow
    <3>4. \A q \in Seq(Samples \cup {End}) : In(Append(q, End)) = In(q) \cup {End}
      BY InSteps
    <3>5. mq # <<>> => In(Tail(mq)) \subseteq In(mq)
      BY <3>3, InSteps
    <3>6. In(mq') \subseteq In(mq) \cup {End}
      BY <3>2, <3>3, <3>4, <3>5
    <3>7. UNCHANGED <<born, taken, weights, sync, cons, result, batch>>
      BY <2>4 DEF SendFinish
    <3>8. In(result)' = In(result) /\ In(mq)' = In(mq') /\ Resets' = Resets
      BY <3>7 DEF In, Resets
    <3> QED BY <1>1, <3>6, <3>7, <3>8 DEF Born
  <2> QED BY <1>1, <1>2, <1>5, <2>1, <2>2, <2>3, <2>4 DEF Rollouter, MonitorLook,
       MonitorPass, MonitorResume, MonitorTurn,
          StreamingEnds, ResultsJoined, Interrupted, GenerationRaises, bornVars
<1>6. CASE Synchronizer
  <2>1. CASE SyncWeights
    <3>1. weights' - 1 = weights
      <4>1. trainer = "syncing"
        BY <2>1 DEF SyncWeights, Ending, Handover, TrainerEnded
      <4> QED BY <2>1, <4>1, Constants DEF SyncWeights, Phases, Paced
    <3>2. Resets' = Resets /\ UNCHANGED <<born, taken, cons, result, mq, batch>>
      BY <2>1, <3>1 DEF SyncWeights, Resets
    <3> QED BY <1>1, <3>2 DEF Born, In
  <2>2. CASE CountQueue
    <3>1. taken = Resets * MaxRequired + MaxRequired
      BY <2>2 DEF CountQueue, Windows, Synced
    <3>2. Resets' = Resets + 1
      BY <1>1, <2>2 DEF CountQueue, Resets
    <3>3. Resets' * MaxRequired' = taken
      BY <1>1, <3>1, <3>2, Multiples
    <3>4. UNCHANGED <<born, taken, cons, result, mq, batch>>
      BY <2>2 DEF CountQueue
    <3> QED BY <1>1, <3>3, <3>4 DEF Born, In
  <2>3. ASSUME ~SyncWeights, ~CountQueue PROVE Born'
    <3>1. Resets' = Resets /\ UNCHANGED <<born, taken, cons, result, mq, batch>>
      BY <1>6, <2>3 DEF Synchronizer, Pause, PauseDone, CountLocal, Resume, AskLock, InLock, Resets
    <3> QED BY <1>1, <3>1 DEF Born, In
  <2> QED BY <2>1, <2>2, <2>3
<1>7. CASE Collect \/ CollectEnd
  <2>1. mq \in Seq(Samples \cup {End}) /\ mq # <<>> /\ mq' = Tail(mq)
    BY <1>7 DEF Collect, CollectEnd, Flow, TypedFlow
  <2>2. Head(mq) \in In(mq) /\ In(Tail(mq)) \subseteq In(mq)
    BY <2>1, InSteps
  <2>3. batch' \subseteq batch \cup {Head(mq)} /\ UNCHANGED <<born, taken, weights, sync, cons, result>>
    BY <1>7 DEF Collect, CollectEnd
  <2>4. In(result)' = In(result) /\ In(mq)' = In(Tail(mq)) /\ Resets' = Resets
    BY <2>1, <2>3 DEF In, Resets
  <2> QED BY <1>1, <2>2, <2>3, <2>4 DEF Born
<1>8. ASSUME Trainer, ~Collect, ~CollectEnd PROVE Born'
  <2>1. /\ UNCHANGED <<born, taken, weights, cons, result, mq>> /\ batch' \subseteq batch
        /\ sync' = sync \/ (sync = "idle" /\ sync' = "pause")
    BY <1>8 DEF Trainer, Train, StartSync, ReadValidation, EndTraining, ReadLastValidation
  <2>2. Resets' = Resets /\ In(result)' = In(result) /\ In(mq)' = In(mq)
    BY <2>1 DEF Resets, In
  <2> QED BY <1>1, <2>1, <2>2 DEF Born
<1>9. CASE UNCHANGED vars
  BY <1>1, <1>2, <1>9 DEF vars, bornVars
<1> QED BY <1>4, <1>5, <1>6, <1>7, <1>8, <1>9 DEF Next, Over

-----------------------------------------------------------------------------

LEMMA OnPolicyInit == Init => OnPolicyInv
<1> SUFFICES ASSUME Init PROVE Fits /\ Phases /\ Windows /\ Born
  BY DEF OnPolicyInv
<1>1. Flow
  BY FlowInit
<1>2. /\ MaxRequired \in Nat /\ Required \in Nat \ {0} /\ Samples = 1 .. Total /\ Trigger \in Nat
  BY ConfigFacts, MaxRequiredFacts DEF Init, MaxRequired, Required, Trigger, Total, Samples
<1>3. Cardinality({}) = 0
  BY FS_EmptySet
<1>4. Occurs(End, <<>>) = 0
  BY OccursEmpty
<1>5. Fits
  BY <1>2, <1>4 DEF Init, Fits, TrainerEnded
<1>6. (0 * Trigger + 1 - 1) * Required = 0 /\ 0 * MaxRequired = 0
  BY <1>2
<1>7. Phases
  BY <1>2, <1>3, <1>6 DEF Init, Phases, Paced
<1>8. Resets = 0 /\ ~Synced
  BY DEF Init, Resets, Synced
<1>9. Windows
  BY <1>2, <1>6, <1>8 DEF Init, Windows
<1>10. Born
  BY <1>2 DEF Init, Born, In, Nothing
<1> QED BY <1>5, <1>7, <1>9, <1>10

LEMMA OnPolicyAlways == Spec => []OnPolicyInv
<1>1. Flow /\ Flow' /\ Ending /\ Raised /\ OnPolicyInv /\ [Next]_vars => OnPolicyInv'
  <2> SUFFICES ASSUME Flow, Flow', Ending, Raised, OnPolicyInv, [Next]_vars, config'.stale = 0
               PROVE  Fits' /\ (~TrainerEnded' => Phases' /\ Windows' /\ Born')
    BY DEF OnPolicyInv
  <2>1. config.stale = 0
    BY ConfigKept
  <2>2. Fits /\ (~TrainerEnded => Phases /\ Windows /\ Born)
    BY <2>1 DEF OnPolicyInv
  <2>3. Fits'
    BY <2>1, <2>2, FitsStep
  <2>4. ASSUME ~TrainerEnded' PROVE Phases' /\ Windows' /\ Born'
    <3>1. ~TrainerEnded
      BY <2>4, EndedForGood
    <3>2. Phases'
      BY <2>1, <2>2, <2>4, <3>1, PhasesStep
    <3>3. Windows'
      BY <2>1, <2>2, <3>1, <3>2, WindowsStep
    <3>4. Born'
      BY <2>1, <2>2, <3>1, BornStep
    <3> QED BY <3>2, <3>3, <3>4
  <2> QED BY <2>3, <2>4
<1>2. Unreaped /\ Raised => Raised
  OBVIOUS
<1> QED BY <1>1, <1>2, OnPolicyInit, FlowAlways, EndingAlways, UnreapedAlways, PTL DEF Spec

(* With staleness_threshold = 0 every batch was generated with the weights it is trained    *)
(* on, and the message queue never drops a sample, nor the signal that ends the run: for    *)
(* every such configuration, with and without partial rollout, whatever generations raise.  *)
THEOREM ThresholdZeroIsOnPolicy == Spec => []OnPolicy
<1>1. Flow /\ OnPolicyInv => OnPolicy
  <2> SUFFICES ASSUME Flow, OnPolicyInv, config.stale = 0
               PROVE  /\ dropped = {}
                      /\ trainer = "train" => \A s \in batch : born[s] = current_param_version
    BY DEF OnPolicy
  <2>1. dropped = {}
    BY DEF OnPolicyInv, Fits
  <2>2. ASSUME trainer = "train", NEW s \in batch PROVE born[s] = current_param_version
    <3>1. Phases /\ Windows /\ Born
      BY <2>2 DEF OnPolicyInv, TrainerEnded
    <3>2. s \in Samples /\ s <= taken /\ s \notin trained
      BY Untrained DEF Flow, TypedFlow
    <3>3. s \in Resets * MaxRequired + 1 .. Resets * MaxRequired + MaxRequired
          /\ Resets * MaxRequired \in Nat
      BY <3>1, <3>2, Window
    <3>4. s > Resets * MaxRequired
      BY <3>3
    <3>5. born[s] = Resets
      BY <3>1, <3>2, <3>4 DEF Born
    <3> QED BY <2>2, <3>1, <3>5 DEF Phases, Paced, Resets
  <2> QED BY <2>1, <2>2
<1> QED BY <1>1, FlowAlways, OnPolicyAlways, PTL

-----------------------------------------------------------------------------
(* For every threshold, without partial rollout: how many versions old the *)
(* weights are that generated a batch.  A sample is trained in the place   *)
(* it has in the queue, and what is in flight limits that place when its   *)
(* generation ends.                                                        *)

\* What the trainer has taken from the queue.
Seen == Cardinality(trained) + Cardinality(batch)

\* SendFinish takes a place in the queue of those still to be put.
Late == Is(main = "over")

\* The sample in place k of all that the trainer takes is there in time.
Latest(s) == (born[s] + 2) * (Required * Trigger) + MaxRequired + 2
Due(s, k) == born[s] # Unborn /\ k <= Latest(s)

Ages ==
  /\ \A s \in Samples : s > taken \/ s = hand => born[s] = Unborn
  /\ \A s \in generating : born[s] # Unborn /\ born[s] >= weights - 1
  /\ sync = "weights" => \A s \in generating : born[s] = weights

InTime ==
  /\ \A s \in batch : Due(s, Cardinality(trained) + 1 - Late)
  /\ \A i \in 1 .. Len(mq) : mq[i] # End => Due(mq[i], Seen + i - Late)
  /\ cons \in Samples => Due(cons, Seen + Len(mq) + 1 - Late)
  /\ main \in {"run", "join"} =>
       \A i \in 1 .. Len(result) : Due(result[i], Seen + Len(mq) + Is(cons \in Samples) + i)

LagInv == ~Partial /\ ~TrainerEnded => Paced /\ Ages /\ InTime

(* A batch was generated by weights at most two versions and one filled queue (and the two  *)
(* samples staleness_samples does not count) behind the weights it is trained on.           *)
VersionLag ==
  ~Partial /\ trainer = "train" =>
    \A s \in batch :
      /\ born[s] # Unborn
      /\ (current_param_version - born[s] - 2) * (Required * Trigger) <= MaxRequired + 2

LEMMA Products ==
  /\ \A a, b, c \in Nat : a <= b => a * c <= b * c
  /\ \A a, b, c \in Nat : (a - b - 2) * c = a * c - (b + 2) * c
  /\ \A r, t, c, k \in Nat : k >= 1 => (c * t + k - 1) * r = c * (r * t) + (k - 1) * r
OBVIOUS

\* The numbers of the section.
LEMMA LagTypes ==
  ASSUME Flow
  PROVE  /\ Cardinality(trained) \in Nat /\ Cardinality(batch) \in Nat /\ Seen \in Nat
         /\ Cardinality(trained) <= Seen /\ Late \in {0, 1}
         /\ Len(mq) \in Nat /\ Len(result) \in Nat /\ Is(cons \in Samples) \in {0, 1}
         /\ Required * Trigger \in Nat /\ MaxRequired \in Nat
         /\ \A s \in Samples : born[s] \in Nat \cup {Unborn}
         /\ \A s \in Samples : born[s] # Unborn => Latest(s) \in Nat
<1>1. /\ mq \in Seq(Samples \cup {End}) /\ result \in Seq(Samples)
      /\ Cardinality(trained) \in Nat /\ Cardinality(batch) \in Nat
      /\ \A s \in Samples : born[s] \in Nat \cup {Unborn}
  BY SamplesFinite DEF Flow, TypedFlow
<1>2. Required \in Nat /\ Trigger \in Nat /\ MaxRequired \in Nat
  BY Constants
<1>3. Required * Trigger \in Nat
  BY <1>2
<1>4. ASSUME NEW s \in Samples, born[s] # Unborn PROVE Latest(s) \in Nat
  <2> DEFINE b == born[s] + 2
             c == Required * Trigger
  <2>1. b \in Nat
    BY <1>1, <1>4
  <2> HIDE DEF b, c
  <2>2. b * c \in Nat
    BY <1>3, <2>1 DEF c
  <2>3. b * c + MaxRequired + 2 \in Nat
    BY <1>2, <2>2
  <2> QED BY <2>3 DEF Latest, b, c
<1> QED BY <1>1, <1>2, <1>3, <1>4 DEF Seen, Late, Is

\* Every version takes required_samples * trigger_parameter_sync_step samples.
LEMMA SeenBound ==
  ASSUME Flow, Paced
  PROVE  /\ Seen <= (weights + 1) * (Required * Trigger)
         /\ current_param_version * (Required * Trigger) <= Cardinality(trained)
<1> DEFINE c == current_param_version
           k == local_trigger_step
           p == Required * Trigger
<1>1. /\ Required \in Nat \ {0} /\ Trigger \in Nat \ {0} /\ c \in Nat /\ weights \in Nat
      /\ k \in 1 .. Trigger /\ p \in Nat /\ Cardinality(batch) \in Nat
  BY Constants, LagTypes
<1>2. Cardinality(trained) = c * p + (k - 1) * Required
  <2>1. Cardinality(trained) = (c * Trigger + k - 1) * Required
    BY DEF Paced
  <2>2. k \in Nat /\ k >= 1
    BY <1>1
  <2>3. (c * Trigger + k - 1) * Required = c * p + (k - 1) * Required
    BY <1>1, <2>2, Products
  <2> QED BY <2>1, <2>3
<1>3. c * p \in Nat /\ (k - 1) * Required \in Nat /\ (c + 1) * p = c * p + p
  <2>1. k - 1 \in Nat /\ Required \in Nat
    BY <1>1
  <2> QED BY <1>1, <2>1, Multiples
<1>4. c * p <= Cardinality(trained)
  BY <1>2, <1>3
<1>5. CASE trainer \in {"wait", "syncing"}
  <2>1. k = 1 /\ batch = {} /\ weights + 1 = c
    BY <1>1, <1>5 DEF Paced
  <2>2. Cardinality(batch) = 0 /\ (k - 1) * Required = 0
    BY <1>1, <2>1, FS_EmptySet
  <2>3. Seen = c * p
    BY <1>2, <1>3, <2>2 DEF Seen
  <2> QED BY <1>3, <1>4, <2>1, <2>3
<1>6. CASE trainer \notin {"wait", "syncing"}
  <2>1. weights = c /\ Cardinality(batch) <= Required
    <3>1. Cardinality({}) = 0
      BY FS_EmptySet
    <3> QED BY <1>1, <1>6, <3>1 DEF Paced
  <2>2. (k - 1) * Required + Required <= p
    <3>1. k \in Nat /\ Trigger \in Nat /\ Required \in Nat /\ k <= Trigger /\ k - 1 \in Nat
      BY <1>1
    <3>2. ((k - 1) + 1) * Required = (k - 1) * Required + Required
      BY <3>1, Multiples
    <3>3. k * Required <= Trigger * Required /\ (k - 1) + 1 = k
      BY <3>1, Products
    <3>4. Trigger * Required = p
      BY <3>1
    <3> QED BY <3>2, <3>3, <3>4
  <2>3. Seen = c * p + (k - 1) * Required + Cardinality(batch)
    BY <1>2 DEF Seen
  <2>4. Seen <= c * p + p
    <3> DEFINE x == c * p
               y == (k - 1) * Required
    <3>1. x \in Nat /\ y \in Nat
      BY <1>3
    <3> HIDE DEF x, y, p
    <3>2. Seen = x + y + Cardinality(batch) /\ y + Required <= p
      BY <2>2, <2>3 DEF x, y
    <3>3. Seen <= x + p
      BY <1>1, <2>1, <3>1, <3>2
    <3> QED BY <3>3 DEF x
  <2> QED BY <1>3, <1>4, <2>1, <2>4
<1> QED BY <1>5, <1>6

\* A queue without repetitions is as long as the set of its elements is large.
LEMMA NoRepetition ==
  ASSUME NEW S, NEW q \in Seq(S), \A x \in S : Occurs(x, q) <= 1
  PROVE  Len(q) = Cardinality(In(q))
<1>1. Len(q) \in Nat /\ IsFiniteSet(1 .. Len(q)) /\ Cardinality(1 .. Len(q)) = Len(q)
  <2>1. Len(q) \in Nat
    OBVIOUS
  <2>2. \A n \in Nat : IsFiniteSet(1 .. n) /\ Cardinality(1 .. n) = n
    BY FS_Interval
  <2> QED BY <2>1, <2>2
<1>2. ASSUME NEW i \in 1 .. Len(q), NEW j \in 1 .. Len(q), q[i] = q[j] PROVE i = j
  <2>1. q[i] \in S
    OBVIOUS
  <2> QED BY <1>2, <2>1, OncePlaced
<1>3. q \in Surjection(1 .. Len(q), In(q)) /\ q \in [1 .. Len(q) -> In(q)]
  BY DEF Surjection, In
<1>4. q \in Bijection(1 .. Len(q), In(q))
  BY <1>2, <1>3 DEF Bijection, Injection, IsInjective
<1>5. ExistsBijection(1 .. Len(q), In(q))
  BY <1>4 DEF ExistsBijection
<1> QED BY <1>1, <1>5, FS_Bijection

LEMMA DisjointUnion ==
  ASSUME NEW S, NEW T, IsFiniteSet(S), IsFiniteSet(T), S \cap T = {}
  PROVE  /\ IsFiniteSet(S \cup T) /\ Cardinality(S \cup T) = Cardinality(S) + Cardinality(T)
         /\ Cardinality(S \cup T) \in Nat /\ Cardinality(S) \in Nat /\ Cardinality(T) \in Nat
<1>1. Cardinality(S \cap T) = 0
  BY FS_EmptySet
<1>2. /\ IsFiniteSet(S \cup T)
      /\ Cardinality(S \cup T) = Cardinality(S) + Cardinality(T) - Cardinality(S \cap T)
  BY FS_Union
<1>3. /\ Cardinality(S \cup T) \in Nat /\ Cardinality(S) \in Nat /\ Cardinality(T) \in Nat
  BY <1>2, FS_CardinalityType
<1> QED BY <1>1, <1>2, <1>3

\* The queue, the sample being put, the results and one generation are all in flight.
LEMMA Ahead ==
  ASSUME Flow, Counting, End \notin In(mq), NEW s \in generating
  PROVE  Len(mq) + Is(cons \in Samples) + Len(result) + 1 <= MaxRequired + 2
<1> DEFINE M == In(mq)
           R == In(result)
           K == IF cons \in Samples THEN {cons} ELSE {}
           G == {s}
<1>1. /\ mq \in Seq(Samples \cup {End}) /\ result \in Seq(Samples) /\ s \in Samples
      /\ End \notin Samples
  BY Constants DEF Flow, TypedFlow
<1>2. /\ M \subseteq Samples /\ R \subseteq Samples
      /\ IsFiniteSet(M) /\ IsFiniteSet(R)
  <2>1. M \subseteq Samples \cup {End} /\ R \subseteq Samples
    BY <1>1, InSteps
  <2> QED BY <1>1, <2>1, InQueue
<1>3. ASSUME NEW x \in Samples
      PROVE  /\ Occurs(x, mq) <= 1 /\ Occurs(x, result) <= 1
             /\ x \in M => x \notin R /\ x \notin K /\ x \notin G
             /\ x \in K => x \notin R /\ x \notin G
             /\ x \in R => x \notin G
             /\ x \in M \/ x \in R \/ x \in K \/ x \in G => x \in InFlight
  <2> DEFINE r == Occurs(x, result)
             c == Occurs(x, cancel)
             q == Occurs(x, mq)
  <2>1. r \in Nat /\ c \in Nat /\ q \in Nat
    BY OccursPlaces DEF Flow, TypedFlow
  <2>2. (x \in R <=> r > 0) /\ (x \in M <=> q > 0)
    BY InQueue DEF Flow, TypedFlow
  <2>3. (x \in K <=> x = cons) /\ (x \in G => x \in generating)
    BY <1>3
  <2>4. Is(x = hand) + Is(x \in generating) + r + c + Is(x = cons) + q + Is(x \in batch)
          + Is(x \in trained) + Is(x \in dropped) + Is(x \in lost) = Is(x <= taken)
    BY DEF Flow, EverySampleOnce
  <2> HIDE DEF r, c, q, M, R, K, G
  <2>5. q <= 1 /\ r <= 1
    BY <2>1, <2>4 DEF Is
  <2>6. /\ q > 0 => ~(r > 0) /\ x # cons /\ x \notin generating
        /\ x = cons => ~(r > 0) /\ x \notin generating
        /\ r > 0 => x \notin generating
    BY <2>1, <2>4 DEF Is
  <2>7. q > 0 \/ r > 0 \/ x = cons \/ x \in generating =>
          x <= taken /\ x \notin batch /\ x \notin trained /\ x \notin dropped /\ x \notin lost
    BY <2>1, <2>4 DEF Is
  <2>8. q = Occurs(x, mq) /\ r = Occurs(x, result)
    BY DEF q, r
  <2> QED BY <2>2, <2>3, <2>5, <2>6, <2>7, <2>8 DEF InFlight
<1>4. Len(mq) = Cardinality(M) /\ Len(result) = Cardinality(R)
  <2>1. mq \in Seq(Samples)
    <3>1. \A i \in 1 .. Len(mq) : mq[i] \in Samples
      BY <1>2 DEF In
    <3> QED BY <1>1, <3>1
  <2> QED BY <1>1, <1>3, <2>1, NoRepetition
<1>5. IsFiniteSet(K) /\ Cardinality(K) = Is(cons \in Samples) /\ K \subseteq Samples
  BY FS_EmptySet, FS_Singleton DEF Is
<1>6. IsFiniteSet(G) /\ Cardinality(G) = 1 /\ G \subseteq Samples
  BY <1>1, FS_Singleton
<1>7. M \cap R = {} /\ (M \cup R) \cap K = {} /\ ((M \cup R) \cup K) \cap G = {}
  <2> HIDE DEF M, R, K, G
  <2> QED BY <1>2, <1>3, <1>5, <1>6
<1>8. (M \cup R) \cup K \cup G \subseteq InFlight
  <2> HIDE DEF M, R, K, G
  <2> QED BY <1>2, <1>3, <1>5, <1>6
<1> HIDE DEF M, R, K, G
<1>9. /\ IsFiniteSet(M \cup R) /\ Cardinality(M \cup R) = Cardinality(M) + Cardinality(R)
      /\ Cardinality(M) \in Nat /\ Cardinality(R) \in Nat
  BY <1>2, <1>7, DisjointUnion
<1>10. /\ IsFiniteSet((M \cup R) \cup K)
       /\ Cardinality((M \cup R) \cup K) = Cardinality(M \cup R) + Cardinality(K)
       /\ Cardinality(K) \in Nat
  BY <1>5, <1>7, <1>9, DisjointUnion
<1>11. /\ Cardinality((M \cup R) \cup K \cup G) = Cardinality((M \cup R) \cup K) + Cardinality(G)
       /\ Cardinality((M \cup R) \cup K \cup G) \in Nat
  BY <1>6, <1>7, <1>10, DisjointUnion
<1>12. IsFiniteSet(InFlight) /\ Cardinality(InFlight) \in Nat
  BY InFlightFinite DEF Flow
<1>13. Cardinality((M \cup R) \cup K \cup G) <= Cardinality(InFlight)
  BY <1>8, <1>12, FS_Subset
<1>14. Cardinality(InFlight) <= MaxRequired + 2 /\ MaxRequired \in Nat
  BY Constants DEF Counting, InFlightBounded
<1> QED BY <1>4, <1>5, <1>6, <1>9, <1>10, <1>11, <1>12, <1>13, <1>14

-----------------------------------------------------------------------------

\* A generation that ends had its weights when it began.
LEMMA GeneratedBorn ==
  ASSUME Flow, Ages, NEW s \in generating, Generated(s)
  PROVE  born' = born
<1>1. born \in [Samples -> Nat \cup {Unborn}] /\ s \in Samples /\ born[s] # Unborn
  BY DEF Flow, TypedFlow, Ages
<1>2. born' = [born EXCEPT ![s] = born[s]]
  BY <1>1 DEF Generated
<1> QED BY <1>1, <1>2

\* What is submitted is born at once.
LEMMA SubmitBorn ==
  ASSUME Flow, Ending, ~Partial, Ages, Submit
  PROVE  /\ hand \in Samples /\ born[hand] = Unborn /\ born'[hand] = weights
         /\ \A r \in Samples : r # hand => born'[r] = born[r]
<1>1. hand \in Samples
  BY DEF Submit, Enters, At, Flow, HandFits
<1>2. born \in [Samples -> Nat \cup {Unborn}] /\ serving /\ born[hand] = Unborn
  BY <1>1 DEF Flow, TypedFlow, Ending, Handover, Ages
<1>3. born' = [born EXCEPT ![hand] = weights]
  BY <1>2 DEF Submit
<1> QED BY <1>1, <1>2, <1>3

LEMMA AgesStep ==
  ASSUME Flow, Ending, ~Partial, ~TrainerEnded, Paced, Ages, [Next]_vars
  PROVE  Ages'
<1> USE DEF rollVars, flowVars, failVars, procVars, taskVars, queueVars, syncVars, trainVars
<1>1. /\ Samples' = Samples /\ Samples = 1 .. Total /\ Total \in Nat /\ taken \in Int
      /\ weights \in Nat /\ Unborn \notin Nat /\ Nothing \notin Samples
      /\ generating \subseteq Samples
  <2>1. Unborn \notin Nat
    BY DEF Unborn
  <2> QED BY <2>1, Constants, ConfigKept, SameConfig DEF Flow, TypedFlow
<1>2. ASSUME taken' = taken, hand' = hand \/ hand' = Nothing, generating' \subseteq generating,
             UNCHANGED <<born, weights>>, sync' = "weights" => sync = "weights"
      PROVE  Ages'
  <2>1. \A s \in Samples : s > taken' \/ s = hand' => born'[s] = Unborn
    BY <1>1, <1>2 DEF Ages
  <2>2. \A s \in generating' : born'[s] # Unborn /\ born'[s] >= weights' - 1
    BY <1>2 DEF Ages
  <2>3. sync' = "weights" => \A s \in generating' : born'[s] = weights'
    BY <1>2 DEF Ages
  <2> QED BY <1>1, <2>1, <2>2, <2>3 DEF Ages
<1>3. CASE Processor
  <2>1. CASE TakeCancelled
    BY <2>1 DEF TakeCancelled, Ending, Handover
  <2>2. CASE Take
    <3>1. /\ hand' = taken + 1 /\ taken' = taken + 1
          /\ UNCHANGED <<born, weights, sync, generating>>
      BY <2>2 DEF Take
    <3>2. \A s \in Samples : s > taken' \/ s = hand' => s > taken
      BY <1>1, <3>1
    <3> QED BY <1>1, <3>1, <3>2 DEF Ages
  <2>3. CASE Submit
    <3>1. /\ hand \in Samples /\ born[hand] = Unborn /\ born'[hand] = weights
          /\ \A r \in Samples : r # hand => born'[r] = born[r]
      BY <2>3, SubmitBorn
    <3>2. /\ hand' = Nothing /\ generating' = generating \cup {hand}
          /\ UNCHANGED <<taken, weights, sync>>
      BY <2>3 DEF Submit
    <3>3. hand <= taken
      BY <3>1, Untrained
    <3>4. \A s \in Samples : s > taken' \/ s = hand' => born'[s] = Unborn
      <4>1. ASSUME NEW s \in Samples, s > taken' \/ s = hand' PROVE s # hand /\ s > taken
        BY <1>1, <3>1, <3>2, <3>3, <4>1
      <4> QED BY <3>1, <4>1 DEF Ages
    <3>5. ASSUME NEW s \in generating'
          PROVE  /\ born'[s] # Unborn /\ born'[s] >= weights' - 1
                 /\ sync' = "weights" => born'[s] = weights'
      <4>1. CASE s = hand
        BY <1>1, <3>1, <3>2, <4>1
      <4>2. CASE s # hand
        BY <1>1, <3>1, <3>2, <3>5, <4>2 DEF Ages
      <4> QED BY <4>1, <4>2
    <3> QED BY <1>1, <3>4, <3>5 DEF Ages
  <2> QED BY <1>2, <1>3, <2>1, <2>2, <2>3 DEF Processor, PauseSeen, SetPaused, Continue, LoopEnds,
          AwaitTask, TasksGone, Reap, Sleep, Enqueue
<1>4. CASE Rollouter
  <2>1. ASSUME NEW s \in generating, Generated(s) PROVE Ages'
    <3>1. born' = born
      BY <2>1, GeneratedBorn
    <3> QED BY <1>2, <2>1, <3>1 DEF Generated
  <2> QED BY <1>2, <1>4, <2>1 DEF Rollouter, ConsumerTake, ConsumerRaises, ConsumerPut, MonitorLook,

               MonitorPass, MonitorResume, MonitorTurn, StreamingEnds, ResultsJoined, SendFinish, Interrupted, GenerationRaises
<1>5. CASE Synchronizer
  <2>1. CASE PauseDone
    <3>1. generating = {} /\ UNCHANGED <<taken, hand, generating, born, weights>>
      BY <2>1 DEF PauseDone
    <3> QED BY <1>1, <3>1 DEF Ages
  <2>2. CASE SyncWeights
    <3>1. trainer = "syncing"
      BY <2>2 DEF SyncWeights, Ending, Handover, TrainerEnded
    <3>2. weights' = weights + 1 /\ sync = "weights" /\ sync' = "update"
      BY <1>1, <2>2, <3>1, Constants DEF SyncWeights, Paced
    <3>3. UNCHANGED <<taken, hand, generating, born>>
      BY <2>2 DEF SyncWeights
    <3>4. \A s \in generating : born[s] # Unborn /\ born[s] = weights
      BY <3>2 DEF Ages
    <3>5. \A s \in generating : born[s] >= weights' - 1
      BY <1>1, <3>2, <3>4
    <3> QED BY <1>1, <3>2, <3>3, <3>4, <3>5 DEF Ages
  <2> QED BY <1>2, <1>5, <2>1, <2>2 DEF Synchronizer, Pause, CountLocal, CountQueue, Resume, AskLock
<1>6. CASE Trainer
  BY <1>2, <1>6 DEF Trainer, Collect, CollectEnd, Train, StartSync, ReadValidation, EndTraining,
     ReadLastValidation
<1>7. CASE UNCHANGED vars
  BY <1>2, <1>7 DEF vars
<1> QED BY <1>3, <1>4, <1>5, <1>6, <1>7 DEF Next, Over

\* put_sample appends, and drops the oldest sample of a full queue.
LEMMA Shifted ==
  ASSUME Flow, Flow', NEW x \in Samples \cup {End}, PutIntoQueue(x)
  PROVE  \E d \in {0, 1} :
           /\ Len(mq') = Len(mq) + 1 - d /\ mq'[Len(mq')] = x
           /\ \A i \in 1 .. Len(mq') - 1 : i + d \in 1 .. Len(mq) /\ mq'[i] = mq[i + d]
<1>1. /\ mq \in Seq(Samples \cup {End})
      /\ mq' = Append(IF Len(mq) >= MaxRequired THEN Tail(mq) ELSE mq, x)
      /\ Len(mq) >= MaxRequired => mq # <<>>
  BY PutIntoFacts DEF Flow, TypedFlow
<1>2. ASSUME NEW q \in Seq(Samples \cup {End})
      PROVE  /\ Len(Append(q, x)) = Len(q) + 1 /\ Append(q, x)[Len(q) + 1] = x
             /\ \A i \in 1 .. Len(q) : Append(q, x)[i] = q[i]
             /\ Len(q) \in Nat
  OBVIOUS
<1> DEFINE Moved(d) ==
             /\ Len(mq') = Len(mq) + 1 - d /\ mq'[Len(mq')] = x
             /\ \A i \in 1 .. Len(mq') - 1 : i + d \in 1 .. Len(mq) /\ mq'[i] = mq[i + d]
<1>3. ASSUME Len(mq) >= MaxRequired PROVE \E d \in {0, 1} : Moved(d)
  <2>1. /\ Tail(mq) \in Seq(Samples \cup {End}) /\ Len(Tail(mq)) = Len(mq) - 1
        /\ \A i \in 1 .. Len(Tail(mq)) : Tail(mq)[i] = mq[i + 1]
    BY <1>1, <1>3
  <2>2. /\ Len(mq') = Len(Tail(mq)) + 1 /\ mq'[Len(mq')] = x
        /\ \A i \in 1 .. Len(Tail(mq)) : mq'[i] = Tail(mq)[i]
    BY <1>1, <1>2, <1>3, <2>1
  <2>3. Len(mq) \in Nat /\ 1 \in {0, 1}
    BY <1>1
  <2>4. \A i \in 1 .. Len(mq') - 1 : i + 1 \in 1 .. Len(mq) /\ mq'[i] = mq[i + 1]
    BY <2>1, <2>2, <2>3
  <2>5. Moved(1)
    BY <2>1, <2>2, <2>3, <2>4
  <2> HIDE DEF Moved
  <2> QED BY <2>3, <2>5
<1>4. ASSUME ~(Len(mq) >= MaxRequired) PROVE \E d \in {0, 1} : Moved(d)
  <2>1. Len(mq') = Len(mq) + 1 /\ mq'[Len(mq')] = x /\ \A i \in 1 .. Len(mq) : mq'[i] = mq[i]
    BY <1>1, <1>2, <1>4
  <2>2. Len(mq) \in Nat /\ 0 \in {0, 1}
    BY <1>1
  <2>3. \A i \in 1 .. Len(mq') - 1 : i + 0 \in 1 .. Len(mq) /\ mq'[i] = mq[i + 0]
    BY <2>1, <2>2
  <2>4. Moved(0)
    BY <2>1, <2>2, <2>3
  <2> HIDE DEF Moved
  <2> QED BY <2>2, <2>4
<1>5. \E d \in {0, 1} : Moved(d)
  BY <1>3, <1>4
<1> QED BY <1>5

LEMMA InTimeStep ==
  ASSUME Flow, Flow', Ending, Counting, ~Partial, ~TrainerEnded, ~TrainerEnded', Paced, Ages, InTime,
         [Next]_vars
  PROVE  InTime'
<1> USE DEF rollVars, flowVars, failVars, procVars, taskVars, queueVars, syncVars, trainVars
<1> DEFINE NextDue(s, k) ==
             /\ born'[s] # Unborn
             /\ k <= (born'[s] + 2) * (Required * Trigger) + MaxRequired + 2
           Put == Is(cons \in Samples)
<1>1. /\ Samples' = Samples /\ Required' = Required /\ Trigger' = Trigger
      /\ MaxRequired' = MaxRequired
      /\ mq \in Seq(Samples \cup {End}) /\ mq' \in Seq(Samples \cup {End})
      /\ result \in Seq(Samples) /\ batch \subseteq Samples /\ End \notin Samples
      /\ Nothing \notin Samples /\ Dead \notin Samples /\ cons \in Samples \cup {Nothing, Dead}
  <2>1. Dead \notin Samples
    BY Constants DEF Dead
  <2> QED BY <2>1, Constants, ConfigKept, SameConfig DEF Flow, TypedFlow
<1>2. /\ Cardinality(trained) \in Nat /\ Cardinality(batch) \in Nat /\ Seen \in Nat
      /\ Cardinality(trained) <= Seen /\ Late \in {0, 1}
      /\ Len(mq) \in Nat /\ Len(result) \in Nat /\ Put \in {0, 1}
  BY LagTypes
<1>3. ASSUME NEW s \in Samples, NEW k \in Int, NEW j \in Int, Due(s, k), j <= k, born'[s] = born[s]
      PROVE  NextDue(s, j)
  <2>1. born[s] # Unborn /\ k <= Latest(s) /\ Latest(s) \in Nat
    BY <1>3, LagTypes DEF Due
  <2>2. j <= Latest(s)
    BY <1>3, <2>1
  <2> QED BY <1>3, <2>1, <2>2 DEF Latest
<1> HIDE DEF NextDue, Put
<1>4. ASSUME \A s \in batch' : NextDue(s, Cardinality(trained') + 1 - Late'),
             \A i \in 1 .. Len(mq') : mq'[i] # End => NextDue(mq'[i], Seen' + i - Late'),
             cons' \in Samples => NextDue(cons', Seen' + Len(mq') + 1 - Late'),
             main' \in {"run", "join"} =>
               \A i \in 1 .. Len(result') : NextDue(result'[i], Seen' + Len(mq') + Put' + i)
      PROVE  InTime'
  BY <1>1, <1>4 DEF InTime, Due, Latest, NextDue, Put
\* What is due keeps its place if nothing moves.
<1>5. ASSUME \A s \in Samples : born[s] # Unborn => born'[s] = born[s]
      PROVE  /\ \A s \in batch : NextDue(s, Cardinality(trained) + 1 - Late)
             /\ \A i \in 1 .. Len(mq) : mq[i] # End => NextDue(mq[i], Seen + i - Late)
             /\ cons \in Samples => NextDue(cons, Seen + Len(mq) + 1 - Late)
             /\ main \in {"run", "join"} =>
                  \A i \in 1 .. Len(result) : NextDue(result[i], Seen + Len(mq) + Put + i)
  <2>1. ASSUME NEW s \in Samples, NEW k \in Int, Due(s, k) PROVE NextDue(s, k)
    BY <1>3, <1>5, <2>1 DEF Due
  <2>2. ASSUME NEW s \in batch PROVE NextDue(s, Cardinality(trained) + 1 - Late)
    <3>1. s \in Samples /\ Due(s, Cardinality(trained) + 1 - Late)
      BY <1>1 DEF InTime
    <3>2. Cardinality(trained) + 1 - Late \in Int
      BY <1>2
    <3> QED BY <2>1, <3>1, <3>2
  <2>3. ASSUME NEW i \in 1 .. Len(mq), mq[i] # End PROVE NextDue(mq[i], Seen + i - Late)
    <3>1. mq[i] \in Samples
      BY <1>1, <2>3
    <3>2. Due(mq[i], Seen + i - Late)
      BY <2>3 DEF InTime
    <3>3. Seen + i - Late \in Int
      BY <1>2
    <3> QED BY <2>1, <3>1, <3>2, <3>3
  <2>4. cons \in Samples => NextDue(cons, Seen + Len(mq) + 1 - Late)
    BY <1>2, <2>1 DEF InTime
  <2>5. ASSUME main \in {"run", "join"}, NEW i \in 1 .. Len(result)
        PROVE  NextDue(result[i], Seen + Len(mq) + Put + i)
    <3>1. result[i] \in Samples
      BY <1>1
    <3>2. Due(result[i], Seen + Len(mq) + Put + i)
      BY <2>5 DEF InTime, Put
    <3>3. Seen + Len(mq) + Put + i \in Int
      BY <1>2
    <3> QED BY <2>1, <3>1, <3>2, <3>3
  <2> QED BY <2>2, <2>3, <2>4, <2>5
<1>6. ASSUME UNCHANGED <<trained, mq, cons, result>>, batch' = batch,
             main' = "over" <=> main = "over",
             main' \in {"run", "join"} => main \in {"run", "join"},
             \A s \in Samples : born[s] # Unborn => born'[s] = born[s]
      PROVE  InTime'
  <2>1. /\ Seen' = Seen /\ Late' = Late /\ Put' = Put
    BY <1>1, <1>6 DEF Seen, Late, Put
  <2> QED BY <1>4, <1>5, <1>6, <2>1
<1>7. CASE Processor
  <2>1. CASE Submit
    <3>1. \A s \in Samples : born[s] # Unborn => born'[s] = born[s]
      BY <2>1, SubmitBorn
    <3> QED BY <1>6, <2>1, <3>1 DEF Submit
  <2> QED BY <1>6, <1>7, <2>1 DEF Processor, PauseSeen, SetPaused, TakeCancelled, Take, Continue,
          LoopEnds, AwaitTask, TasksGone, Reap, Sleep, Enqueue
<1>8. CASE Rollouter
  <2>1. ASSUME NEW s \in generating, Generated(s) PROVE InTime'
    <3>1. /\ born' = born /\ result' = Append(result, s) /\ s \in Samples
          /\ UNCHANGED <<mq, cons, batch, trained, main>>
      BY <2>1, GeneratedBorn DEF Generated, Flow, TypedFlow
    <3>2. Seen' = Seen /\ Late' = Late /\ Put' = Put
      BY <1>1, <3>1 DEF Seen, Late, Put
    <3>3. /\ \A r \in batch : NextDue(r, Cardinality(trained) + 1 - Late)
          /\ \A k \in 1 .. Len(mq) : mq[k] # End => NextDue(mq[k], Seen + k - Late)
          /\ cons \in Samples => NextDue(cons, Seen + Len(mq) + 1 - Late)
          /\ main \in {"run", "join"} =>
               \A k \in 1 .. Len(result) : NextDue(result[k], Seen + Len(mq) + Put + k)
      BY <1>5, <3>1
    <3>4. ASSUME main \in {"run", "join"}, NEW i \in 1 .. Len(result')
          PROVE  NextDue(result'[i], Seen + Len(mq) + Put + i)
      <4>1. CASE i <= Len(result)
        <5>1. /\ result'[i] = result[i] /\ result[i] \in Samples /\ i \in 1 .. Len(result)
          BY <1>1, <3>1, <3>4, <4>1
        <5> QED BY <3>3, <3>4, <5>1
      <4>2. CASE ~(i <= Len(result))
        <5>1. i = Len(result) + 1 /\ result'[i] = s
          BY <1>1, <1>2, <3>1, <3>4, <4>2
        <5>2. End \notin In(mq)
          BY <3>4 DEF Ending, EndSignal
        <5>3. Len(mq) + Put + Len(result) + 1 <= MaxRequired + 2
          BY <2>1, <5>2, Ahead DEF Put
        <5>4. Seen <= (weights + 1) * (Required * Trigger)
          BY SeenBound
        <5>5. born[s] # Unborn /\ born[s] \in Nat /\ weights \in Nat /\ weights <= born[s] + 1
          <6>1. born[s] # Unborn /\ born[s] >= weights - 1
            BY <2>1 DEF Ages
          <6>2. born[s] \in Nat \cup {Unborn} /\ weights \in Nat
            BY <3>1, LagTypes, Constants
          <6> QED BY <6>1, <6>2
        <5>6. weights + 1 \in Nat /\ born[s] + 2 \in Nat /\ weights + 1 <= born[s] + 2
          BY <5>5
        <5>7. Required * Trigger \in Nat /\ MaxRequired \in Nat
          BY LagTypes
        <5>8. (weights + 1) * (Required * Trigger) <= (born[s] + 2) * (Required * Trigger)
          BY <5>6, <5>7, Products
        <5>9. /\ (weights + 1) * (Required * Trigger) \in Nat
              /\ (born[s] + 2) * (Required * Trigger) \in Nat
          BY <5>6, <5>7, Multiples
        <5>10. Due(s, Seen + Len(mq) + Put + i)
          <6> DEFINE x == (weights + 1) * (Required * Trigger)
                     y == (born[s] + 2) * (Required * Trigger)
          <6>1. /\ Latest(s) = y + MaxRequired + 2 /\ Seen <= x /\ x <= y /\ x \in Nat /\ y \in Nat
            BY <5>4, <5>8, <5>9 DEF Latest
          <6> HIDE DEF x, y
          <6>2. Seen + Len(mq) + Put + i <= Latest(s)
            BY <1>2, <5>1, <5>3, <5>7, <6>1
          <6> QED BY <5>5, <6>2 DEF Due
        <5>11. NextDue(s, Seen + Len(mq) + Put + i)
          <6>1. Seen + Len(mq) + Put + i \in Int /\ born'[s] = born[s]
            BY <1>2, <3>1, <5>1
          <6> QED BY <1>3, <3>1, <5>10, <6>1
        <5> QED BY <5>1, <5>11
      <4> QED BY <4>1, <4>2
    <3> QED BY <1>4, <3>1, <3>2, <3>3, <3>4
  <2>2. CASE ConsumerTake \/ ConsumerRaises
    <3>1. /\ result # <<>> /\ result' = Tail(result) /\ cons = Nothing
          /\ cons' \in {Head(result), Dead} /\ main \in {"run", "join"}
          /\ UNCHANGED <<born, mq, batch, trained, main>>
      BY <2>2 DEF ConsumerTake, ConsumerRaises
    <3>2. Seen' = Seen /\ Late' = Late /\ Late = 0 /\ Put = 0 /\ Put' \in {0, 1}
      BY <1>1, <3>1 DEF Seen, Late, Put, Is
    <3>3. /\ \A r \in batch : NextDue(r, Cardinality(trained) + 1 - Late)
          /\ \A i \in 1 .. Len(mq) : mq[i] # End => NextDue(mq[i], Seen + i - Late)
      BY <1>5, <3>1
    <3>4. /\ Head(result) = result[1] /\ 1 \in 1 .. Len(result) /\ Len(Tail(result)) = Len(result) - 1
          /\ \A i \in 1 .. Len(Tail(result)) : Tail(result)[i] = result[i + 1]
          /\ \A i \in 1 .. Len(result) : result[i] \in Samples
      BY <1>1, <3>1
    <3>5. \A i \in 1 .. Len(result) : Due(result[i], Seen + Len(mq) + i)
      BY <1>2, <3>1, <3>2 DEF InTime, Put
    <3>6. cons' \in Samples => NextDue(cons', Seen + Len(mq) + 1 - Late)
      <4>1. NextDue(result[1], Seen + Len(mq) + 1)
        BY <1>2, <1>3, <3>1, <3>4, <3>5
      <4>2. Seen + Len(mq) + 1 - Late = Seen + Len(mq) + 1
        BY <1>2, <3>2
      <4> QED BY <1>1, <3>1, <3>4, <4>1, <4>2
    <3>7. ASSUME NEW i \in 1 .. Len(Tail(result))
          PROVE  NextDue(Tail(result)[i], Seen + Len(mq) + Put' + i)
      <4>1. i + 1 \in 1 .. Len(result) /\ Tail(result)[i] = result[i + 1] /\ i \in Int
        BY <1>2, <3>4
      <4>2. Due(result[i + 1], Seen + Len(mq) + (i + 1)) /\ result[i + 1] \in Samples
        BY <3>4, <3>5, <4>1
      <4>3. Seen + Len(mq) + Put' + i <= Seen + Len(mq) + (i + 1)
        BY <1>2, <3>2, <4>1
      <4>4. Seen + Len(mq) + Put' + i \in Int /\ Seen + Len(mq) + (i + 1) \in Int
        BY <1>2, <3>2, <4>1
      <4> QED BY <1>3, <3>1, <4>1, <4>2, <4>3, <4>4
    <3> QED BY <1>4, <3>1, <3>2, <3>3, <3>6, <3>7
  <2>3. CASE ConsumerPut
    <3>1. /\ cons \in Samples /\ PutIntoQueue(cons) /\ cons' = Nothing
          /\ UNCHANGED <<born, result, batch, trained, main>>
      BY <2>3 DEF ConsumerPut
    <3>2. Seen' = Seen /\ Late' = Late /\ Put = 1 /\ Put' = 0
      BY <1>1, <3>1 DEF Seen, Late, Put, Is
    <3>3. \A r \in batch : NextDue(r, Cardinality(trained) + 1 - Late)
      BY <1>5, <3>1
    <3>4. PICK d \in {0, 1} :
            /\ Len(mq') = Len(mq) + 1 - d /\ mq'[Len(mq')] = cons
            /\ \A i \in 1 .. Len(mq') - 1 : i + d \in 1 .. Len(mq) /\ mq'[i] = mq[i + d]
      BY <1>1, <3>1, Shifted
    <3>5. ASSUME NEW i \in 1 .. Len(mq'), mq'[i] # End PROVE NextDue(mq'[i], Seen + i - Late)
      <4>1. CASE i = Len(mq')
        <5>1. Due(cons, Seen + Len(mq) + 1 - Late) /\ mq'[i] = cons
          BY <3>1, <3>4, <4>1 DEF InTime
        <5>2. Seen + i - Late <= Seen + Len(mq) + 1 - Late /\ Seen + i - Late \in Int
          BY <1>2, <3>4, <4>1
        <5> QED BY <1>2, <1>3, <3>1, <5>1, <5>2
      <4>2. CASE i # Len(mq')
        <5>1. i + d \in 1 .. Len(mq) /\ mq'[i] = mq[i + d] /\ i \in Int
          BY <1>2, <3>4, <4>2
        <5>2. Due(mq[i + d], Seen + (i + d) - Late)
          BY <3>5, <5>1 DEF InTime
        <5>3. /\ Seen + i - Late <= Seen + (i + d) - Late
              /\ Seen + i - Late \in Int /\ Seen + (i + d) - Late \in Int
          BY <1>2, <5>1
        <5>4. mq[i + d] \in Samples /\ born'[mq[i + d]] = born[mq[i + d]]
          BY <1>1, <3>1, <3>5, <5>1
        <5>5. NextDue(mq[i + d], Seen + i - Late)
          BY <1>3, <5>2, <5>3, <5>4
        <5> QED BY <5>1, <5>5
      <4> QED BY <4>1, <4>2
    <3>6. ASSUME main \in {"run", "join"}, NEW i \in 1 .. Len(result)
          PROVE  NextDue(result[i], Seen + Len(mq') + Put' + i)
      <4>1. Due(result[i], Seen + Len(mq) + Put + i) /\ result[i] \in Samples
        BY <1>1, <3>6 DEF InTime, Put
      <4>2. /\ Seen + Len(mq') + Put' + i <= Seen + Len(mq) + Put + i
            /\ Seen + Len(mq') + Put' + i \in Int /\ Seen + Len(mq) + Put + i \in Int
        BY <1>2, <3>2, <3>4
      <4> QED BY <1>3, <3>1, <4>1, <4>2
    <3> QED BY <1>1, <1>4, <3>1, <3>2, <3>3, <3>5, <3>6
  <2>4. CASE SendFinish
    <3>1. /\ PutIntoQueue(End) /\ main = "finish" /\ main' = "over"
          /\ UNCHANGED <<born, result, batch, trained, cons>>
      BY <2>4 DEF SendFinish
    <3>2. Seen' = Seen /\ Late = 0 /\ Late' = 1
      BY <1>1, <3>1 DEF Seen, Late, Is
    <3>3. ASSUME NEW r \in batch PROVE NextDue(r, Cardinality(trained) + 1 - Late')
      <4>1. Due(r, Cardinality(trained) + 1 - Late) /\ r \in Samples
        BY <1>1 DEF InTime
      <4>2. /\ Cardinality(trained) + 1 - Late' <= Cardinality(trained) + 1 - Late
            /\ Cardinality(trained) + 1 - Late' \in Int /\ Cardinality(trained) + 1 - Late \in Int
        BY <1>2, <3>2
      <4> QED BY <1>3, <3>1, <4>1, <4>2
    <3>4. PICK d \in {0, 1} :
            /\ Len(mq') = Len(mq) + 1 - d /\ mq'[Len(mq')] = End
            /\ \A i \in 1 .. Len(mq') - 1 : i + d \in 1 .. Len(mq) /\ mq'[i] = mq[i + d]
      BY <1>1, <3>1, Shifted
    <3>5. ASSUME NEW i \in 1 .. Len(mq'), mq'[i] # End PROVE NextDue(mq'[i], Seen + i - Late')
      <4>1. i + d \in 1 .. Len(mq) /\ mq'[i] = mq[i + d] /\ i \in Int
        BY <1>2, <3>4, <3>5
      <4>2. Due(mq[i + d], Seen + (i + d) - Late)
        BY <3>5, <4>1 DEF InTime
      <4>3. /\ Seen + i - Late' <= Seen + (i + d) - Late
            /\ Seen + i - Late' \in Int /\ Seen + (i + d) - Late \in Int
        BY <1>2, <3>2, <4>1
      <4>4. mq[i + d] \in Samples /\ born'[mq[i + d]] = born[mq[i + d]]
        BY <1>1, <3>1, <3>5, <4>1
      <4>5. NextDue(mq[i + d], Seen + i - Late')
        BY <1>3, <4>2, <4>3, <4>4
      <4> QED BY <4>1, <4>5
    <3>6. ASSUME cons \in Samples PROVE NextDue(cons, Seen + Len(mq') + 1 - Late')
      <4>1. Due(cons, Seen + Len(mq) + 1 - Late)
        BY <3>6 DEF InTime
      <4>2. /\ Seen + Len(mq') + 1 - Late' <= Seen + Len(mq) + 1 - Late
            /\ Seen + Len(mq') + 1 - Late' \in Int /\ Seen + Len(mq) + 1 - Late \in Int
        BY <1>2, <3>2, <3>4
      <4> QED BY <1>3, <3>1, <3>6, <4>1, <4>2
    <3> QED BY <1>4, <3>1, <3>2, <3>3, <3>5, <3>6
  <2> QED BY <1>6, <1>8, <2>1, <2>2, <2>3, <2>4 DEF Rollouter, MonitorLook,
       MonitorPass, MonitorResume, MonitorTurn,
          StreamingEnds, ResultsJoined, Interrupted, GenerationRaises
<1>9. CASE Collect
  <2>1. /\ mq # <<>> /\ Head(mq) # End /\ mq' = Tail(mq) /\ batch' = batch \cup {Head(mq)}
        /\ UNCHANGED <<born, result, trained, cons, main>>
    BY <1>9 DEF Collect
  <2>2. /\ Head(mq) = mq[1] /\ mq[1] \in Samples /\ mq[1] \in In(mq) /\ Len(mq) > 0
        /\ Len(mq') = Len(mq) - 1 /\ \A i \in 1 .. Len(mq') : mq'[i] = mq[i + 1]
    BY <1>1, <2>1 DEF In
  <2>3. Seen' = Seen + 1 /\ Late' = Late /\ Put' = Put
    <3>1. mq[1] \notin batch /\ IsFiniteSet(batch)
      BY <1>1, <2>2, Untrained, SamplesFinite DEF Flow
    <3>2. Cardinality(batch') = Cardinality(batch) + 1
      BY <2>1, <2>2, <3>1, FS_AddElement
    <3> QED BY <1>1, <1>2, <2>1, <3>2 DEF Seen, Late, Put
  <2>4. ASSUME NEW r \in batch' PROVE NextDue(r, Cardinality(trained) + 1 - Late)
    <3>1. CASE r \in batch
      BY <1>1, <1>2, <1>3, <2>1, <3>1 DEF InTime
    <3>2. CASE r \notin batch
      <4>1. r = mq[1] /\ 1 \in 1 .. Len(mq) /\ Due(mq[1], Seen + 1 - Late)
        BY <1>1, <1>2, <2>1, <2>2, <2>4, <3>2 DEF InTime
      <4>2. /\ Cardinality(trained) + 1 - Late <= Seen + 1 - Late
            /\ Cardinality(trained) + 1 - Late \in Int /\ Seen + 1 - Late \in Int
        BY <1>2
      <4> QED BY <1>3, <2>1, <2>2, <4>1, <4>2
    <3> QED BY <3>1, <3>2
  <2>5. ASSUME NEW i \in 1 .. Len(mq'), mq'[i] # End PROVE NextDue(mq'[i], Seen' + i - Late)
    <3>1. i + 1 \in 1 .. Len(mq) /\ mq'[i] = mq[i + 1] /\ i \in Int
      BY <1>2, <2>2
    <3>2. Due(mq[i + 1], Seen + (i + 1) - Late)
      BY <2>5, <3>1 DEF InTime
    <3>3. Seen' + i - Late = Seen + (i + 1) - Late /\ Seen + (i + 1) - Late \in Int
      BY <1>2, <2>3, <3>1
    <3>4. mq[i + 1] \in Samples /\ born'[mq[i + 1]] = born[mq[i + 1]]
      BY <1>1, <2>1, <2>5, <3>1
    <3>5. NextDue(mq[i + 1], Seen' + i - Late)
      BY <1>3, <3>2, <3>3, <3>4
    <3> QED BY <3>1, <3>5
  <2>6. cons \in Samples => NextDue(cons, Seen' + Len(mq') + 1 - Late)
    <3>1. Seen' + Len(mq') + 1 - Late = Seen + Len(mq) + 1 - Late /\ Seen + Len(mq) + 1 - Late \in Int
      BY <1>2, <2>2, <2>3
    <3> QED BY <1>3, <2>1, <3>1 DEF InTime
  <2>7. ASSUME main \in {"run", "join"}, NEW i \in 1 .. Len(result)
        PROVE  NextDue(result[i], Seen' + Len(mq') + Put + i)
    <3>1. Due(result[i], Seen + Len(mq) + Put + i) /\ result[i] \in Samples
      BY <1>1, <2>7 DEF InTime, Put
    <3>2. /\ Seen' + Len(mq') + Put + i = Seen + Len(mq) + Put + i
          /\ Seen + Len(mq) + Put + i \in Int
      BY <1>2, <2>2, <2>3
    <3> QED BY <1>3, <2>1, <3>1, <3>2
  <2> QED BY <1>4, <2>1, <2>3, <2>4, <2>5, <2>6, <2>7
<1>10. CASE Synchronizer
  BY <1>6, <1>10 DEF Synchronizer, Pause, PauseDone, SyncWeights, CountLocal, CountQueue, Resume,
     AskLock
<1>11. CASE Train
  <2>1. /\ batch' = {} /\ trained' = trained \cup batch
        /\ UNCHANGED <<born, result, mq, cons, main>>
    BY <1>11 DEF Train
  <2>2. Seen' = Seen /\ Late' = Late /\ Put' = Put
    <3>1. IsFiniteSet(batch) /\ IsFiniteSet(trained) /\ trained \cap batch = {}
      BY <1>1, Untrained, SamplesFinite DEF Flow, TypedFlow
    <3>2. Cardinality(trained') = Cardinality(trained) + Cardinality(batch)
      BY <2>1, <3>1, DisjointUnion
    <3>3. Cardinality(batch') = 0
      BY <2>1, FS_EmptySet
    <3> QED BY <1>1, <1>2, <2>1, <3>2, <3>3 DEF Seen, Late, Put
  <2>3. /\ \A i \in 1 .. Len(mq) : mq[i] # End => NextDue(mq[i], Seen + i - Late)
        /\ cons \in Samples => NextDue(cons, Seen + Len(mq) + 1 - Late)
        /\ main \in {"run", "join"} =>
             \A i \in 1 .. Len(result) : NextDue(result[i], Seen + Len(mq) + Put + i)
    BY <1>5, <2>1
  <2> QED BY <1>4, <2>1, <2>2, <2>3
<1>12. CASE StartSync \/ ReadValidation
  BY <1>6, <1>12 DEF StartSync, ReadValidation
<1>13. CASE CollectEnd \/ EndTraining \/ ReadLastValidation
  BY <1>13 DEF CollectEnd, EndTraining, ReadLastValidation, TrainerEnded
<1>14. CASE UNCHANGED vars
  BY <1>6, <1>14 DEF vars
<1> QED BY <1>7, <1>8, <1>9, <1>10, <1>11, <1>12, <1>13, <1>14 DEF Next, Over, Trainer

-----------------------------------------------------------------------------

LEMMA LagInit == Init => LagInv
<1> SUFFICES ASSUME Init PROVE Paced /\ Ages /\ InTime
  BY DEF LagInv
<1>1. Flow
  BY FlowInit
<1>2. Required \in Nat \ {0} /\ Trigger \in Nat /\ Samples = 1 .. Total
  BY <1>1, Constants
<1>3. Cardinality({}) = 0 /\ (0 * Trigger + 1 - 1) * Required = 0
  BY <1>2, FS_EmptySet
<1>4. Paced
  BY <1>2, <1>3 DEF Init, Paced
<1>5. Ages
  BY DEF Init, Ages
<1>6. InTime
  BY <1>2 DEF Init, InTime, Nothing
<1> QED BY <1>4, <1>5, <1>6

LEMMA LagAlways == Spec => []LagInv
<1>1. Flow /\ Flow' /\ Ending /\ Counting /\ LagInv /\ [Next]_vars => LagInv'
  <2> SUFFICES ASSUME Flow, Flow', Ending, Counting, LagInv, [Next]_vars, ~Partial', ~TrainerEnded'
               PROVE  Paced' /\ Ages' /\ InTime'
    BY DEF LagInv
  <2>1. ~Partial /\ ~TrainerEnded
    BY ConfigKept, SameConfig, EndedForGood
  <2>2. Paced /\ Ages /\ InTime
    BY <2>1 DEF LagInv
  <2> QED BY <2>1, <2>2, PacedStep, AgesStep, InTimeStep
<1>2. Spec => []Counting
  BY CountingInit, CountingStep, FlowAlways, PTL DEF Spec
<1> QED BY <1>1, <1>2, LagInit, FlowAlways, EndingAlways, PTL DEF Spec

(* For every staleness_threshold, without partial rollout: what is trained was generated by *)
(* weights at most two versions and one filled queue old, however pauses, resets of         *)
(* staleness_samples, failures and the end of the data interleave.                          *)
THEOREM ThresholdBoundsLag == Spec => []VersionLag
<1>1. Flow /\ LagInv => VersionLag
  <2> SUFFICES ASSUME Flow, LagInv, ~Partial, trainer = "train", NEW s \in batch
               PROVE  /\ born[s] # Unborn
                      /\ (current_param_version - born[s] - 2) * (Required * Trigger) <= MaxRequired + 2
    BY DEF VersionLag
  <2> DEFINE c == current_param_version
             p == Required * Trigger
             b == born[s]
  <2>1. Paced /\ InTime
    BY DEF LagInv, TrainerEnded
  <2>2. b # Unborn /\ Cardinality(trained) + 1 - Late <= Latest(s)
    BY <2>1 DEF InTime, Due
  <2>3. c * p <= Cardinality(trained)
    BY <2>1, SeenBound
  <2>4. /\ b \in Nat /\ c \in Nat /\ p \in Nat /\ Late \in {0, 1} /\ Cardinality(trained) \in Nat
        /\ MaxRequired \in Nat
    BY <2>2, LagTypes, Constants DEF Flow, TypedFlow
  <2>5. (c - b - 2) * p = c * p - (b + 2) * p
    BY <2>4, Products
  <2>6. Latest(s) = (b + 2) * p + MaxRequired + 2
    BY DEF Latest
  <2>7. c * p \in Nat /\ (b + 2) * p \in Nat
    <3>1. b + 2 \in Nat
      BY <2>4
    <3> QED BY <2>4, <3>1, Multiples
  <2>8. c * p - (b + 2) * p <= MaxRequired + 2
    <3> DEFINE x == c * p
               y == (b + 2) * p
    <3>1. x \in Nat /\ y \in Nat /\ x <= Cardinality(trained)
          /\ Cardinality(trained) + 1 - Late <= y + MaxRequired + 2
      BY <2>2, <2>3, <2>6, <2>7
    <3> HIDE DEF x, y
    <3>2. x - y <= MaxRequired + 2
      BY <2>4, <3>1
    <3> QED BY <3>2 DEF x, y
  <2> QED BY <2>2, <2>5, <2>8
<1> QED BY <1>1, FlowAlways, LagAlways, PTL

-----------------------------------------------------------------------------
(* The promise of BoundedStaleness. *)

Ended   == trainer \in {"last_wait", "last_sync", "last_read", "done"}
Issued  == IF taken > Total THEN Total ELSE taken
GivenUp == (dropped \cup lost) \ {End}

\* BoundedStaleness counts with the same Cardinality.
LEMMA SameCardinality == \A S : Stream!Cardinality(S) = Cardinality(S)
BY DEF Stream!Cardinality, Cardinality

\* What EverySampleOnce says of a sample at rest, and of one that leaves the pipeline.
LEMMA OneStage ==
  ASSUME Flow, NEW s \in Samples
  PROVE  /\ s \in batch \/ s \in trained \/ s \in dropped \/ s \in lost => s <= taken
         /\ (s \in generating \/ s \in In(result) \/ s = cons \/ s \in In(mq)) => s \in InFlight
<1> DEFINE R == Occurs(s, result)
           C == Occurs(s, cancel)
           Q == Occurs(s, mq)
<1>1. R \in Nat /\ C \in Nat /\ Q \in Nat
  BY OccursPlaces DEF Flow, TypedFlow
<1>2. /\ s \in In(result) <=> R > 0
      /\ s \in In(mq) <=> Q > 0
  BY InQueue DEF Flow, TypedFlow
<1>3. Is(s = hand) + Is(s \in generating) + R + C + Is(s = cons) + Q + Is(s \in batch)
        + Is(s \in trained) + Is(s \in dropped) + Is(s \in lost) = Is(s <= taken)
  BY DEF Flow, EverySampleOnce
<1> HIDE DEF R, C, Q
<1>4. s \in batch \/ s \in trained \/ s \in dropped \/ s \in lost => s <= taken
  BY <1>1, <1>3 DEF Is
<1>5. s \in generating \/ R > 0 \/ s = cons \/ Q > 0
        => s <= taken /\ s \notin batch /\ s \notin trained /\ s \notin dropped /\ s \notin lost
  BY <1>1, <1>3 DEF Is
<1>6. (s \in generating \/ s \in In(result) \/ s = cons \/ s \in In(mq)) => s \in InFlight
  BY <1>2, <1>5 DEF InFlight
<1> QED BY <1>4, <1>6

\* Until the end of the data the trainer's batch grows to its size and is trained.
Batches == ~TrainerEnded => Paced

LEMMA PacedInit == Init => Paced
<1> SUFFICES ASSUME Init PROVE Paced
  OBVIOUS
<1>1. Required \in Nat \ {0} /\ Trigger \in Nat \ {0}
  BY ConfigFacts DEF Init, Required, Trigger
<1>2. (0 * Trigger + 1 - 1) * Required = 0
  BY <1>1
<1> QED BY <1>1, <1>2, FS_EmptySet DEF Init, Paced

LEMMA BatchesAlways == Spec => []Batches
<1>1. Init => Batches
  BY PacedInit DEF Batches
<1>2. Flow /\ Ending /\ Batches /\ [Next]_vars => Batches'
  BY PacedStep, EndedForGood DEF Batches
<1> QED BY <1>1, <1>2, FlowAlways, EndingAlways, PTL DEF Spec

\* A step that neither takes, drops, loses nor trains is invisible.
LEMMA Invisible ==
  ASSUME config' = config,
         UNCHANGED <<taken, batch, trained, dropped, lost,
                     current_param_version, local_trigger_step>>,
         Ended' = Ended
  PROVE  UNCHANGED Stream!streamVars
<1>1. /\ Total' = Total /\ Required' = Required /\ Trigger' = Trigger
      /\ MaxRequired' = MaxRequired /\ Samples' = Samples
  BY SameConfig
<1>2. InFlight' = InFlight
  BY <1>1 DEF InFlight
<1> QED BY <1>1, <1>2 DEF Ended, Stream!streamVars

\* A sample in flight that is dropped or lost is given up.
LEMMA Abandon ==
  ASSUME Flow, config' = config, NEW s \in InFlight,
         UNCHANGED <<taken, batch, trained, trainer, current_param_version, local_trigger_step>>,
         dropped' \cup lost' = dropped \cup lost \cup {s}
  PROVE  Stream!Advance
<1>1. /\ Total' = Total /\ Required' = Required /\ Trigger' = Trigger
      /\ MaxRequired' = MaxRequired /\ Samples' = Samples
  BY SameConfig
<1>2. InFlight' = InFlight \ {s}
  BY <1>1 DEF InFlight
<1>3. s # End
  BY Constants DEF InFlight
<1>4. GivenUp' = GivenUp \cup {s}
  BY <1>3 DEF GivenUp
<1>5. Stream!GiveUp(s)
  BY <1>1, <1>2, <1>4 DEF Stream!GiveUp, GivenUp
<1> QED BY <1>5 DEF Stream!Advance

\* The next sample is issued within the window.
LEMMA TakeIssues ==
  ASSUME Flow, Counting', config' = config, Take
  PROVE  [Stream!Advance]_(Stream!streamVars)
<1>1. /\ Total' = Total /\ Required' = Required /\ Trigger' = Trigger
      /\ MaxRequired' = MaxRequired /\ Samples' = Samples
      /\ Total \in Nat \ {0} /\ MaxRequired \in Nat /\ Samples = 1 .. Total
      /\ taken \in Nat /\ taken <= Total
  BY SameConfig, Constants DEF Take, At, Flow, HandFits
<1>2. /\ taken' = taken + 1
      /\ UNCHANGED <<batch, trained, dropped, lost, trainer,
                     current_param_version, local_trigger_step>>
  BY DEF Take, failVars, queueVars, trainVars
<1>3. CASE taken = Total
  <2>1. InFlight' = InFlight
    BY <1>1, <1>2, <1>3 DEF InFlight
  <2> QED BY <1>1, <1>2, <1>3, <2>1 DEF Stream!streamVars
<1>4. CASE taken < Total
  <2>1. taken + 1 \in Samples
    BY <1>1, <1>4
  <2>2. InFlight' = InFlight \cup {taken + 1} /\ taken + 1 \notin InFlight
    <3>1. taken + 1 \notin batch \cup trained \cup dropped \cup lost
      BY <1>1, <2>1, OneStage
    <3> QED BY <1>1, <1>2, <2>1, <3>1 DEF InFlight
  <2>3. IsFiniteSet(InFlight) /\ Cardinality(InFlight) \in Nat
    BY InFlightFinite DEF Flow
  <2>4. Cardinality(InFlight') = Cardinality(InFlight) + 1
    BY <2>2, <2>3, FS_AddElement
  <2>5. Cardinality(InFlight) < MaxRequired + 2
    BY <1>1, <2>3, <2>4 DEF Counting, InFlightBounded
  <2>6. Stream!Issue
    BY <1>1, <1>2, <1>4, <2>2, <2>5, SameCardinality DEF Stream!Issue
  <2> QED BY <2>6 DEF Stream!Advance
<1> QED BY <1>1, <1>3, <1>4

\* A put drops the oldest sample of a full queue, or nothing.
LEMMA PutGivesUp ==
  ASSUME Flow, config' = config, NEW x \in Samples \cup {End}, PutIntoQueue(x),
         UNCHANGED <<taken, batch, trained, lost, trainer,
                     current_param_version, local_trigger_step>>
  PROVE  [Stream!Advance]_(Stream!streamVars)
<1>1. /\ Total' = Total /\ Required' = Required /\ Trigger' = Trigger
      /\ MaxRequired' = MaxRequired /\ Samples' = Samples
      /\ End \notin Samples
  BY SameConfig, Constants
<1>2. CASE Len(mq) >= MaxRequired /\ Head(mq) # End
  <2>1. Head(mq) \in In(mq) /\ Head(mq) \in Samples
    <3>1. mq # <<>> /\ mq \in Seq(Samples \cup {End})
      BY <1>2, PutIntoFacts DEF Flow, TypedFlow
    <3> QED BY <1>2, <3>1, InSteps
  <2>2. Head(mq) \in InFlight
    BY <2>1, OneStage
  <2>3. dropped' \cup lost' = dropped \cup lost \cup {Head(mq)}
    BY <1>2 DEF PutIntoQueue
  <2> QED BY <2>2, <2>3, Abandon
<1>3. CASE ~(Len(mq) >= MaxRequired /\ Head(mq) # End)
  <2>1. dropped' \subseteq dropped \cup {End} /\ dropped \subseteq dropped'
    BY <1>3 DEF PutIntoQueue
  <2>2. InFlight' = InFlight
    BY <1>1, <2>1 DEF InFlight
  <2>3. GivenUp' = GivenUp
    BY <2>1 DEF GivenUp
  <2> QED BY <1>1, <2>2, <2>3 DEF Stream!streamVars, GivenUp
<1> QED BY <1>2, <1>3

LEMMA StreamStart == Init => Stream!Start
<1> SUFFICES ASSUME Init PROVE Stream!Start
  OBVIOUS
<1>1. /\ Total \in Nat \ {0} /\ Required \in Nat \ {0} /\ Trigger \in Nat \ {0}
      /\ MaxRequired \in Nat
  BY ConfigFacts, MaxRequiredFacts DEF Init, Total, Required, Trigger, MaxRequired
<1>2. InFlight = {}
  BY <1>1 DEF Init, InFlight, Samples
<1> QED BY <1>1, <1>2 DEF Init, Stream!Start

LEMMA StreamStep ==
  ASSUME Flow, Counting', Ending, Batches, [Next]_vars
  PROVE  [Stream!Advance]_(Stream!streamVars)
<1> USE DEF rollVars, flowVars, failVars, procVars, taskVars, queueVars, syncVars, trainVars
<1>1. /\ config' = config /\ Total' = Total /\ Required' = Required /\ Trigger' = Trigger
      /\ MaxRequired' = MaxRequired /\ Samples' = Samples
  BY ConfigKept, SameConfig
<1>2. CASE Processor
  <2>1. ASSUME ~Take
        PROVE  UNCHANGED <<taken, batch, trained, dropped, lost, trainer,
                           current_param_version, local_trigger_step>>
    BY <1>2, <2>1 DEF Processor, PauseSeen, SetPaused, TakeCancelled, Continue, Submit,
       LoopEnds, AwaitTask, TasksGone, Reap, Sleep, Enqueue
  <2> QED BY <1>1, <2>1, TakeIssues, Invisible DEF Ended
<1>3. CASE Rollouter
  <2>1. ASSUME NEW s \in generating, GenerationRaises(s) PROVE Stream!Advance
    <3>1. s \in InFlight
      BY OneStage DEF Flow, TypedFlow
    <3> QED BY <1>1, <2>1, <3>1, Abandon DEF GenerationRaises
  <2>2. ASSUME ConsumerRaises PROVE Stream!Advance
    <3>1. result # <<>> /\ result \in Seq(Samples)
      BY <2>2 DEF ConsumerRaises, Flow, TypedFlow
    <3>2. Head(result) \in In(result) /\ Head(result) \in Samples
      BY <3>1, InSteps
    <3>3. Head(result) \in InFlight
      BY <3>2, OneStage
    <3> QED BY <1>1, <2>2, <3>3, Abandon DEF ConsumerRaises
  <2>3. ASSUME ConsumerPut PROVE [Stream!Advance]_(Stream!streamVars)
    BY <1>1, <2>3, PutGivesUp DEF ConsumerPut
  <2>4. ASSUME SendFinish PROVE [Stream!Advance]_(Stream!streamVars)
    BY <1>1, <2>4, PutGivesUp DEF SendFinish
  <2>5. ASSUME ConsumerTake \/ MonitorLook \/ MonitorPass \/ MonitorResume \/ MonitorTurn
            \/ StreamingEnds \/ ResultsJoined
               \/ \E s \in generating : Generated(s) \/ Interrupted(s)
        PROVE  UNCHANGED Stream!streamVars
    <3>1. UNCHANGED <<taken, batch, trained, dropped, lost, trainer,
                      current_param_version, local_trigger_step>>
      BY <2>5 DEF ConsumerTake, MonitorLook,
           MonitorPass, MonitorResume, MonitorTurn, StreamingEnds, ResultsJoined,
         Generated, Interrupted
    <3> QED BY <1>1, <3>1, Invisible DEF Ended
  <2> QED BY <1>3, <2>1, <2>2, <2>3, <2>4, <2>5 DEF Rollouter
<1>4. CASE Synchronizer
  <2>1. /\ UNCHANGED <<taken, batch, trained, dropped, lost,
                       current_param_version, local_trigger_step>>
        /\ SyncWeights \/ trainer' = trainer
    BY <1>4 DEF Synchronizer, Pause, PauseDone, SyncWeights, CountLocal, CountQueue, Resume, AskLock
  <2>2. SyncWeights => Ended' = Ended
    BY DEF SyncWeights, Ending, Handover, Ended
  <2>3. Ended' = Ended
    BY <2>1, <2>2 DEF Ended
  <2> QED BY <1>1, <2>1, <2>3, Invisible
<1>5. CASE Collect
  <2>1. Head(mq) \in Samples \cap InFlight
    <3>1. mq \in Seq(Samples \cup {End}) /\ mq # <<>> /\ Head(mq) # End
      BY <1>5 DEF Collect, Flow, TypedFlow
    <3>2. Head(mq) \in In(mq) /\ In(mq) \subseteq Samples \cup {End}
      BY <3>1, InSteps
    <3> QED BY <3>1, <3>2, OneStage
  <2>2. InFlight' = InFlight \ {Head(mq)}
    BY <1>1, <1>5 DEF Collect, InFlight
  <2>3. Cardinality(batch) < Required
    BY <1>5 DEF Collect, Batches, TrainerEnded, Paced
  <2>4. Stream!Collect(Head(mq))
    BY <1>1, <1>5, <2>1, <2>2, <2>3, SameCardinality DEF Collect, Stream!Collect
  <2> QED BY <2>1, <2>4 DEF Stream!Advance
<1>6. CASE Train
  <2>1. Cardinality(batch) = Required
    BY <1>6 DEF Train, Batches, TrainerEnded, Paced
  <2>2. InFlight' = InFlight
    BY <1>1, <1>6 DEF Train, InFlight
  <2>3. Stream!Train
    BY <1>1, <1>6, <2>1, <2>2, SameCardinality DEF Train, Stream!Train
  <2> QED BY <2>3 DEF Stream!Advance
<1>7. CASE EndTraining
  <2>1. InFlight' = InFlight
    BY <1>1, <1>7 DEF EndTraining, InFlight
  <2>2. Stream!Leave
    BY <1>1, <1>7, <2>1 DEF EndTraining, Stream!Leave
  <2> QED BY <2>2 DEF Stream!Advance
<1>8. CASE CollectEnd \/ StartSync \/ ReadValidation \/ ReadLastValidation
  <2>1. /\ UNCHANGED <<taken, batch, trained, dropped, lost,
                       current_param_version, local_trigger_step>>
        /\ Ended' = Ended
    BY <1>8 DEF CollectEnd, StartSync, ReadValidation, ReadLastValidation, Ended
  <2> QED BY <1>1, <2>1, Invisible
<1>9. CASE UNCHANGED vars
  <2>1. UNCHANGED <<taken, batch, trained, dropped, lost, trainer,
                    current_param_version, local_trigger_step>>
    BY <1>9 DEF vars
  <2> QED BY <1>1, <2>1, Invisible DEF Ended
<1> QED BY <1>2, <1>3, <1>4, <1>5, <1>6, <1>7, <1>8, <1>9 DEF Next, Over, Trainer

(* The fully asynchronous policy, seen from its samples, is a stream with a window: whatever *)
(* pauses, cut generations, full queues and exceptions do, a step issues the next sample     *)
(* within the window, gives one in flight up, moves one into the batch, trains a whole batch *)
(* and counts it in the version, leaves the loop, or is invisible.                           *)
THEOREM AsyncIsBoundedStaleness == Spec => IsBoundedStaleness
<1>1. Spec => []Counting
  BY CountingInit, CountingStep, FlowAlways, PTL DEF Spec
<1>2. Flow /\ Counting' /\ Ending /\ Batches /\ [Next]_vars => [Stream!Advance]_(Stream!streamVars)
  BY StreamStep
<1> QED BY <1>1, <1>2, StreamStart, FlowAlways, EndingAlways, BatchesAlways, PTL
        DEF Spec, IsBoundedStaleness, Stream!Promise
=============================================================================
