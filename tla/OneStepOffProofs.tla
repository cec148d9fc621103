-------------------------- MODULE OneStepOffProofs --------------------------
(* The one-step-off recipe for any data, any frequencies and any number of kills and of
   exceptions of the dataloader.

   A generation queued or done holds weights at most one step old: they were
   copied when it was launched, after all updates then made (Launched), and at
   most one update was made since.  The queue of the rollout workers never holds
   a copy of the weights behind a generation (CallsAt), so that the copy a
   generation uses is the one its launch waited for.  Inv says so; Rows, Ahead and
   Streamed, and Recent build on it. *)
EXTENDS OneStepOff, TLAPS

\* What the other parts need to know of the values.
Typed ==
    /\ setup \in Setups
    /\ pc \in {"launch", "first_validation", "first_draw", "next_draw", "first_launch",
               "next_launch", "get", "balance", "reward", "update", "validating",
               "save", "over"}
    /\ global_steps \in Nat
    /\ trained \in Seq(Nat)
    /\ disk \in [step : Nat, trained : Seq(Nat), drawn : Nat, pos : 0 .. setup.batches]
    /\ disk.step = Len(disk.trained)
    /\ loader \in [drawn : Nat, pos : 0 .. setup.batches, epoch : 0 .. setup.epochs]
    /\ pc # "launch" => loader.epoch > 0
    /\ future \in [batch : Nat, weights : Nat \cup {Pending}]
    /\ current \in [batch : Nat, weights : Nat \cup {Pending},
                    rows : {"generated", "balanced"},
                    scores : {"none", "generated", "balanced"}]
    /\ synced \in 0 .. Len(trained)

\* The weights have one update for each step that is over.
Counted ==
    /\ pc \in {"first_validation", "validating", "save"} => Len(trained) = global_steps
    /\ pc \in {"first_draw", "next_draw", "first_launch", "next_launch", "get",
               "balance", "reward", "update"} => Len(trained) = global_steps - 1

Generates == calls # <<>> /\ Head(calls) = "generate"

\* What the queue of the rollout workers holds at each statement of fit.
CallsAt ==
    /\ pc \in {"launch", "first_draw", "next_draw"} => calls = <<>>
    /\ pc = "first_validation" => calls \in {<<>>, <<"validate">>}
    /\ pc \in {"first_launch", "next_launch"} =>
         /\ calls \in {<<>>, <<"sync">>}
         /\ calls = <<>> => synced = Len(trained)
    /\ pc \in {"get", "balance", "reward", "update", "save", "over"} =>
         calls \in {<<>>, <<"generate">>}
    /\ pc = "validating" =>
         /\ calls \in Seq({"generate", "validate"})
         /\ \A i \in 2 .. Len(calls) : calls[i] = "validate"
    /\ pc \in {"first_launch", "next_launch"} => future.weights = Pending
    /\ Generates => future.weights = Pending

\* The future holds, or is going to hold, weights of k steps or more.
Launched(k) ==
    IF future.weights = Pending THEN Generates => synced >= k
    ELSE future.weights \in k .. Len(trained)

Behind ==
    /\ pc \in {"next_draw", "next_launch", "balance", "reward", "update"} =>
         current.weights \in Nat /\ current.weights \in Len(trained) - 1 .. Len(trained)
    /\ pc \in {"balance", "reward", "update"} /\ ~IsLastStep => Launched(Len(trained))
    /\ pc \in {"validating", "save"} /\ ~IsLastStep => Launched(Len(trained) - 1)
    /\ pc = "get" => Launched(Len(trained) - 1)

Inv == Typed /\ Counted /\ CallsAt /\ Behind

-----------------------------------------------------------------------------

LEMMA SetupType == Typed => /\ setup \in Setup
                            /\ setup.batches \in Nat \ {0} /\ setup.epochs \in Nat \ {0}
                            /\ setup.warmup \in Nat
BY SetupAssumption DEF Typed, Setup

\* One step more is one update of the actor more at most.
LEMMA OneStepOneUpdate ==
    ASSUME setup.warmup \in Nat, NEW n \in Nat, NEW m \in Nat, m \in n - 1 .. n
    PROVE  ActorUpdates(n) - ActorUpdates(m) <= 1
BY DEF ActorUpdates

LEMMA InvImpliesBehind == Inv => AtMostOneUpdateBehind
<1> SUFFICES ASSUME Inv, pc = "update"
             PROVE  ActorUpdates(Len(trained)) - ActorUpdates(current.weights) <= 1
  BY DEF AtMostOneUpdateBehind
<1>1. setup.warmup \in Nat
  BY SetupType DEF Inv
<1>2. Len(trained) \in Nat /\ current.weights \in Nat
      /\ current.weights \in Len(trained) - 1 .. Len(trained)
  BY DEF Inv, Typed, Behind
<1> QED BY <1>1, <1>2, OneStepOneUpdate

LEMMA InitInv == Init => Inv
<1> SUFFICES ASSUME Init PROVE Inv
  OBVIOUS
<1>1. setup \in Setups /\ setup.batches \in Nat /\ setup.epochs \in Nat
  BY SetupAssumption DEF Init, Setup
<1>2. Typed
  BY <1>1 DEF Init, Typed, NoFuture, NoBatch, None, Pending
<1>3. Counted /\ CallsAt /\ Behind
  BY DEF Init, Counted, CallsAt, Behind, Generates
<1> QED BY <1>2, <1>3 DEF Inv

\* A queue of one call, without it and before it.
LEMMA Queues ==
    ASSUME NEW op \in {"sync", "generate", "validate"}
    PROVE  /\ Append(<<>>, op) = <<op>> /\ Head(<<op>>) = op /\ Tail(<<op>>) = <<>>
           /\ <<op>> # <<>>
OBVIOUS

\* Behind a generation or nothing, a validation may be queued.
LEMMA ValidationQueued ==
    ASSUME NEW q \in {<<>>, <<"generate">>}
    PROVE  /\ Append(q, "validate") \in Seq({"generate", "validate"})
           /\ \A i \in 2 .. Len(Append(q, "validate")) : Append(q, "validate")[i] = "validate"
           /\ Head(Append(q, "validate")) = "generate" =>
                q # <<>> /\ Head(q) = "generate"
<1> DEFINE a == Append(q, "validate")
<1>1. q \in Seq({"generate", "validate"}) /\ (Len(q) = 0 \/ Len(q) = 1)
  <2>1. CASE q = <<>>
    BY <2>1
  <2>2. CASE q = <<"generate">>
    BY <2>2
  <2> QED BY <2>1, <2>2
<1>2. a \in Seq({"generate", "validate"}) /\ Len(a) = Len(q) + 1 /\ a[Len(q) + 1] = "validate"
  BY <1>1
<1>3. Head(a) = "generate" => q # <<>> /\ Head(q) = "generate"
  <2>1. CASE q = <<>>
    BY <2>1
  <2>2. CASE q = <<"generate">>
    BY <2>2
  <2> QED BY <2>1, <2>2
<1> HIDE DEF a
<1>4. \A i \in 2 .. Len(a) : a[i] = "validate"
  <2>1. CASE Len(q) = 0
    BY <1>2, <2>1
  <2>2. CASE Len(q) = 1
    <3>1. Len(a) = 2 /\ a[2] = "validate"
      BY <1>2, <2>2
    <3> QED BY <3>1
  <2> QED BY <1>1, <2>1, <2>2
<1> QED BY <1>2, <1>3, <1>4 DEF a

\* Behind the first call only validations are left.
LEMMA RestValidates ==
    ASSUME NEW q \in Seq({"generate", "validate"}), q # <<>>,
           \A i \in 2 .. Len(q) : q[i] = "validate"
    PROVE  /\ Tail(q) \in Seq({"generate", "validate"})
           /\ \A i \in 2 .. Len(Tail(q)) : Tail(q)[i] = "validate"
           /\ Tail(q) # <<>> => Head(Tail(q)) = "validate"
           /\ Head(q) \in {"generate", "validate"}
OBVIOUS

-----------------------------------------------------------------------------
(* Every action preserves the invariant. *)

LEMMA LaunchInv == ASSUME Inv, Launch PROVE Inv'
<1>1. Typed'
  <2>1. setup.epochs \in Nat \ {0}
    BY SetupType DEF Inv
  <2> QED BY <2>1 DEF Launch, Inv, Typed, GoTo
<1>2. calls' = <<"validate">> /\ pc' = "first_validation" /\ IsLastStep' = IsLastStep'
  BY Queues DEF Launch, Inv, CallsAt, Submit, GoTo
<1>3. Counted' /\ Behind'
  BY <1>2 DEF Launch, Inv, Typed, Counted, Behind
<1>4. CallsAt'
  BY <1>2, Queues DEF CallsAt, Generates
<1> QED BY <1>1, <1>3, <1>4 DEF Inv

LEMMA FirstValidationInv == ASSUME Inv, FirstValidation PROVE Inv'
<1>1. Typed' /\ Counted'
  BY DEF FirstValidation, Inv, Typed, Counted, GoTo, workers
<1>2. CallsAt' /\ Behind'
  BY DEF FirstValidation, Inv, CallsAt, Behind, Generates, GoTo, workers
<1> QED BY <1>1, <1>2 DEF Inv

LEMMA DrawInv == ASSUME Inv, Draw PROVE Inv'
<1>1. /\ setup.batches \in Nat \ {0} /\ setup.epochs \in Nat \ {0}
      /\ Typed /\ Counted /\ CallsAt /\ Behind
  BY SetupType DEF Inv
<1>2. /\ loader' \in [drawn : Nat, pos : 0 .. setup.batches, epoch : 0 .. setup.epochs]
      /\ loader'.epoch > 0
  <2>1. /\ loader \in [drawn : Nat, pos : 0 .. setup.batches, epoch : 0 .. setup.epochs]
        /\ loader.epoch > 0 /\ loader' = NextOfStream
        /\ ~(loader.pos = setup.batches /\ loader.epoch = setup.epochs)
    BY <1>1 DEF Draw, Typed, Exhausted, Drawing
  <2>2. CASE loader.pos < setup.batches
    <3>1. loader' = [loader EXCEPT !.drawn = loader.drawn + 1, !.pos = loader.pos + 1]
      BY <2>1, <2>2 DEF NextOfStream
    <3>2. loader.drawn + 1 \in Nat /\ loader.pos + 1 \in 0 .. setup.batches
      BY <1>1, <2>1, <2>2
    <3> QED BY <2>1, <3>1, <3>2
  <2>3. CASE ~(loader.pos < setup.batches)
    <3>1. loader' = [drawn |-> loader.drawn + 1, pos |-> 1, epoch |-> loader.epoch + 1]
      BY <2>1, <2>3 DEF NextOfStream
    <3>2. loader.pos = setup.batches /\ loader.epoch # setup.epochs
      BY <1>1, <2>1, <2>3
    <3>3. /\ loader.drawn + 1 \in Nat /\ 1 \in 0 .. setup.batches
          /\ loader.epoch + 1 \in 0 .. setup.epochs /\ loader.epoch + 1 > 0
      BY <1>1, <2>1, <3>2
    <3> QED BY <3>1, <3>3
  <2> QED BY <2>2, <2>3
<1>3. /\ future' \in [batch : Nat, weights : Nat \cup {Pending}] /\ future'.weights = Pending
      /\ calls' = <<"sync">>
      /\ pc' \in {"first_launch", "next_launch"}
      /\ pc' = "next_launch" => pc = "next_draw"
      /\ UNCHANGED <<setup, global_steps, trained, current, disk, synced>>
  <2>1. /\ future' = [batch |-> loader.drawn + 1, weights |-> Pending]
        /\ loader.drawn + 1 \in Nat
    BY <1>1 DEF Draw, Typed, NoFuture
  <2>2. calls = <<>> /\ calls' = Append(calls, "sync")
    BY <1>1 DEF Draw, CallsAt, Submit, Drawing
  <2>3. /\ pc' \in {"first_launch", "next_launch"}
        /\ pc' = "next_launch" => pc = "next_draw"
        /\ UNCHANGED <<setup, global_steps, trained, current, disk, synced>>
    BY DEF Draw, Drawing, GoTo
  <2> QED BY <2>1, <2>2, <2>3, Queues
<1>4. Typed'
  BY <1>1, <1>2, <1>3 DEF Typed
<1>5. Counted'
  BY <1>1, <1>3 DEF Counted, Draw, Drawing
<1>6. CallsAt'
  BY <1>3, Queues DEF CallsAt, Generates
<1>7. Behind'
  BY <1>1, <1>3 DEF Behind
<1> QED BY <1>4, <1>5, <1>6, <1>7 DEF Inv

LEMMA DrawNothingInv == ASSUME Inv, DrawNothing PROVE Inv'
<1>1. Typed /\ Counted /\ CallsAt /\ Behind
  BY DEF Inv
<1>2. /\ future' = NoFuture /\ calls' = calls /\ calls = <<>>
      /\ pc' = IF pc = "first_draw" THEN "get" ELSE "balance"
      /\ pc \in {"first_draw", "next_draw"}
      /\ UNCHANGED <<setup, global_steps, trained, current, disk, synced, loader>>
  BY <1>1 DEF DrawNothing, CallsAt, Return, GoTo, Drawing, workers
<1>3. Typed'
  BY <1>1, <1>2 DEF Typed, NoFuture, None, Pending
<1>4. Counted'
  BY <1>1, <1>2 DEF Counted
<1>5. CallsAt' /\ Behind'
  BY <1>1, <1>2 DEF CallsAt, Behind, Generates, Launched, NoFuture
<1> QED BY <1>3, <1>4, <1>5 DEF Inv

LEMMA LaunchGenerationInv == ASSUME Inv, LaunchGeneration PROVE Inv'
<1>1. Typed /\ Counted /\ CallsAt /\ Behind
  BY DEF Inv
<1>2. /\ calls' = <<"generate">> /\ future.weights = Pending /\ synced = Len(trained)
      /\ pc' = IF pc = "first_launch" THEN "get" ELSE "balance"
      /\ pc \in {"first_launch", "next_launch"}
      /\ UNCHANGED <<setup, global_steps, trained, current, disk, synced, loader, future>>
  BY <1>1, Queues DEF LaunchGeneration, CallsAt, Return, GoTo, Submit, driver
<1>3. Typed'
  BY <1>1, <1>2 DEF Typed
<1>4. Counted'
  BY <1>1, <1>2 DEF Counted
<1>5. CallsAt'
  BY <1>1, <1>2, Queues DEF CallsAt, Generates
<1>6. Behind'
  BY <1>1, <1>2 DEF Typed, Behind, Launched
<1> QED BY <1>3, <1>4, <1>5, <1>6 DEF Inv

\* A call ends: the copy of the weights before a launch, a generation with the
\* weights its launch waited for, or a validation.
LEMMA RolloutRunsInv == ASSUME Inv, RolloutRuns PROVE Inv'
<1>1. Typed /\ Counted /\ CallsAt /\ Behind
  BY DEF Inv
<1>2. /\ calls # <<>> /\ calls' = Tail(calls)
      /\ UNCHANGED <<setup, pc, global_steps, trained, current, loader, disk>>
      /\ synced' = IF Head(calls) = "sync" THEN Len(trained) ELSE synced
      /\ future' = IF Head(calls) = "generate" THEN [future EXCEPT !.weights = synced]
                   ELSE future
  BY DEF RolloutRuns
<1>3. Len(trained) \in Nat /\ synced \in Nat /\ synced <= Len(trained)
  BY <1>1 DEF Typed
<1>4. /\ future' \in [batch : Nat, weights : Nat \cup {Pending}]
      /\ Head(calls) = "generate" => future'.weights = synced
  BY <1>1, <1>2, <1>3 DEF Typed
<1>5. Typed'
  BY <1>1, <1>2, <1>3, <1>4 DEF Typed
<1>6. Counted'
  BY <1>1, <1>2 DEF Counted
<1>7. ~Generates'
  <2>1. CASE pc = "validating"
    BY <1>1, <1>2, <2>1, RestValidates DEF CallsAt, Generates
  <2>2. CASE pc # "validating"
    BY <1>1, <1>2, <2>2, Queues DEF CallsAt, Generates, Typed
  <2> QED BY <2>1, <2>2
<1>8. CallsAt'
  <2>1. CASE pc = "validating"
    BY <1>1, <1>2, <1>7, <2>1, RestValidates DEF CallsAt
  <2>2. CASE pc \in {"first_launch", "next_launch"}
    <3>1. calls = <<"sync">>
      BY <1>1, <1>2, <2>2 DEF CallsAt
    <3>2. synced' = Len(trained') /\ future'.weights = Pending /\ calls' = <<>>
      BY <1>1, <1>2, <2>2, <3>1, Queues DEF CallsAt
    <3> QED BY <1>2, <1>7, <2>2, <3>2 DEF CallsAt
  <2>3. CASE pc \notin {"validating", "first_launch", "next_launch"}
    BY <1>1, <1>2, <1>7, <2>3, Queues DEF CallsAt, Typed
  <2> QED BY <2>1, <2>2, <2>3
<1>9. ASSUME NEW k \in Int, Launched(k) PROVE Launched(k)'
  BY <1>1, <1>2, <1>3, <1>4, <1>7, <1>9 DEF Launched, CallsAt, Generates, Pending
<1>10. /\ Len(trained) - 1 \in Int /\ Len(trained) \in Int
       /\ Launched(Len(trained)) => Launched(Len(trained))'
       /\ Launched(Len(trained) - 1) => Launched(Len(trained) - 1)'
  BY <1>2, <1>3, <1>9 DEF Launched, Generates
<1>11. Behind'
  BY <1>1, <1>2, <1>10 DEF Behind, IsLastStep
<1> QED BY <1>5, <1>6, <1>8, <1>11 DEF Inv

LEMMA RewardsDoneInv == ASSUME Inv, RewardsDone PROVE Inv'
BY DEF RewardsDone, driver, Inv, Typed, Counted, CallsAt, Behind, Generates, Launched,
       IsLastStep

\* The generation has ended: nothing is queued behind it.
LEMMA GetInv == ASSUME Inv, Get PROVE Inv'
<1>1. Typed /\ Counted /\ CallsAt /\ Behind
  BY DEF Inv
<1>2. /\ pc = "get" /\ future.weights # Pending
      /\ current' = [NoBatch EXCEPT !.batch = future.batch, !.weights = future.weights]
      /\ pc' = IF IsLastStep THEN "balance" ELSE "next_draw"
      /\ UNCHANGED <<setup, global_steps, trained, future, loader, calls, synced, disk>>
  BY DEF Get, GoTo, workers
<1>3. calls = <<>>
  BY <1>1, <1>2, Queues DEF CallsAt, Generates
<1>4. /\ current' = [batch |-> future.batch, weights |-> future.weights,
                     rows |-> "generated", scores |-> "none"]
      /\ current'.weights \in Nat /\ current'.weights \in Len(trained) - 1 .. Len(trained)
  BY <1>1, <1>2 DEF Typed, Behind, Launched, NoBatch
<1>5. Typed' /\ Counted'
  BY <1>1, <1>2, <1>4 DEF Typed, Counted
<1>6. CallsAt' /\ Behind'
  BY <1>1, <1>2, <1>3, <1>4 DEF CallsAt, Behind, Generates, IsLastStep
<1> QED BY <1>5, <1>6 DEF Inv

LEMMA LeaveLoopInv == ASSUME Inv, LeaveLoop PROVE Inv'
BY DEF LeaveLoop, GoTo, driver, workers, Inv, Typed, Counted, CallsAt, Behind, Generates

LEMMA BalanceInv == ASSUME Inv, Balance PROVE Inv'
<1>1. Typed /\ Counted /\ CallsAt /\ Behind
  BY DEF Inv
<1>2. /\ pc = "balance" /\ pc' = "reward" /\ current'.weights = current.weights
      /\ current' \in [batch : Nat, weights : Nat \cup {Pending},
                       rows : {"generated", "balanced"},
                       scores : {"none", "generated", "balanced"}]
      /\ UNCHANGED <<setup, global_steps, trained, future, loader, calls, synced, disk>>
  BY <1>1 DEF Balance, GoTo, workers, Typed
<1>3. Typed' /\ Counted'
  BY <1>1, <1>2 DEF Typed, Counted
<1>4. CallsAt' /\ Behind'
  BY <1>1, <1>2 DEF CallsAt, Behind, Generates, Launched, IsLastStep
<1> QED BY <1>3, <1>4 DEF Inv

LEMMA RewardInv == ASSUME Inv, Reward PROVE Inv'
<1>1. Typed /\ Counted /\ CallsAt /\ Behind
  BY DEF Inv
<1>2. /\ pc = "reward" /\ pc' = "update" /\ current'.weights = current.weights
      /\ current' \in [batch : Nat, weights : Nat \cup {Pending},
                       rows : {"generated", "balanced"},
                       scores : {"none", "generated", "balanced"}]
      /\ UNCHANGED <<setup, global_steps, trained, future, loader, calls, synced, disk>>
  BY <1>1 DEF Reward, GoTo, workers, Typed, ScoreOrder
<1>3. Typed' /\ Counted'
  BY <1>1, <1>2 DEF Typed, Counted
<1>4. CallsAt' /\ Behind'
  BY <1>1, <1>2 DEF CallsAt, Behind, Generates, Launched, IsLastStep
<1> QED BY <1>3, <1>4 DEF Inv

\* The one step more: what was launched with all updates lacks this one.
LEMMA UpdateInv == ASSUME Inv, Update PROVE Inv'
<1>1. Typed /\ Counted /\ CallsAt /\ Behind
  BY DEF Inv
<1>2. /\ pc = "update" /\ trained' = Append(trained, current.batch)
      /\ UNCHANGED <<setup, global_steps, future, current, loader, synced, disk>>
      /\ \/ pc' = "validating" /\ calls' = Append(calls, "validate")
         \/ pc' = "save" /\ calls' = calls
  BY DEF Update, GoTo, Submit
<1>3. /\ trained' \in Seq(Nat) /\ Len(trained') = Len(trained) + 1 /\ Len(trained) \in Nat
      /\ calls \in {<<>>, <<"generate">>}
  BY <1>1, <1>2 DEF Typed, CallsAt
<1>4. Typed' /\ Counted'
  BY <1>1, <1>2, <1>3 DEF Typed, Counted
<1>5. CallsAt' /\ (Generates' => Generates)
  <2>1. CASE pc' = "validating" /\ calls' = Append(calls, "validate")
    BY <1>1, <1>2, <1>3, <2>1, ValidationQueued DEF CallsAt, Generates
  <2>2. CASE pc' = "save" /\ calls' = calls
    BY <1>1, <1>2, <1>3, <2>2 DEF CallsAt, Generates
  <2> QED BY <1>2, <2>1, <2>2
<1>6. Launched(Len(trained)) => Launched(Len(trained) - 1)'
  BY <1>1, <1>2, <1>3, <1>5 DEF Launched, Typed
<1>7. Behind'
  BY <1>1, <1>2, <1>6 DEF Behind, IsLastStep
<1> QED BY <1>4, <1>5, <1>7 DEF Inv

LEMMA ValidatedInv == ASSUME Inv, Validated PROVE Inv'
BY DEF Validated, GoTo, driver, workers, Inv, Typed, Counted, CallsAt, Behind, Generates,
       Launched, IsLastStep

LEMMA SaveInv == ASSUME Inv, Save PROVE Inv'
<1>1. Typed /\ Counted /\ CallsAt /\ Behind
  BY DEF Inv
<1>2. /\ pc = "save" /\ global_steps' = global_steps + 1
      /\ pc' = IF IsLastStep THEN "over" ELSE "get"
      /\ UNCHANGED <<setup, trained, future, current, loader, calls, synced>>
  BY DEF Save, GoTo, workers
<1>3. /\ disk' \in [step : Nat, trained : Seq(Nat), drawn : Nat, pos : 0 .. setup.batches]
      /\ disk'.step = Len(disk'.trained)
  <2>1. CASE SaveDue
    BY <1>1, <1>2, <2>1 DEF Save, Typed, Counted, LoaderSave
  <2>2. CASE ~SaveDue
    BY <1>1, <2>2 DEF Save, Typed
  <2> QED BY <2>1, <2>2
<1>4. Typed'
  BY <1>1, <1>2, <1>3 DEF Typed
<1>5. Counted'
  BY <1>1, <1>2 DEF Typed, Counted
<1>6. CallsAt' /\ Behind'
  BY <1>1, <1>2 DEF CallsAt, Behind, Generates, Launched
<1> QED BY <1>4, <1>5, <1>6 DEF Inv

LEMMA CrashInv == ASSUME Inv, Crash PROVE Inv'
<1>1. Typed /\ setup.batches \in Nat /\ setup.epochs \in Nat
  BY SetupType DEF Inv
<1>2. Typed'
  BY <1>1 DEF Crash, GoTo, Typed, NoFuture, NoBatch, None, Pending
<1>3. Counted' /\ CallsAt' /\ Behind'
  BY DEF Crash, GoTo, Counted, CallsAt, Behind, Generates
<1> QED BY <1>2, <1>3 DEF Inv

LEMMA NextInv == Inv /\ [Next]_vars => Inv'
<1> SUFFICES ASSUME Inv, [Next]_vars PROVE Inv'
  OBVIOUS
<1>1. CASE Fit
  BY <1>1, LaunchInv, FirstValidationInv, DrawInv, DrawNothingInv, LaunchGenerationInv,
     GetInv, LeaveLoopInv, BalanceInv, RewardInv, UpdateInv, ValidatedInv, SaveInv DEF Fit
<1>2. CASE RolloutRuns
  BY <1>2, RolloutRunsInv
<1>3. CASE RewardsDone
  BY <1>3, RewardsDoneInv
<1>4. CASE Crash
  BY <1>4, CrashInv
<1>5. CASE UNCHANGED vars
  BY <1>5 DEF vars, driver, workers, faults, Inv, Typed, Counted, CallsAt, Behind,
              Generates, Launched, IsLastStep
<1> QED BY <1>1, <1>2, <1>3, <1>4, <1>5 DEF Next, Ended

LEMMA InvAlways == Spec => []Inv
BY InitInv, NextInv, PTL DEF Spec

\* The state has its types: checkpoints count the batches that trained them, the
\* rollout workers' weights are never ahead of the actor's.
THEOREM TypeCorrect == Spec => []Typed
<1>1. Inv => Typed
  BY DEF Inv
<1> QED BY <1>1, InvAlways, PTL

\* The weights that generated the batch being trained lack one update of the actor
\* at most, for any data, set-up and any number of kills and of exceptions of the
\* dataloader.
THEOREM OneStepBehind == Spec => []AtMostOneUpdateBehind
BY InvImpliesBehind, InvAlways, PTL

-----------------------------------------------------------------------------
(* Rows and their scores. *)

OrderBalanced == IF setup.balance THEN "balanced" ELSE "generated"

Rows ==
    /\ pc \in {"next_draw", "next_launch", "balance"} => current.rows = "generated"
    /\ pc \in {"reward", "update"} => current.rows = OrderBalanced
    /\ pc = "update" => current.scores = IF setup.early THEN "generated" ELSE current.rows

LEMMA RowsStep == Inv /\ Rows /\ [Next]_vars => Rows'
<1> SUFFICES ASSUME Inv, Rows, [Next]_vars PROVE Rows'
  OBVIOUS
<1> USE DEF driver, workers, faults, GoTo, Rows, OrderBalanced
<1>1. current \in [batch : Nat, weights : Nat \cup {Pending}, rows : {"generated", "balanced"},
                   scores : {"none", "generated", "balanced"}]
  BY DEF Inv, Typed
<1>2. CASE Launch \/ FirstValidation \/ Draw \/ DrawNothing \/ LaunchGeneration
  BY <1>2 DEF Launch, FirstValidation, Draw, DrawNothing, LaunchGeneration, Return, Drawing
<1>3. CASE Get
  BY <1>3 DEF Get, NoBatch
<1>4. CASE Balance
  BY <1>1, <1>4 DEF Balance
<1>5. CASE Reward
  BY <1>1, <1>5 DEF Reward, ScoreOrder
<1>6. CASE LeaveLoop \/ Update \/ Validated \/ Save
  BY <1>6 DEF LeaveLoop, Update, Validated, Save
<1>7. CASE RolloutRuns \/ RewardsDone \/ Crash \/ UNCHANGED vars
  BY <1>7 DEF RolloutRuns, RewardsDone, Crash, vars
<1> QED BY <1>2, <1>3, <1>4, <1>5, <1>6, <1>7 DEF Next, Fit, Ended

(* The comment over _balance_batch is true of the code but for one configuration: whatever  *)
(* is generated, interrupted or reordered, a batch is updated with the scores of its own    *)
(* rows, unless they were computed before balancing reorders them.                          *)
THEOREM OwnScores == Spec => []ScoresOfOwnRows
<1>1. Rows => ScoresOfOwnRows
  BY DEF Rows, OrderBalanced, ScoresOfOwnRows
<1>2. Init => Rows
  BY DEF Init, Rows
<1> QED BY <1>1, <1>2, RowsStep, InvAlways, PTL DEF Spec

-----------------------------------------------------------------------------
(* The stream of batches. *)

Sorted(q) == \A i \in 2 .. Len(q) : q[i - 1] < q[i]
Above(x, q) == \A i \in 1 .. Len(q) : q[i] < x
Near(q) == \A i \in 1 .. Len(q) : q[i] <= i + crashes

\* The future is, or is going to be, trained.
Usable == future.weights # Pending \/ Generates

\* How many batches the dataloader is ahead of the weights: as many as restarts have
\* left out, and those handed out and not trained.
Ahead ==
    /\ pc \in {"launch", "first_validation", "first_draw"} =>
         loader.drawn <= Len(trained) + crashes
    /\ pc \in {"first_launch", "get", "next_draw", "validating", "save"} =>
         loader.drawn <= Len(trained) + 1 + crashes
    /\ pc \in {"next_launch", "balance", "reward", "update"} =>
         loader.drawn <= Len(trained) + 2 + crashes
    /\ disk.drawn <= Len(disk.trained) + 1 + crashes
    /\ pc = "launch" => disk.drawn <= Len(disk.trained) + crashes

Streamed ==
    /\ crashes \in Nat
    /\ Sorted(trained) /\ Near(trained) /\ Above(loader.drawn + 1, trained)
    /\ Sorted(disk.trained) /\ Near(disk.trained) /\ Above(disk.drawn + 1, disk.trained)
    /\ future.batch <= loader.drawn /\ (pc = "launch" => future.batch = None)
    /\ pc \in {"next_draw", "next_launch", "balance", "reward", "update"} =>
         /\ Above(current.batch, trained)
         /\ current.batch <= loader.drawn /\ current.batch <= Len(trained) + 1 + crashes
    /\ pc = "first_launch" => Above(future.batch, trained)
    /\ pc = "next_launch" => current.batch < future.batch
    /\ pc = "get" /\ Usable => Above(future.batch, trained)
    /\ pc \in {"balance", "reward", "update"} /\ ~IsLastStep /\ Usable =>
         current.batch < future.batch
    /\ pc \in {"validating", "save"} /\ ~IsLastStep /\ Usable => Above(future.batch, trained)

LEMMA StreamAppend ==
    ASSUME NEW q \in Seq(Nat), NEW b \in Nat, crashes \in Nat,
           Sorted(q), Near(q), Above(b, q), b <= Len(q) + 1 + crashes
    PROVE  /\ Sorted(Append(q, b)) /\ Near(Append(q, b))
           /\ \A x \in Nat : b < x => Above(x, Append(q, b))
<1> DEFINE a == Append(q, b)
           n == Len(q)
<1>1. /\ n \in Nat /\ Len(a) = n + 1 /\ a[n + 1] = b
      /\ \A i \in 1 .. n : a[i] = q[i] /\ q[i] \in Nat
  OBVIOUS
<1>2. /\ \A i \in 2 .. n : q[i - 1] < q[i]
      /\ \A i \in 1 .. n : q[i] < b /\ q[i] <= i + crashes
  BY DEF Sorted, Above, Near
<1>3. b <= n + 1 + crashes
  OBVIOUS
<1> HIDE DEF a, n
<1>4. Sorted(a)
  <2> SUFFICES ASSUME NEW i \in 2 .. n + 1 PROVE a[i - 1] < a[i]
    BY <1>1 DEF Sorted
  <2>1. CASE i = n + 1
    <3>1. i - 1 = n /\ n \in 1 .. n
      BY <1>1, <2>1
    <3> QED BY <1>1, <1>2, <2>1, <3>1
  <2>2. CASE i # n + 1
    <3>1. i \in 2 .. n /\ i \in 1 .. n /\ i - 1 \in 1 .. n
      BY <1>1, <2>2
    <3> QED BY <1>1, <1>2, <3>1
  <2> QED BY <2>1, <2>2
<1>5. Near(a)
  <2> SUFFICES ASSUME NEW i \in 1 .. n + 1 PROVE a[i] <= i + crashes
    BY <1>1 DEF Near
  <2>1. i \in 1 .. n \/ i = n + 1
    BY <1>1
  <2> QED BY <1>1, <1>2, <1>3, <2>1
<1>6. ASSUME NEW x \in Nat, b < x PROVE Above(x, a)
  <2> SUFFICES ASSUME NEW i \in 1 .. n + 1 PROVE a[i] < x
    BY <1>1 DEF Above
  <2>1. i \in 1 .. n \/ i = n + 1
    BY <1>1
  <2> QED BY <1>1, <1>2, <1>6, <2>1
<1> QED BY <1>4, <1>5, <1>6 DEF a

LEMMA StreamWider ==
    ASSUME NEW q \in Seq(Nat)
    PROVE  /\ \A x, y \in Nat : x <= y /\ Above(x, q) => Above(y, q)
           /\ crashes \in Nat /\ crashes' \in Nat /\ crashes <= crashes' /\ Near(q)
                => \A i \in 1 .. Len(q) : q[i] <= i + crashes'
<1>1. \A i \in 1 .. Len(q) : q[i] \in Nat
  OBVIOUS
<1> QED BY <1>1 DEF Above, Near

LEMMA StreamInit == Init => Ahead /\ Streamed
BY DEF Init, Ahead, Streamed, Sorted, Near, Above, Usable, Generates, NoFuture, NoBatch, None, Pending

\* What a step leaves alone.
LEMMA StreamKept ==
    ASSUME UNCHANGED <<trained, crashes>>
    PROVE  /\ Sorted(trained)' = Sorted(trained) /\ Near(trained)' = Near(trained)
           /\ Len(trained)' = Len(trained)
           /\ disk' = disk => /\ Sorted(disk.trained)' = Sorted(disk.trained)
                              /\ Near(disk.trained)' = Near(disk.trained)
                              /\ Above(disk.drawn + 1, disk.trained)' = Above(disk.drawn + 1, disk.trained)
           /\ future' = future => Above(future.batch, trained)' = Above(future.batch, trained)
           /\ current' = current => Above(current.batch, trained)' = Above(current.batch, trained)
           /\ loader' = loader => Above(loader.drawn + 1, trained)' = Above(loader.drawn + 1, trained)
BY DEF Sorted, Near, Above

LEMMA StreamNumbers ==
    ASSUME Inv
    PROVE  /\ Len(trained) \in Nat /\ Len(disk.trained) \in Nat /\ trained \in Seq(Nat)
           /\ disk.trained \in Seq(Nat) /\ disk.drawn \in Nat /\ loader.drawn \in Nat
           /\ future.batch \in Nat /\ current.batch \in Nat /\ global_steps \in Nat
BY DEF Inv, Typed

\* A draw is one batch ahead, an update trains it, a kill falls back to what was saved.
LEMMA StreamStep == Inv /\ Ahead /\ Streamed /\ [Next]_vars => Ahead' /\ Streamed'
<1> SUFFICES ASSUME Inv, Ahead, Streamed, [Next]_vars PROVE Ahead' /\ Streamed'
  OBVIOUS
<1> USE DEF driver, workers, faults, GoTo
<1>1. /\ Len(trained) \in Nat /\ Len(disk.trained) \in Nat /\ trained \in Seq(Nat)
      /\ disk.trained \in Seq(Nat) /\ disk.drawn \in Nat /\ loader.drawn \in Nat
      /\ future.batch \in Nat /\ current.batch \in Nat /\ global_steps \in Nat
      /\ crashes \in Nat
  BY StreamNumbers DEF Streamed
<1>2. CASE Launch
  <2>1. /\ trained' = disk.trained /\ loader'.drawn = disk.drawn
        /\ UNCHANGED <<disk, crashes, future>> /\ pc = "launch" /\ pc' = "first_validation"
    BY <1>2 DEF Launch
  <2>2. future.batch = 0
    BY <2>1 DEF Streamed, None
  <2> QED BY <1>1, <2>1, <2>2 DEF Ahead, Streamed, Sorted, Near, Above
<1>3. CASE FirstValidation
  <2>1. /\ UNCHANGED <<trained, crashes, loader, disk, future>>
        /\ pc = "first_validation" /\ pc' = "first_draw"
    BY <1>3 DEF FirstValidation
  <2> QED BY <2>1, StreamKept DEF Ahead, Streamed
<1>4. CASE Draw
  <2>1. /\ UNCHANGED <<trained, crashes, disk, current, global_steps, setup>>
        /\ \/ pc = "first_draw" /\ pc' = "first_launch"
           \/ pc = "next_draw" /\ pc' = "next_launch"
        /\ loader'.drawn = loader.drawn + 1 /\ future'.batch = loader.drawn + 1
    BY <1>4 DEF Draw, Drawing, NextOfStream, NoFuture, Inv, Typed
  <2>2. Above(loader'.drawn, trained') /\ Above(loader'.drawn + 1, trained')
    BY <1>1, <2>1, StreamWider DEF Streamed
  <2>3. Above(loader.drawn + 1, trained)' /\ Above(future.batch, trained)'
    BY <2>1, <2>2 DEF Above
  <2>4. pc = "next_draw" => Above(current.batch, trained)' /\ current.batch < future'.batch
    BY <1>1, <2>1, StreamKept DEF Streamed
  <2>5. Ahead'
    BY <1>1, <2>1, StreamKept DEF Ahead
  <2>6. /\ Sorted(trained)' /\ Near(trained)' /\ Len(trained)' = Len(trained)
        /\ Sorted(disk.trained)' /\ Near(disk.trained)' /\ Above(disk.drawn + 1, disk.trained)'
    BY <2>1, StreamKept DEF Streamed
  <2>7. pc = "next_draw" => /\ current'.batch <= loader'.drawn
                            /\ current'.batch <= Len(trained)' + 1 + crashes'
    BY <1>1, <2>1, <2>6 DEF Streamed
  <2> QED BY <1>1, <2>1, <2>3, <2>4, <2>5, <2>6, <2>7 DEF Streamed
<1>5. CASE DrawNothing
  <2>1. /\ UNCHANGED <<trained, crashes, loader, disk, current, global_steps, setup, calls>>
        /\ future'.batch = 0 /\ future'.weights = Pending /\ calls = <<>>
        /\ \/ pc = "first_draw" /\ pc' = "get"
           \/ pc = "next_draw" /\ pc' = "balance"
    BY <1>5 DEF DrawNothing, Drawing, Return, NoFuture, None, Inv, CallsAt
  <2>2. ~Usable'
    BY <2>1 DEF Usable, Generates
  <2>3. Ahead'
    BY <1>1, <2>1, StreamKept DEF Ahead
  <2>4. /\ Sorted(trained)' /\ Near(trained)' /\ Len(trained)' = Len(trained)
        /\ Above(loader.drawn + 1, trained)' /\ Above(current.batch, trained)' = Above(current.batch, trained)
        /\ Sorted(disk.trained)' /\ Near(disk.trained)' /\ Above(disk.drawn + 1, disk.trained)'
    BY <2>1, StreamKept DEF Streamed
  <2> QED BY <1>1, <2>1, <2>2, <2>3, <2>4 DEF Streamed
<1>6. CASE LaunchGeneration
  <2>1. /\ UNCHANGED <<trained, crashes, loader, disk, current, global_steps, setup, future>>
        /\ \/ pc = "first_launch" /\ pc' = "get"
           \/ pc = "next_launch" /\ pc' = "balance"
    BY <1>6 DEF LaunchGeneration, Return
  <2> QED BY <1>1, <2>1, StreamKept DEF Ahead, Streamed
<1>7. CASE RolloutRuns
  <2>1. /\ UNCHANGED <<pc, setup, trained, crashes, loader, disk, current, global_steps>>
        /\ future'.batch = future.batch
        /\ future' = IF Head(calls) = "generate" THEN [future EXCEPT !.weights = synced] ELSE future
        /\ calls # <<>> /\ calls' = Tail(calls)
    BY <1>7 DEF RolloutRuns, Inv, Typed
  <2>2. Above(future.batch, trained)' = Above(future.batch, trained)
    BY <2>1 DEF Above
  <2>3. Usable' => Usable
    <3>1. ~Generates'
      <4>1. CASE pc = "validating"
        BY <2>1, <4>1, RestValidates DEF Inv, CallsAt, Generates
      <4>2. CASE pc # "validating"
        BY <2>1, <4>2, Queues DEF Inv, CallsAt, Generates, Typed
      <4> QED BY <4>1, <4>2
    <3> QED BY <2>1, <3>1 DEF Usable, Generates
  <2> QED BY <1>1, <2>1, <2>2, <2>3, StreamKept DEF Ahead, Streamed, IsLastStep
<1>8. CASE RewardsDone \/ UNCHANGED vars
  <2>1. UNCHANGED <<pc, setup, trained, crashes, loader, disk, current, global_steps, future, calls>>
    BY <1>8 DEF RewardsDone, vars
  <2> QED BY <2>1, StreamKept DEF Ahead, Streamed, IsLastStep, Usable, Generates
<1>9. CASE Get
  <2>1. /\ UNCHANGED <<setup, trained, crashes, loader, disk, future, global_steps, calls>>
        /\ current'.batch = future.batch /\ pc = "get" /\ Usable
        /\ pc' = IF IsLastStep THEN "balance" ELSE "next_draw"
    BY <1>9 DEF Get, NoBatch, Usable
  <2>2. Above(current.batch, trained)'
    BY <2>1 DEF Streamed, Above
  <2>3. IsLastStep' = IsLastStep
    BY <2>1 DEF IsLastStep
  <2>4. /\ Sorted(trained)' /\ Near(trained)' /\ Len(trained)' = Len(trained)
        /\ Above(loader.drawn + 1, trained)'
        /\ Sorted(disk.trained)' /\ Near(disk.trained)' /\ Above(disk.drawn + 1, disk.trained)'
    BY <2>1, StreamKept DEF Streamed
  <2>5. future.batch <= Len(trained) + 1 + crashes
    BY <1>1, <2>1 DEF Ahead, Streamed
  <2>6. Ahead'
    BY <1>1, <2>1, <2>4 DEF Ahead
  <2> QED BY <1>1, <2>1, <2>2, <2>3, <2>4, <2>5, <2>6 DEF Streamed
<1>10. CASE LeaveLoop \/ Validated
  <2>1. /\ UNCHANGED <<setup, trained, crashes, loader, disk, current, global_steps, future, calls>>
        /\ \/ pc = "get" /\ pc' = "over"
           \/ pc = "validating" /\ pc' = "save"
    BY <1>10 DEF LeaveLoop, Validated
  <2> QED BY <2>1, StreamKept DEF Ahead, Streamed, IsLastStep, Usable, Generates
<1>11. CASE Balance \/ Reward
  <2>1. /\ UNCHANGED <<setup, trained, crashes, loader, disk, global_steps, future, calls>>
        /\ current'.batch = current.batch
        /\ \/ pc = "balance" /\ pc' = "reward"
           \/ pc = "reward" /\ pc' = "update"
    BY <1>11 DEF Balance, Reward, Inv, Typed
  <2>2. Above(current.batch, trained)' = Above(current.batch, trained)
    BY <2>1 DEF Above
  <2> QED BY <2>1, <2>2, StreamKept DEF Ahead, Streamed, IsLastStep, Usable, Generates
<1>12. CASE Update
  <2>1. /\ UNCHANGED <<setup, crashes, loader, disk, global_steps, future>>
        /\ trained' = Append(trained, current.batch) /\ pc = "update"
        /\ \/ pc' = "validating" /\ calls' = Append(calls, "validate")
           \/ pc' = "save" /\ calls' = calls
    BY <1>12 DEF Update, Submit
  <2>2. Len(trained') = Len(trained) + 1
    BY <1>1, <2>1
  <2>3. /\ Sorted(trained') /\ Near(trained')
        /\ \A x \in Nat : current.batch < x => Above(x, trained')
    BY <1>1, <2>1, StreamAppend DEF Streamed
  <2>4. /\ Sorted(trained)' /\ Near(trained)' /\ Above(loader.drawn + 1, trained)'
        /\ current.batch < future.batch => Above(future.batch, trained)'
    <3>1. Sorted(trained)' /\ Near(trained)'
      BY <2>1, <2>3 DEF Sorted, Near
    <3>2. Above(loader.drawn + 1, trained')
      BY <1>1, <2>1, <2>3 DEF Streamed
    <3>3. current.batch < future.batch => Above(future.batch, trained')
      BY <1>1, <2>3
    <3>4. /\ Above(loader.drawn + 1, trained)' = Above(loader.drawn + 1, trained')
          /\ Above(future.batch, trained)' = Above(future.batch, trained')
      BY <2>1 DEF Above
    <3> QED BY <3>1, <3>2, <3>3, <3>4
  <2>5. Usable' => Usable
    BY <2>1, ValidationQueued DEF Usable, Generates, Inv, CallsAt
  <2>6. /\ Sorted(disk.trained)' /\ Near(disk.trained)' /\ Above(disk.drawn + 1, disk.trained)'
    BY <2>1 DEF Streamed, Sorted, Near, Above
  <2>7. Ahead'
    BY <1>1, <2>1, <2>2 DEF Ahead
  <2> QED BY <1>1, <2>1, <2>4, <2>5, <2>6, <2>7 DEF Streamed, IsLastStep
<1>13. CASE Save
  <2>1. /\ UNCHANGED <<setup, trained, crashes, loader, future, calls>>
        /\ global_steps' = global_steps + 1 /\ pc = "save"
        /\ pc' = IF IsLastStep THEN "over" ELSE "get"
        /\ \/ disk' = disk
           \/ disk'.trained = trained /\ disk'.drawn = loader.drawn
    BY <1>13 DEF Save, LoaderSave
  <2>2. /\ Sorted(trained)' /\ Near(trained)' /\ Above(loader.drawn + 1, trained)'
        /\ Above(future.batch, trained)' = Above(future.batch, trained)
        /\ Usable' = Usable /\ Len(trained)' = Len(trained)
    BY <2>1, StreamKept DEF Streamed, Usable, Generates
  <2>3. /\ Sorted(disk.trained)' /\ Near(disk.trained)' /\ Above(disk.drawn + 1, disk.trained)'
    BY <2>1 DEF Streamed, Sorted, Near, Above
  <2>4. disk'.drawn <= Len(disk'.trained) + 1 + crashes
    BY <1>1, <2>1 DEF Ahead
  <2> QED BY <1>1, <2>1, <2>2, <2>3, <2>4 DEF Ahead, Streamed
<1>14. CASE Crash
  <2>1. /\ crashes' = crashes + 1 /\ trained' = <<>> /\ loader'.drawn = 0 /\ future'.batch = 0
        /\ disk' = disk /\ pc # "launch" /\ pc' = "launch" /\ calls' = <<>>
    BY <1>14 DEF Crash, NoFuture, None
  <2>0. /\ Len(disk.trained) \in Nat /\ disk.drawn \in Nat /\ crashes \in Nat
        /\ crashes' \in Nat
    BY <1>1, <2>1
  <2>2. Sorted(trained)' /\ Near(trained)' /\ Above(loader.drawn + 1, trained)' /\ Len(trained') = 0
    BY <2>1 DEF Sorted, Near, Above
  <2>3. Near(disk.trained)'
    <3>1. crashes' \in Nat /\ crashes <= crashes'
      BY <1>1, <2>1
    <3> QED BY <1>1, <2>1, <3>1, StreamWider DEF Near, Streamed
  <2>4. Sorted(disk.trained)' /\ Above(disk.drawn + 1, disk.trained)'
    BY <2>1 DEF Streamed, Sorted, Above
  <2>5. disk.drawn <= Len(disk.trained) + crashes'
    <3>1. disk.drawn <= Len(disk.trained) + 1 + crashes
      BY DEF Ahead
    <3>2. crashes' = crashes + 1
      BY <2>1
    <3>3. \A d, n, c \in Nat : d <= n + 1 + c => d <= n + (c + 1)
      OBVIOUS
    <3> QED BY <2>0, <3>1, <3>2, <3>3
  <2>6. disk.drawn <= Len(disk.trained) + 1 + crashes'
    BY <2>0, <2>5
  <2>8. Ahead'
    <3>1. disk' = disk /\ pc' = "launch" /\ loader'.drawn = 0
      BY <2>1
    <3>2. loader'.drawn <= Len(trained') + crashes'
      <4>1. \A c \in Nat : 0 <= 0 + c
        OBVIOUS
      <4> QED BY <2>0, <2>2, <3>1, <4>1
    <3> QED BY <2>5, <2>6, <3>1, <3>2 DEF Ahead
  <2> QED BY <2>0, <2>1, <2>2, <2>3, <2>4, <2>8 DEF Streamed, None
<1> QED BY <1>2, <1>3, <1>4, <1>5, <1>6, <1>7, <1>8, <1>9, <1>10, <1>11, <1>12, <1>13, <1>14
        DEF Next, Fit, Ended

(* Along the history of the weights, for any data, any number of kills and any frequency of *)
(* saves: the batches of the stream in order, none twice, and a restart leaves out one      *)
(* batch at most, the one the dataloader had handed out ahead when its state was saved.     *)
THEOREM StreamKeptInOrder == Spec => []BatchesInOrder
<1>1. Inv /\ Streamed => BatchesInOrder
  BY DEF Streamed, Sorted, Near, BatchesInOrder
<1>2. Inv /\ (Ahead /\ Streamed) /\ [Next]_vars => (Ahead /\ Streamed)'
  BY StreamStep
<1>3. Ahead /\ Streamed => Streamed
  OBVIOUS
<1> QED BY <1>1, <1>2, <1>3, StreamInit, InvAlways, PTL DEF Spec

-----------------------------------------------------------------------------
(* What a validation measures. *)

\* No generation is launched for the step after this one.
LastLaunch == IsLastStep \/ future.batch = None

Recent ==
    /\ validated.step \in Nat /\ validated.weights \in Nat
    /\ future.batch = None => ~Usable
    /\ pc \in {"first_launch", "next_launch"} => future.batch # None
    /\ pc = "launch" => validated.step = 0
    /\ pc \in {"first_validation", "validating", "save"} => validated.step <= global_steps
    /\ pc \in {"first_draw", "next_draw", "first_launch", "next_launch", "get",
               "balance", "reward", "update"} => validated.step < global_steps
    /\ pc = "get" /\ future.batch # None => synced >= Len(trained) - 1
    /\ pc \in {"next_draw", "balance", "reward", "update"} => synced >= Len(trained) - 1
    /\ pc \in {"balance", "reward", "update"} /\ ~LastLaunch => synced = Len(trained)
    /\ pc \in {"validating", "save"} =>
         /\ synced >= Len(trained) - 2
         /\ ~LastLaunch => synced >= Len(trained) - 1
         /\ validated.step = global_steps =>
              /\ validated.weights \in global_steps - 2 .. global_steps
              /\ ~validated.last => validated.weights >= global_steps - 1

\* The weights of a step and of at most k steps before differ by k updates at most.
LEMMA StepsAndUpdates ==
    ASSUME setup.warmup \in Nat, NEW n \in Nat, NEW m \in Nat, NEW k \in Nat, m \in n - k .. n
    PROVE  ActorUpdates(n) - ActorUpdates(m) <= k
BY DEF ActorUpdates

LEMMA RecentInit == Init => Recent
BY DEF Init, Recent, Usable, Generates, NoFuture, None, Pending

\* The workers' weights are those of the last launch; a validation takes them as they are.
LEMMA RecentStep == Inv /\ Recent /\ [Next]_vars => Recent'
<1> SUFFICES ASSUME Inv, Recent, [Next]_vars PROVE Recent'
  OBVIOUS
<1> USE DEF driver, workers, faults, GoTo
<1>1. /\ Len(trained) \in Nat /\ synced \in Nat /\ synced <= Len(trained) /\ global_steps \in Nat
      /\ disk.step \in Nat
      /\ pc \in {"first_validation", "validating", "save"} => Len(trained) = global_steps
      /\ pc \in {"first_draw", "next_draw", "first_launch", "next_launch", "get",
                 "balance", "reward", "update"} => Len(trained) = global_steps - 1
  BY DEF Inv, Typed, Counted
<1>2. CASE Launch
  <2>1. /\ pc = "launch" /\ pc' = "first_validation" /\ calls' = <<"validate">>
        /\ global_steps' = disk.step /\ UNCHANGED <<future, validated>>
    BY <1>2, Queues DEF Launch, Submit, Inv, CallsAt
  <2>2. validated.step = 0 /\ (future.batch = None => ~Usable')
    BY <2>1, Queues DEF Recent, Usable, Generates
  <2> QED BY <1>1, <2>1, <2>2 DEF Recent
<1>3. CASE FirstValidation
  BY <1>1, <1>3 DEF FirstValidation, Recent, Usable, Generates
<1>4. CASE Draw
  <2>1. /\ future'.batch # None /\ UNCHANGED <<global_steps, trained, validated, synced>>
        /\ \/ pc = "first_draw" /\ pc' = "first_launch"
           \/ pc = "next_draw" /\ pc' = "next_launch"
    BY <1>4 DEF Draw, Drawing, NoFuture, None, Inv, Typed
  <2> QED BY <1>1, <2>1 DEF Recent
<1>5. CASE DrawNothing
  <2>1. /\ UNCHANGED <<global_steps, trained, validated, synced>>
        /\ future' = NoFuture /\ calls' = <<>>
        /\ \/ pc = "first_draw" /\ pc' = "get"
           \/ pc = "next_draw" /\ pc' = "balance"
    BY <1>5 DEF DrawNothing, Drawing, Return, Inv, CallsAt
  <2>2. future'.batch = None /\ LastLaunch' /\ ~Usable'
    BY <2>1 DEF NoFuture, LastLaunch, Usable, Generates
  <2> QED BY <1>1, <2>1, <2>2 DEF Recent
<1>6. CASE LaunchGeneration
  <2>1. /\ UNCHANGED <<global_steps, trained, validated, synced, future>>
        /\ synced = Len(trained) /\ future.batch # None
        /\ \/ pc = "first_launch" /\ pc' = "get"
           \/ pc = "next_launch" /\ pc' = "balance"
    BY <1>6 DEF LaunchGeneration, Return, Inv, CallsAt, Recent
  <2> QED BY <1>1, <2>1 DEF Recent
<1>7. CASE RolloutRuns
  <2>1. /\ UNCHANGED <<pc, setup, trained, global_steps>> /\ future'.batch = future.batch
        /\ future' = IF Head(calls) = "generate" THEN [future EXCEPT !.weights = synced] ELSE future
        /\ calls # <<>> /\ calls' = Tail(calls)
        /\ synced' = IF Head(calls) = "sync" THEN Len(trained) ELSE synced
        /\ validated' = IF Head(calls) = "validate"
                        THEN [step |-> global_steps, weights |-> synced,
                              last |-> IsLastStep \/ future.batch = None]
                        ELSE validated
    BY <1>7 DEF RolloutRuns, Inv, Typed
  <2>2. Usable' => Usable
    <3>1. ~Generates'
      <4>1. CASE pc = "validating"
        BY <2>1, <4>1, RestValidates DEF Inv, CallsAt, Generates
      <4>2. CASE pc # "validating"
        BY <2>1, <4>2, Queues DEF Inv, CallsAt, Generates, Typed
      <4> QED BY <4>1, <4>2
    <3> QED BY <2>1, <3>1 DEF Usable, Generates
  <2>3. LastLaunch' = LastLaunch
    BY <2>1 DEF LastLaunch, IsLastStep
  <2>4. CASE Head(calls) = "sync"
    <3>1. UNCHANGED validated /\ synced' = Len(trained)
      BY <2>1, <2>4
    <3> QED BY <1>1, <2>1, <2>2, <2>3, <3>1 DEF Recent
  <2>5. CASE Head(calls) = "generate"
    <3>1. UNCHANGED <<validated, synced>>
      BY <2>1, <2>5
    <3> QED BY <1>1, <2>1, <2>2, <2>3, <3>1 DEF Recent
  <2>6. CASE Head(calls) = "validate"
    <3>1. pc \in {"first_validation", "validating"}
      BY <2>1, <2>6, Queues DEF Inv, CallsAt, Typed
    <3>2. /\ validated' = [step |-> global_steps, weights |-> synced, last |-> LastLaunch]
          /\ UNCHANGED <<synced>>
      BY <2>1, <2>6 DEF LastLaunch
    <3>3. validated'.step = global_steps /\ validated'.weights = synced /\ (validated'.last <=> LastLaunch)
      BY <3>2
    <3>4. CASE pc = "first_validation"
      BY <1>1, <2>1, <2>2, <3>2, <3>3, <3>4 DEF Recent
    <3>5. CASE pc = "validating"
      BY <1>1, <2>1, <2>2, <2>3, <3>2, <3>3, <3>5 DEF Recent
    <3> QED BY <3>1, <3>4, <3>5
  <2>7. Head(calls) \in {"sync", "generate", "validate"}
    <3>1. CASE pc = "validating"
      BY <2>1, <3>1, RestValidates DEF Inv, CallsAt
    <3>2. CASE pc # "validating"
      BY <2>1, <3>2, Queues DEF Inv, CallsAt, Typed
    <3> QED BY <3>1, <3>2
  <2> QED BY <2>4, <2>5, <2>6, <2>7
<1>8. CASE RewardsDone \/ UNCHANGED vars
  BY <1>8 DEF RewardsDone, vars, Recent, LastLaunch, IsLastStep, Usable, Generates
<1>9. CASE Get
  <2>1. /\ UNCHANGED <<setup, global_steps, trained, validated, synced, future, calls>>
        /\ pc = "get" /\ Usable /\ future.batch # None
        /\ pc' = IF IsLastStep THEN "balance" ELSE "next_draw"
    BY <1>9 DEF Get, Usable, Recent
  <2>2. IsLastStep' = IsLastStep /\ Usable' = Usable
    BY <2>1 DEF IsLastStep, Usable, Generates
  <2> QED BY <1>1, <2>1, <2>2 DEF Recent, LastLaunch
<1>10. CASE LeaveLoop \/ Validated
  BY <1>1, <1>10 DEF LeaveLoop, Validated, Recent, LastLaunch, IsLastStep, Usable, Generates
<1>11. CASE Balance \/ Reward
  BY <1>11 DEF Balance, Reward, Recent, LastLaunch, IsLastStep, Usable, Generates
<1>12. CASE Update
  <2>1. /\ UNCHANGED <<setup, global_steps, future, validated, synced>>
        /\ trained' = Append(trained, current.batch) /\ pc = "update"
        /\ \/ pc' = "validating" /\ calls' = Append(calls, "validate")
           \/ pc' = "save" /\ calls' = calls
    BY <1>12 DEF Update, Submit
  <2>2. Len(trained') = Len(trained) + 1
    BY <2>1 DEF Inv, Typed
  <2>3. Usable' => Usable
    BY <2>1, ValidationQueued DEF Usable, Generates, Inv, CallsAt
  <2>4. LastLaunch' = LastLaunch
    BY <2>1 DEF LastLaunch, IsLastStep
  <2> QED BY <1>1, <2>1, <2>2, <2>3, <2>4 DEF Recent
<1>13. CASE Save
  <2>1. /\ UNCHANGED <<setup, trained, future, calls, validated, synced>>
        /\ global_steps' = global_steps + 1 /\ pc = "save"
        /\ pc' = IF IsLastStep THEN "over" ELSE "get"
    BY <1>13 DEF Save
  <2>2. Usable' = Usable
    BY <2>1 DEF Usable, Generates
  <2> QED BY <1>1, <2>1, <2>2 DEF Recent, LastLaunch
<1>14. CASE Crash
  BY <1>14 DEF Crash, Recent, NoFuture, None, Usable, Generates, Pending
<1> QED BY <1>2, <1>3, <1>4, <1>5, <1>6, <1>7, <1>8, <1>9, <1>10, <1>11, <1>12, <1>13, <1>14
        DEF Next, Fit, Ended

(* What a validation measures, for any data and any frequencies: weights that lack the      *)
(* update just made, and another one when no generation was launched in the step, which is  *)
(* so at the last one and when the dataloader had nothing more to give.                     *)
THEOREM ValidationsAreRecent == Spec => []ValidationRecent
<1>1. Inv /\ Recent => ValidationRecent
  <2> SUFFICES ASSUME Inv, Recent, pc = "save", validated.step = global_steps
               PROVE  ActorUpdates(global_steps) - ActorUpdates(validated.weights)
                        <= IF validated.last THEN 2 ELSE 1
    BY DEF ValidationRecent
  <2>1. /\ setup.warmup \in Nat /\ global_steps \in Nat /\ validated.weights \in Nat
        /\ validated.weights \in global_steps - 2 .. global_steps
        /\ ~validated.last => validated.weights \in global_steps - 1 .. global_steps
    BY SetupType DEF Inv, Typed, Recent
  <2>2. ActorUpdates(global_steps) - ActorUpdates(validated.weights) <= 2
    BY <2>1, StepsAndUpdates
  <2>3. ~validated.last => ActorUpdates(global_steps) - ActorUpdates(validated.weights) <= 1
    BY <2>1, StepsAndUpdates
  <2> QED BY <2>2, <2>3
<1> QED BY <1>1, RecentInit, RecentStep, InvAlways, PTL DEF Spec
=============================================================================
