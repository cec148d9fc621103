---------------------------- MODULE MessageQueue ----------------------------
(***************************************************************************)
(* The Ray actor between rollouter and trainer                             *)
(* (recipe/fully_async_policy/message_queue.py).  Its methods are          *)
(* coroutines of one event loop around one asyncio lock; the lock is never *)
(* held across an await other than Condition.wait, so every method is one  *)
(* step, except get_sample, which may sleep and re-checks when it wakes.   *)
(***************************************************************************)
EXTENDS Integers, Sequences

CONSTANTS
  Getters,       \* callers of get_sample; one call at a time each
  max_queue_size,
  MaxPuts,       \* bound: calls of put_sample
  None, NoAnswer

ASSUME QueueAssumption == /\ max_queue_size \in Nat \ {0}
                          /\ MaxPuts \in Nat
                          /\ None \notin Nat /\ NoAnswer \notin Nat
                          /\ None # NoAnswer

VARIABLES
  queue,            \* samples, oldest first; a sample is the number of its put
  running,
  total_produced, total_consumed, dropped_samples,
  cleared,          \* history: samples thrown away by clear_queue
  call,             \* call[g]: where g's get_sample call is
  answer            \* answer[g]: what its last finished call returned

vars == <<queue, running, total_produced, total_consumed, dropped_samples,
          cleared, call, answer>>

Sleeping == {g \in Getters : call[g] = "waiting"}

\* Condition.notify_all: every sleeper will run again.
NotifyAll == [g \in Getters |-> IF g \in Sleeping THEN "notified" ELSE call[g]]

Init == /\ queue = <<>> /\ running = TRUE
        /\ total_produced = 0 /\ total_consumed = 0 /\ dropped_samples = 0 /\ cleared = 0
        /\ call = [g \in Getters |-> "idle"]
        /\ answer = [g \in Getters |-> NoAnswer]

-----------------------------------------------------------------------------
(* put_sample *)

Full == Len(queue) >= max_queue_size

WithNewest == Append(IF Full THEN Tail(queue) ELSE queue, total_produced + 1)

\* Mutant: consumers are woken only by a put into a non-empty queue.
NotifyLate == IF queue # <<>> THEN NotifyAll ELSE call

Woken == NotifyAll

PutSample ==
  /\ total_produced < MaxPuts
  /\ queue' = WithNewest
  /\ dropped_samples' = dropped_samples + (IF Full THEN 1 ELSE 0)
  /\ total_produced' = total_produced + 1
  /\ call' = Woken
  /\ UNCHANGED <<running, total_consumed, cleared, answer>>

-----------------------------------------------------------------------------
(* get_sample: the while loop, run when the call starts and at each wake-up *)

CallGet(g) ==
  /\ call[g] = "idle"
  /\ call' = [call EXCEPT ![g] = "runnable"]
  /\ UNCHANGED <<queue, running, total_produced, total_consumed, dropped_samples,
                 cleared, answer>>

Ready(g) == call[g] \in {"runnable", "notified"}

Sleep(g) ==
  /\ Ready(g) /\ queue = <<>> /\ running
  /\ call' = [call EXCEPT ![g] = "waiting"]
  /\ UNCHANGED <<queue, running, total_produced, total_consumed, dropped_samples,
                 cleared, answer>>

\* Mutant: the woken call does not look again whether the queue still holds a sample.
ReturnUnchecked(g) ==
  /\ Ready(g) /\ (queue # <<>> \/ call[g] = "notified")
  /\ call' = [call EXCEPT ![g] = "returned"]
  /\ answer' = [answer EXCEPT ![g] = IF queue = <<>> THEN None ELSE Head(queue)]
  /\ queue' = IF queue = <<>> THEN <<>> ELSE Tail(queue)
  /\ total_consumed' = total_consumed + 1
  /\ UNCHANGED <<running, total_produced, dropped_samples, cleared>>

ReturnSample(g) ==
  /\ Ready(g) /\ queue # <<>>
  /\ call' = [call EXCEPT ![g] = "returned"]
  /\ answer' = [answer EXCEPT ![g] = Head(queue)]
  /\ queue' = Tail(queue)
  /\ total_consumed' = total_consumed + 1
  /\ UNCHANGED <<running, total_produced, dropped_samples, cleared>>

ReturnNone(g) ==
  /\ Ready(g) /\ queue = <<>> /\ ~running
  /\ call' = [call EXCEPT ![g] = "returned"]
  /\ answer' = [answer EXCEPT ![g] = None]
  /\ UNCHANGED <<queue, running, total_produced, total_consumed, dropped_samples, cleared>>

\* The caller has the result and may call again.
Collect(g) ==
  /\ call[g] = "returned"
  /\ call' = [call EXCEPT ![g] = "idle"]
  /\ UNCHANGED <<queue, running, total_produced, total_consumed, dropped_samples,
                 cleared, answer>>

-----------------------------------------------------------------------------

ClearQueue ==
  /\ cleared' = cleared + Len(queue)
  /\ queue' = <<>>
  /\ UNCHANGED <<running, total_produced, total_consumed, dropped_samples, call, answer>>

\* Mutant: shutdown does not notify.
ShutdownSilently ==
  /\ running' = FALSE
  /\ UNCHANGED <<queue, total_produced, total_consumed, dropped_samples, cleared, call, answer>>

Shutdown ==
  /\ running' = FALSE
  /\ call' = NotifyAll
  /\ UNCHANGED <<queue, total_produced, total_consumed, dropped_samples, cleared, answer>>

GetStep(g) == Sleep(g) \/ ReturnSample(g) \/ ReturnNone(g)

Next == \/ PutSample \/ ClearQueue \/ Shutdown
        \/ \E g \in Getters : CallGet(g) \/ GetStep(g) \/ Collect(g)

Spec == Init /\ [][Next]_vars

\* The event loop runs a woken coroutine.
Fairness == \A g \in Getters : WF_vars(GetStep(g))
FairSpec == Spec /\ Fairness

-----------------------------------------------------------------------------

(* Types; the queue never exceeds its size, answers are samples or None. *)
TypeOK ==
  /\ queue \in Seq(1 .. total_produced) /\ Len(queue) <= max_queue_size
  /\ running \in BOOLEAN
  /\ total_produced \in Nat /\ total_consumed \in Nat
  /\ dropped_samples \in Nat /\ cleared \in Nat
  /\ call \in [Getters -> {"idle", "runnable", "waiting", "notified", "returned"}]
  /\ answer \in [Getters -> Nat \cup {None, NoAnswer}]

(* No lost wake-up: a get_sample call sleeps, un-notified, only while there is nothing to
   return and the queue is running. *)
NoLostWakeup == Sleeping # {} => queue = <<>> /\ running

(* The statistics add up: every sample produced was consumed, dropped, cleared, or is still
   in the queue. *)
CountersAddUp ==
  total_produced = total_consumed + dropped_samples + cleared + Len(queue)

(* The queue holds the newest samples, in the order they were put, with no gap: what a full
   queue forgets is the oldest sample, never the one just put. *)
NewestKept ==
  \A i \in 1 .. Len(queue) : queue[i] = total_produced - Len(queue) + i

(* After shutdown no get_sample call sleeps forever. *)
ShutdownReleases ==
  \A g \in Getters : ~running ~> call[g] \in {"idle", "returned"}

(* The actor is the bounded, oldest-forgetting FIFO of SampleQueue; a call that sleeps, is
   woken in vain and sleeps again is invisible from outside. *)
Promised == INSTANCE SampleQueue WITH
  Capacity <- max_queue_size, put <- total_produced, open <- running,
  answer <- [g \in Getters |-> IF call[g] = "returned" THEN answer[g] ELSE NoAnswer]
IsSampleQueue == Promised!Promise
=============================================================================
