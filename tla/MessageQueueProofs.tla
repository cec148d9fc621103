------------------------- MODULE MessageQueueProofs -------------------------
(***************************************************************************)
(* The message queue is correct for any number of getters, any capacity    *)
(* and any number of puts: its invariants, and that it implements          *)
(* SampleQueue.                                                            *)
(***************************************************************************)
EXTENDS MessageQueue, TLAPS

\* What is left of a queue after its head is taken.
LEMMA TailFacts ==
  ASSUME NEW S, NEW q \in Seq(S), q # <<>>
  PROVE  /\ Tail(q) \in Seq(S) /\ Len(Tail(q)) = Len(q) - 1
         /\ \A i \in 1 .. Len(q) - 1 : Tail(q)[i] = q[i + 1]
  OBVIOUS

\* What a sequence of samples is after one more was appended.
LEMMA AppendFacts ==
  ASSUME NEW S, NEW q \in Seq(S), NEW x \in S
  PROVE  /\ Append(q, x) \in Seq(S) /\ Len(Append(q, x)) = Len(q) + 1
         /\ \A i \in 1 .. Len(q) + 1 : Append(q, x)[i] = IF i = Len(q) + 1 THEN x ELSE q[i]
  OBVIOUS

\* The type invariant alone is inductive, except for the bound of the queue's elements,
\* which needs nothing but total_produced growing.
THEOREM TypeCorrect == Spec => []TypeOK
<1>1. Init => TypeOK
  BY QueueAssumption DEF Init, TypeOK
<1>2. TypeOK /\ [Next]_vars => TypeOK'
  <2> SUFFICES ASSUME TypeOK, [Next]_vars PROVE TypeOK'
    OBVIOUS
  <2> USE QueueAssumption DEF TypeOK
  <2>1. CASE PutSample
    <3>1. Len(WithNewest) <= max_queue_size /\ WithNewest \in Seq(1 .. total_produced + 1)
      <4> DEFINE q == IF Full THEN Tail(queue) ELSE queue
      <4>1. q \in Seq(1 .. total_produced) /\ Len(q) < max_queue_size
        <5>1. CASE Full
          BY <5>1, TailFacts DEF Full
        <5>2. CASE ~Full
          BY <5>2 DEF Full
        <5>3. QED
          BY <5>1, <5>2
      <4> HIDE DEF q
      <4>2. q \in Seq(1 .. total_produced + 1)
        BY <4>1
      <4>3. QED
        BY <4>1, <4>2, AppendFacts, WithNewest = Append(q, total_produced + 1) DEF WithNewest, q
    <3>2. QED
      BY <2>1, <3>1 DEF PutSample, Woken, NotifyAll, Sleeping
  <2>2. CASE ClearQueue
    BY <2>2 DEF ClearQueue
  <2>3. CASE Shutdown
    BY <2>3 DEF Shutdown, NotifyAll, Sleeping
  <2>4. ASSUME NEW g \in Getters, CallGet(g) PROVE TypeOK'
    BY <2>4 DEF CallGet
  <2>5. ASSUME NEW g \in Getters, Sleep(g) PROVE TypeOK'
    BY <2>5 DEF Sleep
  <2>6. ASSUME NEW g \in Getters, ReturnSample(g) PROVE TypeOK'
    <3>1. /\ Head(queue) \in Nat /\ Tail(queue) \in Seq(1 .. total_produced)
          /\ Len(Tail(queue)) <= max_queue_size
      BY <2>6 DEF ReturnSample
    <3>2. QED
      BY <2>6, <3>1 DEF ReturnSample
  <2>7. ASSUME NEW g \in Getters, ReturnNone(g) PROVE TypeOK'
    BY <2>7 DEF ReturnNone
  <2>8. ASSUME NEW g \in Getters, Collect(g) PROVE TypeOK'
    BY <2>8 DEF Collect
  <2>9. CASE UNCHANGED vars
    BY <2>9 DEF vars
  <2>10. QED
    BY <2>1, <2>2, <2>3, <2>4, <2>5, <2>6, <2>7, <2>8, <2>9 DEF Next, GetStep
<1>3. QED
  BY <1>1, <1>2, PTL DEF Spec

\* No get_sample call sleeps while the queue has a sample or has been shut down.
THEOREM NoCallSleepsInVain == Spec => []NoLostWakeup
<1>1. Init => NoLostWakeup
  BY DEF Init, NoLostWakeup, Sleeping
<1>2. TypeOK /\ NoLostWakeup /\ [Next]_vars => NoLostWakeup'
  <2> SUFFICES ASSUME TypeOK, NoLostWakeup, [Next]_vars PROVE NoLostWakeup'
    OBVIOUS
  <2> USE DEF TypeOK, NoLostWakeup, Sleeping
  <2>1. CASE PutSample
    BY <2>1 DEF PutSample, Woken, NotifyAll
  <2>2. CASE ClearQueue
    BY <2>2 DEF ClearQueue
  <2>3. CASE Shutdown
    BY <2>3 DEF Shutdown, NotifyAll
  <2>4. ASSUME NEW g \in Getters, CallGet(g) PROVE NoLostWakeup'
    BY <2>4 DEF CallGet
  <2>5. ASSUME NEW g \in Getters, Sleep(g) PROVE NoLostWakeup'
    BY <2>5 DEF Sleep
  <2>6. ASSUME NEW g \in Getters, ReturnSample(g) PROVE NoLostWakeup'
    BY <2>6 DEF ReturnSample
  <2>7. ASSUME NEW g \in Getters, ReturnNone(g) PROVE NoLostWakeup'
    BY <2>7 DEF ReturnNone
  <2>8. ASSUME NEW g \in Getters, Collect(g) PROVE NoLostWakeup'
    BY <2>8 DEF Collect
  <2>9. CASE UNCHANGED vars
    BY <2>9 DEF vars
  <2>10. QED
    BY <2>1, <2>2, <2>3, <2>4, <2>5, <2>6, <2>7, <2>8, <2>9 DEF Next, GetStep
<1>3. QED
  BY <1>1, <1>2, TypeCorrect, PTL DEF Spec

\* Every sample produced is accounted for once.
THEOREM Accounted == Spec => []CountersAddUp
<1>1. Init => CountersAddUp
  BY DEF Init, CountersAddUp
<1>2. TypeOK /\ CountersAddUp /\ [Next]_vars => CountersAddUp'
  <2> SUFFICES ASSUME TypeOK, CountersAddUp, [Next]_vars PROVE CountersAddUp'
    OBVIOUS
  <2> USE QueueAssumption DEF TypeOK, CountersAddUp
  <2>1. CASE PutSample
    <3>1. Len(WithNewest) = IF Full THEN Len(queue) ELSE Len(queue) + 1
      BY DEF WithNewest, Full
    <3>2. QED
      BY <2>1, <3>1 DEF PutSample
  <2>2. CASE ClearQueue
    BY <2>2 DEF ClearQueue
  <2>3. ASSUME NEW g \in Getters, ReturnSample(g) PROVE CountersAddUp'
    <3>1. Len(Tail(queue)) = Len(queue) - 1
      BY <2>3 DEF ReturnSample
    <3>2. QED
      BY <2>3, <3>1 DEF ReturnSample
  <2>4. CASE Shutdown \/ (\E g \in Getters : CallGet(g) \/ Sleep(g) \/ ReturnNone(g)
                                             \/ Collect(g)) \/ UNCHANGED vars
    BY <2>4 DEF Shutdown, CallGet, Sleep, ReturnNone, Collect, vars
  <2>5. QED
    BY <2>1, <2>2, <2>3, <2>4 DEF Next, GetStep
<1>3. QED
  BY <1>1, <1>2, TypeCorrect, PTL DEF Spec

\* The queue is always the most recent samples in order: a full queue loses its oldest.
THEOREM OldestDropped == Spec => []NewestKept
<1>1. Init => NewestKept
  BY DEF Init, NewestKept
<1>2. TypeOK /\ NewestKept /\ [Next]_vars => NewestKept'
  <2> SUFFICES ASSUME TypeOK, NewestKept, [Next]_vars PROVE NewestKept'
    OBVIOUS
  <2> USE QueueAssumption DEF TypeOK, NewestKept
  <2>1. CASE PutSample
    <3> DEFINE q == IF Full THEN Tail(queue) ELSE queue
    <3>1. /\ q \in Seq(1 .. total_produced)
          /\ \A i \in 1 .. Len(q) : q[i] = total_produced - Len(q) + i
      <4>1. CASE Full
        <5>1. q = Tail(queue) /\ queue # <<>> /\ queue \in Seq(1 .. total_produced)
          BY <4>1 DEF Full
        <5>2. /\ q \in Seq(1 .. total_produced) /\ Len(q) = Len(queue) - 1
              /\ \A i \in 1 .. Len(queue) - 1 : q[i] = queue[i + 1]
          BY <5>1, TailFacts
        <5> HIDE DEF q
        <5>3. \A i \in 1 .. Len(q) : q[i] = total_produced - Len(q) + i
          BY <5>2
        <5>4. QED
          BY <5>2, <5>3
      <4>2. CASE ~Full
        BY <4>2
      <4>3. QED
        BY <4>1, <4>2
    <3> HIDE DEF q
    <3>2. /\ Len(Append(q, total_produced + 1)) = Len(q) + 1
          /\ \A i \in 1 .. Len(q) + 1 :
               Append(q, total_produced + 1)[i] = IF i = Len(q) + 1 THEN total_produced + 1
                                                                    ELSE q[i]
      BY <3>1
    <3>3. queue' = Append(q, total_produced + 1) /\ total_produced' = total_produced + 1
      BY <2>1 DEF PutSample, WithNewest, q
    <3>4. QED
      BY <3>1, <3>2, <3>3
  <2>2. CASE ClearQueue
    BY <2>2 DEF ClearQueue
  <2>3. ASSUME NEW g \in Getters, ReturnSample(g) PROVE NewestKept'
    <3>1. /\ Len(Tail(queue)) = Len(queue) - 1
          /\ \A i \in 1 .. Len(queue) - 1 : Tail(queue)[i] = queue[i + 1]
      BY <2>3 DEF ReturnSample
    <3>2. QED
      BY <2>3, <3>1 DEF ReturnSample
  <2>4. CASE Shutdown \/ (\E g \in Getters : CallGet(g) \/ Sleep(g) \/ ReturnNone(g)
                                             \/ Collect(g)) \/ UNCHANGED vars
    BY <2>4 DEF Shutdown, CallGet, Sleep, ReturnNone, Collect, vars
  <2>5. QED
    BY <2>1, <2>2, <2>3, <2>4 DEF Next, GetStep
<1>3. QED
  BY <1>1, <1>2, TypeCorrect, PTL DEF Spec

\* Seen through its answers, the actor behaves as the bounded FIFO of SampleQueue.
THEOREM Implements == Spec => IsSampleQueue
<1> DEFINE seen == [g \in Getters |-> IF call[g] = "returned" THEN answer[g] ELSE NoAnswer]
<1>1. Init => Promised!Start
  BY DEF Init, Promised!Start
<1>2. TypeOK /\ TypeOK' /\ [Next]_vars => [Promised!Step]_(Promised!abstractVars)
  <2> SUFFICES ASSUME TypeOK, TypeOK', [Next]_vars
               PROVE  [Promised!Step]_(Promised!abstractVars)
    OBVIOUS
  <2> USE QueueAssumption DEF TypeOK, Promised!abstractVars
  <2>1. CASE PutSample
    <3>1. seen' = seen
      BY <2>1 DEF PutSample, Woken, NotifyAll, Sleeping
    <3>2. queue' = Promised!PutInto(queue, total_produced + 1, max_queue_size)
      BY <2>1 DEF PutSample, WithNewest, Full, Promised!PutInto
    <3>3. Promised!Put
      BY <2>1, <3>1, <3>2 DEF PutSample, Promised!Put
    <3>4. QED
      BY <3>3 DEF Promised!Step
  <2>2. CASE ClearQueue
    BY <2>2 DEF ClearQueue, Promised!Step, Promised!Clear
  <2>3. CASE Shutdown
    <3>1. seen' = seen
      BY <2>3 DEF Shutdown, NotifyAll, Sleeping
    <3>2. Promised!Close
      BY <2>3, <3>1 DEF Shutdown, Promised!Close
    <3>3. QED
      BY <3>2 DEF Promised!Step
  <2>4. ASSUME NEW g \in Getters, CallGet(g) \/ Sleep(g)
        PROVE  [Promised!Step]_(Promised!abstractVars)
    <3>1. seen' = seen
      BY <2>4 DEF CallGet, Sleep, Ready
    <3>2. QED
      BY <2>4, <3>1 DEF CallGet, Sleep
  <2>5. ASSUME NEW g \in Getters, ReturnSample(g) PROVE Promised!Take(g)
    <3>1. seen[g] = NoAnswer /\ seen' = [seen EXCEPT ![g] = Head(queue)]
      BY <2>5 DEF ReturnSample, Ready
    <3>2. QED
      BY <2>5, <3>1 DEF ReturnSample, Promised!Take
  <2>6. ASSUME NEW g \in Getters, ReturnNone(g) PROVE Promised!Refuse(g)
    <3>1. seen[g] = NoAnswer /\ seen' = [seen EXCEPT ![g] = None]
      BY <2>6 DEF ReturnNone, Ready
    <3>2. QED
      BY <2>6, <3>1 DEF ReturnNone, Promised!Refuse
  <2>7. ASSUME NEW g \in Getters, Collect(g) PROVE [Promised!Step]_(Promised!abstractVars)
    <3>1. seen' = [seen EXCEPT ![g] = NoAnswer]
      BY <2>7 DEF Collect
    <3>2. CASE answer[g] = NoAnswer
      <4>1. seen' = seen
        BY <3>1, <3>2, <2>7 DEF Collect
      <4>2. QED
        BY <2>7, <4>1 DEF Collect
    <3>3. CASE answer[g] # NoAnswer
      BY <2>7, <3>1, <3>3 DEF Collect, Promised!Step, Promised!Collect
    <3>4. QED
      BY <3>2, <3>3
  <2>8. CASE UNCHANGED vars
    BY <2>8 DEF vars
  <2>9. QED
    BY <2>1, <2>2, <2>3, <2>4, <2>5, <2>6, <2>7, <2>8 DEF Next, GetStep, Promised!Step
<1>3. QED
  BY <1>1, <1>2, TypeCorrect, PTL DEF Spec, IsSampleQueue, Promised!Promise
=============================================================================
