---------------------------- MODULE SampleQueue ----------------------------
(***************************************************************************)
(* What the message queue between rollouter and trainer promises: a        *)
(* bounded FIFO that makes room by forgetting its oldest sample, and gets  *)
(* that are answered with the oldest sample kept, or with None once the    *)
(* queue is closed and empty.  Samples are numbered in the order of their  *)
(* put.                                                                    *)
(***************************************************************************)
EXTENDS Integers, Sequences

CONSTANTS Getters, Capacity, None, NoAnswer

VARIABLES
  queue,   \* the samples kept, oldest first
  put,     \* samples put so far
  open,    \* not shut down
  answer   \* answer[g]: what g's get returned, NoAnswer while there is nothing to collect

abstractVars == <<queue, put, open, answer>>

\* The queue q after x was put into it.
PutInto(q, x, cap) == Append(IF Len(q) >= cap THEN Tail(q) ELSE q, x)

Start == queue = <<>> /\ put = 0 /\ open = TRUE /\ answer = [g \in Getters |-> NoAnswer]

Put == /\ put' = put + 1
       /\ queue' = PutInto(queue, put + 1, Capacity)
       /\ UNCHANGED <<open, answer>>

Take(g) == /\ answer[g] = NoAnswer /\ queue # <<>>
           /\ answer' = [answer EXCEPT ![g] = Head(queue)]
           /\ queue' = Tail(queue)
           /\ UNCHANGED <<put, open>>

Refuse(g) == /\ answer[g] = NoAnswer /\ queue = <<>> /\ ~open
             /\ answer' = [answer EXCEPT ![g] = None]
             /\ UNCHANGED <<queue, put, open>>

Collect(g) == /\ answer[g] # NoAnswer
              /\ answer' = [answer EXCEPT ![g] = NoAnswer]
              /\ UNCHANGED <<queue, put, open>>

Clear == queue' = <<>> /\ UNCHANGED <<put, open, answer>>
Close == open' = FALSE /\ UNCHANGED <<queue, put, answer>>

Step == Put \/ Clear \/ Close \/ \E g \in Getters : Take(g) \/ Refuse(g) \/ Collect(g)

Promise == Start /\ [][Step]_abstractVars
=============================================================================
