-------------------------- MODULE BoundedStaleness --------------------------
(***************************************************************************)
(* What the fully asynchronous recipe promises of its samples, whatever    *)
(* happens between rollouter, queue and trainer: they are taken from the   *)
(* data in order, at most a window of them is in flight, each is trained   *)
(* at most once, in a batch of the required size, or given up for good,    *)
(* and the version of the parameters counts the batches.                   *)
(***************************************************************************)
EXTENDS Integers, FiniteSets

VARIABLES
  plan,      \* [samples, required, trigger, window], fixed
  issued,    \* samples taken from the data
  flying,    \* those on their way to a batch
  batch, trained,
  given_up,  \* dropped or lost
  version,   \* of the parameters of the trainer
  step,      \* batches of this version, and one
  ended      \* the trainer has left its loop

streamVars == <<plan, issued, flying, batch, trained, given_up, version, step, ended>>

Start ==
  /\ plan \in [samples : Nat, required : Nat \ {0}, trigger : Nat \ {0}, window : Nat]
  /\ issued = 0 /\ version = 0 /\ step = 1 /\ ended = FALSE
  /\ flying = {} /\ batch = {} /\ trained = {} /\ given_up = {}

Issue ==
  /\ issued < plan.samples /\ Cardinality(flying) < plan.window
  /\ issued' = issued + 1 /\ flying' = flying \cup {issued + 1}
  /\ UNCHANGED <<plan, batch, trained, given_up, version, step, ended>>

GiveUp(s) ==
  /\ s \in flying
  /\ flying' = flying \ {s} /\ given_up' = given_up \cup {s}
  /\ UNCHANGED <<plan, issued, batch, trained, version, step, ended>>

Collect(s) ==
  /\ ~ended /\ s \in flying /\ Cardinality(batch) < plan.required
  /\ flying' = flying \ {s} /\ batch' = batch \cup {s}
  /\ UNCHANGED <<plan, issued, trained, given_up, version, step, ended>>

Train ==
  /\ ~ended /\ Cardinality(batch) = plan.required
  /\ trained' = trained \cup batch /\ batch' = {}
  /\ IF step < plan.trigger THEN step' = step + 1 /\ version' = version
                            ELSE step' = 1 /\ version' = version + 1
  /\ UNCHANGED <<plan, issued, flying, given_up, ended>>

\* Leaving the loop may publish what was trained since the last synchronization.
Leave ==
  /\ ~ended /\ ended' = TRUE
  /\ \/ version' = version + 1 /\ step' = 1
     \/ UNCHANGED <<version, step>>
  /\ UNCHANGED <<plan, issued, flying, batch, trained, given_up>>

Advance == Issue \/ Train \/ Leave \/ \E s \in flying : GiveUp(s) \/ Collect(s)

Promise == Start /\ [][Advance]_streamVars
=============================================================================
