---------------------------- MODULE MCOneStepOff ----------------------------
(* Data sizes, frequencies and reward modes of OneStepOff for TLC. *)
EXTENDS OneStepOff

Plain == [batches |-> 3, epochs |-> 2, total |-> 5, save |-> 2, test |-> 2, warmup |-> 0,
          balance |-> TRUE, early |-> FALSE]

\* Early rewards; a run as long as its data; one epoch, saved at every step; a
\* warm-up of the critic; early rewards in an order that balancing changes.
AllSetups ==
    {Plain,
     [Plain EXCEPT !.balance = FALSE, !.early = TRUE, !.total = 6, !.test = 1],
     [Plain EXCEPT !.epochs = 1, !.total = 3, !.save = 1],
     [Plain EXCEPT !.batches = 6, !.epochs = 1, !.total = 4, !.save = 1, !.warmup = 2],
     [Plain EXCEPT !.early = TRUE, !.save = 3]}
=============================================================================
