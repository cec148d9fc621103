-------------------------- MODULE MCHeteroTraining --------------------------
(* Schedules, PACE sources and rank counts of HeteroTraining for TLC. *)
EXTENDS HeteroTraining

Plain == [mode |-> "both", opd |-> 2, grpo |-> 1, warmup |-> 2, rollouts |-> 2,
          source |-> "rollout", interval |-> 1, ranks |-> 2, parallel |-> FALSE,
          save |-> 2, total |-> 4]

\* Both updates in a step; alternation and warm-up with either reward; one rank
\* with the three threads; groups of three rows over two ranks.
AllSetups ==
    {Plain,
     [Plain EXCEPT !.mode = "alt", !.source = "validation"],
     [Plain EXCEPT !.mode = "alt", !.interval = 2, !.grpo = 2, !.total = 5, !.save = 3],
     [Plain EXCEPT !.mode = "warmup", !.source = "validation", !.interval = 2, !.save = 1],
     [Plain EXCEPT !.source = "off", !.ranks = 1, !.parallel = TRUE, !.total = 2],
     [Plain EXCEPT !.source = "validation", !.rollouts = 3, !.total = 2]}
=============================================================================
