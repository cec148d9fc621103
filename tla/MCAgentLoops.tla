---------------------------- MODULE MCAgentLoops ----------------------------
(* Batches of AgentLoops for TLC. *)
EXTENDS AgentLoops

Plain == [active |-> {1, 2}, tools |-> 2, parallel |-> 2, rate |-> 1,
          interactions |-> FALSE, logprobs |-> TRUE, assistant |-> 0, user |-> 0,
          slack |-> 0]

\* Two conversations with two calls each for one token of the bucket; more calls
\* than max_parallel_calls, short prompts, limits on turns; three conversations
\* with a simulated user, more than the cache remembers.
AllSetups ==
    {Plain,
     [Plain EXCEPT !.tools = 3, !.rate = 2, !.logprobs = FALSE, !.slack = 1, !.user = 1],
     [Plain EXCEPT !.active = {1, 2, 3}, !.tools = 0, !.interactions = TRUE,
                   !.assistant = 2]}
=============================================================================
