----------------------------- MODULE AgentLoops -----------------------------
(* The agent loops over the servers that AsyncLLMServerManager chooses: a job
   runs either tool conversations against plain servers or single turns that
   the fully asynchronous recipe may cut. *)
EXTENDS ToolAgentLoop, PartialRollout

VARIABLE recipe   \* the loop this job runs

vars == <<recipe, tools, partial>>

NoTools   == <<setup, agent, server, others, tool_side>>
NoPartial == <<server_side, calls, outputs, sync, early>>

\* The set-ups are those of the tools: any one does for the other recipe.
Init ==
    /\ recipe \in {"tool_agent", "partial_single_turn_agent"} /\ ToolInit /\ PartialInit
    /\ recipe # "tool_agent" => setup = CHOOSE x \in Setups : TRUE

Tools   == recipe = "tool_agent" /\ ToolNext /\ UNCHANGED <<recipe, NoPartial>>
Partial == recipe = "partial_single_turn_agent" /\ PartialNext /\ UNCHANGED <<recipe, NoTools>>

Complete == \A r \in Responses : calls[r].at = "idle" /\ ~outputs[r].is_cancel
Over == IF recipe = "tool_agent"
        THEN \A c \in Conversations : agent[c].state \in {"terminated", "failed"}
        ELSE Complete /\ phase = "run"

Ended == Over /\ UNCHANGED vars

Next == Tools \/ Partial \/ Ended

Spec == Init /\ [][Next]_vars

\* Everything runs on; only the synchronizer is free never to start.
FairSpec ==
    /\ Spec
    /\ WF_vars(Tools)
    /\ WF_vars(Partial /\ Synchronizer)
    /\ WF_vars(Partial /\ Rollout)

StickySessions == [][TurnSticks]_vars

\* Every job ends; a conversation fails only in one with a simulated user, whose
\* answers are not held to the response length.
EveryLoopEnds ==
    <>(/\ IF recipe = "tool_agent"
          THEN \A c \in Conversations :
                 agent[c].state = "terminated" \/ (setup.interactions /\ agent[c].state = "failed")
          ELSE Complete)
=============================================================================
