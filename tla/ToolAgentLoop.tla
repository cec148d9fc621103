---------------------------- MODULE ToolAgentLoop ----------------------------
(* ToolAgentLoop: a conversation alternates between generation and the answers
   of tools or of a simulated user, its states being those of the code.  Tools
   of all conversations run in a pool behind one global TokenBucketWorker.

   A token is "prompt", "model" or "env" by its origin; a log-prob is "real" or
   the 0.0 that stands beside a token of the environment. *)
EXTENDS ServerChoice

CONSTANTS
    Setups,          \* the configurations a run may have
    Conversations,   \* request ids
    ResponseLength,  \* response_length
    EnvTokens        \* bound: tokens of one answer of the environment

Setup ==
    [active       : SUBSET Conversations,  \* conversations of the batch
     tools        : Nat,                   \* tool calls the model makes at most
     parallel     : Nat \ {0},             \* max_parallel_calls
     rate         : Nat \ {0},             \* rate_limit
     interactions : BOOLEAN,               \* is there an interaction_config_file
     logprobs     : BOOLEAN,               \* calculate_log_probs
     assistant    : Nat, user : Nat,       \* max_assistant_turns, max_user_turns
     slack        : Nat]                   \* prompt_length less the prompt's length

ASSUME ToolAssumption == /\ Setups \subseteq Setup
                         /\ ResponseLength \in Nat \ {0} /\ EnvTokens \in Nat \ {0}

VARIABLES
    setup,
    agent,       \* conversation -> its AgentData and state
    server,      \* conversation -> server of its last turn
    others,      \* conversation -> ids served since that turn (history)
    tool_call,   \* conversation -> its tool calls, by place
    instances,   \* tool instances that exist
    bucket       \* permits of the semaphore, releases under way

tool_side == <<tool_call, instances, bucket>>
tools     == <<choice, setup, agent, server, others, tool_side>>

NoServer == -1

ToolInit ==
    /\ ChoiceInit
    /\ setup \in Setups
    /\ agent = [c \in Conversations |->
                  [state |-> IF c \in setup.active THEN "pending" ELSE "terminated",
                   prompt_ids |-> <<>>, response_mask |-> <<>>,
                   response_logprobs |-> <<>>, assistant_turns |-> 0, user_turns |-> 0]]
    /\ server = [c \in Conversations |-> NoServer]
    /\ others = [c \in Conversations |-> {}]
    /\ tool_call = [c \in Conversations |-> <<>>] /\ instances = {}
    /\ bucket = [permits |-> setup.rate, releases |-> 0]

Copies(x, n) == [i \in 1 .. n |-> x]
Become(c, a) == agent' = [agent EXCEPT ![c] = a]

-----------------------------------------------------------------------------
(* Pending and generating. *)

Begin(c) ==
    /\ agent[c].state = "pending"
    /\ Become(c, [agent[c] EXCEPT !.state = "generating", !.prompt_ids = <<"prompt">>])
    /\ UNCHANGED <<choice, setup, server, others, tool_side>>

\* The call of server_manager.generate.
Ask(c, s) ==
    /\ agent[c].state = "generating" /\ ChooseServer(c, s)
    /\ Become(c, [agent[c] EXCEPT !.state = "asked"])
    /\ server' = [server EXCEPT ![c] = s]
    /\ others' = [d \in Conversations |-> IF d = c THEN {} ELSE others[d] \cup {c}]
    /\ UNCHANGED <<setup, tool_side>>

\* max_tokens of the server: max_model_len less the prompt.
Room(a) == setup.slack + ResponseLength + 1 - Len(a.prompt_ids)

\* An answer of n tokens.  Mutant: the mask counts answers.
SpokenMaskOnce(a, n) ==
    [a EXCEPT !.prompt_ids = @ \o Copies("model", n),
              !.response_mask = Append(@, 1),
              !.response_logprobs = IF setup.logprobs THEN @ \o Copies("real", n) ELSE @,
              !.assistant_turns = @ + 1]

Spoken(a, n) ==
    [a EXCEPT !.prompt_ids = @ \o Copies("model", n),
              !.response_mask = @ \o Copies(1, n),
              !.response_logprobs = IF setup.logprobs THEN @ \o Copies("real", n) ELSE @,
              !.assistant_turns = @ + 1]

Reached(turns, limit) == limit > 0 /\ turns >= limit

AfterAnswer(a, parsed) ==
    CASE \/ Len(a.response_mask) >= ResponseLength
         \/ Reached(a.assistant_turns, setup.assistant)
         \/ Reached(a.user_turns, setup.user)           -> "terminated"
      [] OTHER -> IF parsed > 0 THEN "processing_tools"
                  ELSE IF setup.interactions THEN "interacting" ELSE "terminated"

\* The calls that run, each with an instance of its tool; a malformed call has its
\* error response at once and no instance.
StartTools(c, n) ==
    \E malformed \in SUBSET (1 .. n) :
      /\ tool_call' = [tool_call EXCEPT ![c] =
                         [k \in 1 .. n |-> IF k \in malformed THEN "returned"
                                           ELSE "acquiring"]]
      /\ instances' = instances \cup {<<c, k>> : k \in (1 .. n) \ malformed}
      /\ UNCHANGED bucket

\* The first max_parallel_calls of the calls that were parsed.
Kept(parsed) == IF parsed < setup.parallel THEN parsed ELSE setup.parallel

\* The server answers; it raises when the prompt leaves no room.
Answer(c) ==
    /\ agent[c].state = "asked"
    /\ \/ /\ Room(agent[c]) <= 0
          /\ Become(c, [agent[c] EXCEPT !.state = "failed"])
          /\ UNCHANGED tool_side
       \/ \E n \in 1 .. Room(agent[c]), parsed \in 0 .. setup.tools :
            LET a    == Spoken(agent[c], n)
                next == AfterAnswer(a, parsed)
            IN /\ Become(c, [a EXCEPT !.state = next])
               /\ IF next = "processing_tools" THEN StartTools(c, Kept(parsed))
                  ELSE UNCHANGED tool_side
    /\ UNCHANGED <<choice, setup, server, others>>

-----------------------------------------------------------------------------
(* Tools. *)

\* TokenBucketWorker.acquire serves one call at a time, and calls reach it in any
\* order: from threads of a pool, whose size delays them and no more.
Acquired(c, k) ==
    /\ k \in DOMAIN tool_call[c] /\ tool_call[c][k] = "acquiring"
    /\ bucket.permits > 0
    /\ tool_call' = [tool_call EXCEPT ![c][k] = "running"]
    /\ bucket' = [bucket EXCEPT !.permits = @ - 1]
    /\ UNCHANGED <<choice, setup, agent, server, others, instances>>

\* Mutant: the release is sent only by a tool that did not raise.
ExecutedUnreleased(c, k) ==
    /\ k \in DOMAIN tool_call[c] /\ tool_call[c][k] = "running"
    /\ tool_call' = [tool_call EXCEPT ![c][k] = "returned"]
    /\ instances' = instances \ {<<c, k>>}
    /\ \/ bucket' = [bucket EXCEPT !.releases = @ + 1]
       \/ UNCHANGED bucket
    /\ UNCHANGED <<choice, setup, agent, server, others>>

\* The tool returns or raises: release of the token is sent and not waited for,
\* the instance goes in _call_tool's finally.
Executed(c, k) ==
    /\ k \in DOMAIN tool_call[c] /\ tool_call[c][k] = "running"
    /\ tool_call' = [tool_call EXCEPT ![c][k] = "returned"]
    /\ instances' = instances \ {<<c, k>>}
    /\ bucket' = [bucket EXCEPT !.releases = @ + 1]
    /\ UNCHANGED <<choice, setup, agent, server, others>>

Released ==
    /\ bucket.releases > 0
    /\ bucket' = [bucket EXCEPT !.releases = @ - 1, !.permits = @ + 1]
    /\ UNCHANGED <<choice, setup, agent, server, others, tool_call, instances>>

\* n tokens of the environment behind the prompt.
Heard(a, n) ==
    [a EXCEPT !.prompt_ids = @ \o Copies("env", n),
              !.response_mask = @ \o Copies(0, n),
              !.response_logprobs = IF @ = <<>> THEN @ ELSE @ \o Copies("zero", n),
              !.user_turns = @ + 1]

\* Mutant: an answer may fill the response.
FitsExactly(a, n) == Len(a.response_mask) + n <= ResponseLength + setup.slack

Fits(a, n) == Len(a.response_mask) + n < ResponseLength

\* All tools have returned; an answer too long for the response ends it.
ToolsReturned(c) ==
    /\ agent[c].state = "processing_tools"
    /\ \A k \in DOMAIN tool_call[c] : tool_call[c][k] = "returned"
    /\ \E n \in 1 .. EnvTokens :
         Become(c, IF Fits(agent[c], n)
                   THEN [Heard(agent[c], n) EXCEPT !.state = "generating"]
                   ELSE [agent[c] EXCEPT !.state = "terminated"])
    /\ tool_call' = [tool_call EXCEPT ![c] = <<>>]
    /\ UNCHANGED <<choice, setup, server, others, instances, bucket>>

\* The simulated user's answer, of any length, may end the conversation.
Interact(c) ==
    /\ agent[c].state = "interacting"
    /\ \E n \in 1 .. EnvTokens, state \in {"terminated", "generating"} :
         Become(c, [Heard(agent[c], n) EXCEPT !.state = state])
    /\ UNCHANGED <<choice, setup, server, others, tool_side>>

ToolNext ==
    \/ Released
    \/ \E c \in Conversations :
         \/ Begin(c) \/ Answer(c) \/ ToolsReturned(c) \/ Interact(c)
         \/ \E s \in Servers : Ask(c, s)
         \/ \E k \in 1 .. setup.parallel : Acquired(c, k) \/ Executed(c, k)

-----------------------------------------------------------------------------
(* Properties. *)

\* Python's list[-n:], which is the whole list for n = 0.
LastOf(list, n) == IF n = 0 THEN list ELSE SubSeq(list, Len(list) - n + 1, Len(list))
Limited(list) == SubSeq(list, 1, IF Len(list) < ResponseLength THEN Len(list) ELSE ResponseLength)

\* What run() returns.
Output(a) ==
    [response_ids  |-> Limited(LastOf(a.prompt_ids, Len(a.response_mask))),
     response_mask |-> Limited(a.response_mask),
     logprobs      |-> Limited(a.response_logprobs)]

\* Whatever turns a conversation took and wherever it was cut: the response has
\* no token of the prompt, the mask selects the model's own tokens, and these,
\* no other, have log-probs of their own.
MaskSelectsModel ==
    \A c \in setup.active : agent[c].state = "terminated" =>
      LET out == Output(agent[c])
      IN /\ Len(out.response_ids) = Len(out.response_mask)
         /\ \A i \in 1 .. Len(out.response_ids) :
              /\ out.response_ids[i] = IF out.response_mask[i] = 1 THEN "model" ELSE "env"
              /\ setup.logprobs => out.logprobs[i] = IF out.response_mask[i] = 1
                                                     THEN "real" ELSE "zero"

\* At most rate_limit tools run at any time over all conversations, no token of
\* the bucket is ever lost, and no instance outlives its call.
Calls(s) == {x \in Conversations \X (1 .. setup.parallel) :
               x[2] \in DOMAIN tool_call[x[1]] /\ tool_call[x[1]][x[2]] = s}
TokensKept ==
    /\ bucket.permits + bucket.releases + Cardinality(Calls("running")) = setup.rate
    /\ instances = Calls("running") \cup Calls("acquiring")

\* "Sticky session: send multi-turn chat completions to same server": a later
\* turn goes elsewhere only if CacheSize other conversations had a turn since.
TurnSticks ==
    \A c \in Conversations :
      server[c] # NoServer /\ server'[c] # server[c] => Cardinality(others[c]) >= CacheSize
=============================================================================
