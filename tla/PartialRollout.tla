--------------------------- MODULE PartialRollout ---------------------------
(* Partial rollout of the fully asynchronous recipe: vLLMHttpServerForPartial,
   PartialSingleTurnAgentLoop and the rollouter that cancels the servers, waits
   for what they return, has the weights copied and resumes them.  A response
   that was cut goes on where it was cut, under a new request id and perhaps at
   another server.

   A token is its position, the weights that generated it and whether it ends
   the response; its log-prob is named by the token itself. *)
EXTENDS ServerChoice

CONSTANTS
    Responses,       \* the responses of one sample
    PartialLength,   \* response_length of this recipe
    ModelLen,        \* tokens between the prompt and max_model_len
    MaxEvents        \* bound: synchronizations, and submissions while one runs

ASSUME PartialAssumption == /\ {PartialLength, ModelLen, MaxEvents} \subseteq Nat
                            /\ 0 < PartialLength /\ PartialLength <= ModelLen

VARIABLES
    paused,       \* server -> does it turn requests away
    req_output,   \* request -> its server, tokens so far, cancel_event, engine ready
    calls,        \* response -> its call of the agent loop
    outputs,      \* response -> its FullyAsyncAgentLoopOutput
    phase,        \* what the rollouter and the synchronizer do
    todo,         \* servers still to be cancelled or resumed
    weights,      \* version of the weights of the servers
    current_param_version,   \* of the rollouter
    early         \* submissions that the monitor's resume made possible

server_side == <<paused, req_output>>
sync        == <<phase, todo, weights, current_param_version>>
partial     == <<choice, server_side, calls, outputs, sync, early>>

NoOutput == [ids |-> <<>>, log_probs |-> <<>>, is_cancel |-> TRUE, start |-> -1, end |-> -1]
Idle     == [at |-> "idle", attempt |-> 0, version |-> 0]

PartialInit ==
    /\ ChoiceInit
    /\ paused = [s \in Servers |-> FALSE] /\ req_output = <<>>
    /\ calls = [r \in Responses |-> Idle] /\ outputs = [r \in Responses |-> NoOutput]
    /\ phase = "run" /\ todo = {}
    /\ weights = 0 /\ current_param_version = 0 /\ early = 0

Request(r) == <<r, calls[r].attempt>>
Started(r) == outputs[r] # NoOutput

\* Synchronizations begun and early submissions, which MaxEvents bounds.
Events == weights + early + (IF phase \in {"cancel", "copy"} THEN 1 ELSE 0)

Take(list, n) == SubSeq(list, 1, IF n < Len(list) THEN n ELSE Len(list))

-----------------------------------------------------------------------------
(* The agent loop. *)

\* Responses of the sample that go to a server: a finished one is returned as is.
ToGenerate == {r \in Responses : outputs[r].is_cancel}

\* The rollouter submits the sample, anew or from cancel_queue, with its version.
\* A pause that the monitor has undone lets it do so in a synchronization while
\* nobody has the lock: from the end of pause() to resume(), which holds it.
Submit ==
    /\ ToGenerate # {} /\ \A r \in Responses : calls[r].at = "idle"
    /\ \/ phase = "run" /\ UNCHANGED early
       \/ /\ phase \in {"copy", "update", "resume"}
          /\ phase = "resume" => todo = Servers
          /\ Events < MaxEvents /\ early' = early + 1
    /\ calls' = [r \in Responses |->
                   IF r \in ToGenerate
                   THEN [at |-> "sent", attempt |-> calls[r].attempt + 1,
                         version |-> current_param_version]
                   ELSE calls[r]]
    /\ UNCHANGED <<choice, server_side, outputs, sync>>

\* What run() makes of a server's answer: response and mask are cut to
\* response_length, log_probs are not.
Merged(r, tokens, cut) ==
    LET old == outputs[r]
    IN [ids       |-> Take(old.ids \o tokens, PartialLength),
        log_probs |-> old.log_probs \o tokens, is_cancel |-> cut,
        start     |-> IF Started(r) THEN old.start ELSE calls[r].version,
        end       |-> calls[r].version]

Return(r, tokens, cut) ==
    /\ outputs' = [outputs EXCEPT ![r] = Merged(r, tokens, cut)]
    /\ calls'   = [calls EXCEPT ![r].at = "idle"]

-----------------------------------------------------------------------------
(* The server.  Its locked sections below await nothing, and are atomic. *)

\* Mutant: a paused server takes the request on.
ArriveAlways(r, s) ==
    /\ calls[r].at = "sent" /\ ChooseServer(Request(r), s)
    /\ req_output' = [q \in DOMAIN req_output \cup {Request(r)} |->
                        IF q = Request(r)
                        THEN [server |-> s, tokens |-> <<>>, cancel |-> FALSE, ready |-> FALSE]
                        ELSE req_output[q]]
    /\ calls' = [calls EXCEPT ![r].at = "engine"]
    /\ UNCHANGED <<paused, outputs, sync, early>>

\* generate_for_partial, until it waits: a paused server answers at once.
Arrive(r, s) ==
    /\ calls[r].at = "sent" /\ ChooseServer(Request(r), s)
    /\ IF paused[s]
       THEN Return(r, <<>>, TRUE) /\ UNCHANGED req_output
       ELSE /\ req_output' =
                 [q \in DOMAIN req_output \cup {Request(r)} |->
                    IF q = Request(r)
                    THEN [server |-> s, tokens |-> <<>>, cancel |-> FALSE, ready |-> FALSE]
                    ELSE req_output[q]]
            /\ calls' = [calls EXCEPT ![r].at = "engine"]
            /\ UNCHANGED outputs
    /\ UNCHANGED <<paused, sync, early>>

\* The engine, one token further; the prompt holds what was generated before.
EngineStep(r) ==
    /\ calls[r].at = "engine" /\ ~req_output[Request(r)].ready
    /\ \E eos \in BOOLEAN :
         LET entry == req_output[Request(r)]
             pos   == Len(outputs[r].ids) + Len(entry.tokens) + 1
             token == [pos |-> pos, weights |-> weights, eos |-> eos]
         IN req_output' = [req_output EXCEPT ![Request(r)].tokens = Append(@, token),
                                             ![Request(r)].ready = eos \/ pos = ModelLen]
    /\ UNCHANGED <<choice, paused, calls, outputs, sync, early>>

\* Mutant: a request whose cancel_event is set counts as cut.
CutByEvent(entry) == entry.cancel

\* is_cancel: the generation was not among the tasks done.
Cut(entry) == ~entry.ready

\* The wait is over: the generation is done or its cancel_event set.  Without a
\* token the entries stay in the tables.
Collect(r) ==
    /\ calls[r].at = "engine"
    /\ LET entry == req_output[Request(r)]
       IN /\ entry.ready \/ entry.cancel
          /\ IF entry.tokens = <<>>
             THEN Return(r, <<>>, TRUE) /\ UNCHANGED req_output
             ELSE /\ Return(r, entry.tokens, Cut(entry))
                  /\ req_output' = [q \in DOMAIN req_output \ {Request(r)} |-> req_output[q]]
    /\ UNCHANGED <<choice, paused, sync, early>>

\* cancel() of one server.
CancelServer(s) ==
    /\ phase = "cancel" /\ s \in todo
    /\ todo' = todo \ {s}
    /\ paused' = [paused EXCEPT ![s] = TRUE]
    /\ req_output' = [q \in DOMAIN req_output |->
                        [req_output[q] EXCEPT !.cancel = @ \/ req_output[q].server = s]]
    /\ UNCHANGED <<choice, calls, outputs, phase, weights, current_param_version, early>>

\* resume() of one server.
ResumeServer(s) ==
    /\ phase = "resume" /\ s \in todo
    /\ todo' = todo \ {s}
    /\ paused' = [paused EXCEPT ![s] = FALSE]
    /\ UNCHANGED <<choice, req_output, calls, outputs, phase, weights>>
    /\ UNCHANGED <<current_param_version, early>>

-----------------------------------------------------------------------------
(* The rollouter's pause and resume around a copy of the weights. *)

Enter(next, servers) == phase' = next /\ todo' = servers

Pause ==
    /\ phase = "run" /\ Events < MaxEvents
    /\ Enter("cancel", Servers)
    /\ UNCHANGED <<choice, server_side, calls, outputs, weights, current_param_version, early>>

\* All servers are cancelled and all calls have come back.
Drained ==
    /\ phase = "cancel" /\ todo = {}
    /\ \A r \in Responses : calls[r].at = "idle"
    /\ Enter("copy", {})
    /\ UNCHANGED <<choice, server_side, calls, outputs, weights, current_param_version, early>>

Copied ==
    /\ phase = "copy"
    /\ weights' = weights + 1
    /\ Enter("update", {})
    /\ UNCHANGED <<choice, server_side, calls, outputs, current_param_version, early>>

\* update_param_version, then resume.
UpdateVersion ==
    /\ phase = "update"
    /\ current_param_version' = weights
    /\ Enter("resume", Servers)
    /\ UNCHANGED <<choice, server_side, calls, outputs, weights, early>>

Resumed ==
    /\ phase = "resume" /\ todo = {}
    /\ Enter("run", {})
    /\ UNCHANGED <<choice, server_side, calls, outputs, weights, current_param_version, early>>

Synchronizer == \/ Drained \/ Copied \/ UpdateVersion \/ Resumed
                \/ \E s \in Servers : CancelServer(s) \/ ResumeServer(s)

Rollout == \/ Submit
           \/ \E r \in Responses :
                EngineStep(r) \/ Collect(r) \/ \E s \in Servers : Arrive(r, s)

PartialNext == Pause \/ Synchronizer \/ Rollout

-----------------------------------------------------------------------------
(* Properties. *)

\* A response is the concatenation of its pieces however often it was cut: each
\* position once and in order, nothing after the token that ended it, and every
\* token stands beside its own log-prob.
ContinuationExact ==
    \A r \in Responses :
      LET out == outputs[r]
      IN /\ \A i \in 1 .. Len(out.ids) : /\ out.ids[i].pos = i
                                         /\ out.ids[i].eos => i = Len(out.ids)
                                         /\ out.log_probs[i] = out.ids[i]
         /\ out.is_cancel => \A i \in 1 .. Len(out.ids) : ~out.ids[i].eos
         /\ ~out.is_cancel => out.ids # <<>>

\* No token is generated while weights are copied, and param_version_start and
\* param_version_end bracket the weights of a response's tokens.  (A submission
\* during a synchronization may reach a server just resumed with newer weights.)
VersionsBracket ==
    /\ phase = "copy" => \A r \in Responses : calls[r].at # "engine"
    /\ \A r \in Responses : \A i \in 1 .. Len(outputs[r].ids) :
         /\ outputs[r].start <= outputs[r].ids[i].weights
         /\ early = 0 => outputs[r].ids[i].weights <= outputs[r].end
=============================================================================
