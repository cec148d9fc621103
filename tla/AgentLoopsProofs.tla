-------------------------- MODULE AgentLoopsProofs --------------------------
(* Proofs about AgentLoops, for any servers, conversations, responses, lengths
   and configurations:

   - the global rate limit keeps its tokens and its limit (Calling);
   - masks and log-probs are those of the model's own tokens (Aligned);
   - a cached conversation stays at its server (Sticky);
   - a response that was cut is its pieces in order, and its versions bracket the
     weights of its tokens (Continued). *)
EXTENDS AgentLoops, FiniteSetTheorems, TLAPS

-----------------------------------------------------------------------------
(* Sequences. *)

LEMMA SubSequence ==
    ASSUME NEW S, NEW s \in Seq(S), NEW a \in Nat \ {0}, NEW b \in 0 .. Len(s), a <= b + 1
    PROVE  /\ SubSeq(s, a, b) \in Seq(S) /\ Len(SubSeq(s, a, b)) = b - a + 1
           /\ \A i \in 1 .. b - a + 1 : SubSeq(s, a, b)[i] = s[a + i - 1]
OBVIOUS

\* u is s and then t.
Joins(u, s, t) ==
    /\ Len(u) = Len(s) + Len(t) /\ Len(s) \in Nat /\ Len(t) \in Nat
    /\ \A i \in 1 .. Len(s) : u[i] = s[i]
    /\ \A i \in 1 .. Len(t) : u[Len(s) + i] = t[i]

LEMMA Joined ==
    ASSUME NEW S, NEW s \in Seq(S), NEW t \in Seq(S)
    PROVE  s \o t \in Seq(S) /\ Joins(s \o t, s, t)
BY DEF Joins

LEMMA Extended ==
    ASSUME NEW S, NEW s \in Seq(S), NEW x \in S
    PROVE  /\ Append(s, x) \in Seq(S) /\ Len(Append(s, x)) = Len(s) + 1 /\ Len(s) \in Nat
           /\ \A i \in 1 .. Len(s) : Append(s, x)[i] = s[i]
           /\ Append(s, x)[Len(s) + 1] = x
OBVIOUS

LEMMA CopiesOf ==
    ASSUME NEW S, NEW x \in S, NEW n \in Nat
    PROVE  /\ Copies(x, n) \in Seq(S) /\ Len(Copies(x, n)) = n
           /\ \A i \in 1 .. n : Copies(x, n)[i] = x
BY DEF Copies

-----------------------------------------------------------------------------
(* The token bucket. *)

ToolStates == {"pending", "generating", "asked", "processing_tools", "interacting",
               "terminated", "failed"}
CallStates == {"returned", "acquiring", "running"}

\* A conversation has calls only while their results are processed.
Calling ==
    /\ setup \in Setups
    /\ DOMAIN agent = Conversations /\ \A c \in Conversations : "state" \in DOMAIN agent[c]
    /\ tool_call \in [Conversations -> Seq(CallStates)]
    /\ \A c \in Conversations : /\ Len(tool_call[c]) <= setup.parallel
                                /\ agent[c].state # "processing_tools" => tool_call[c] = <<>>
    /\ bucket \in [permits : Nat, releases : Nat]
    /\ IsFiniteSet(Calls("running"))
    /\ TokensKept

\* What a conversation does besides its tool calls.
LEMMA CallsUntouched ==
    ASSUME Calling, UNCHANGED <<setup, tool_side>>, NEW c \in Conversations, NEW a,
           agent' = [agent EXCEPT ![c] = a], "state" \in DOMAIN a,
           agent[c].state # "processing_tools"
    PROVE  Calling'
<1>1. /\ DOMAIN agent' = Conversations
      /\ \A d \in Conversations : /\ "state" \in DOMAIN agent'[d]
                                  /\ d # c => agent'[d] = agent[d]
  BY DEF Calling
<1>2. Calls("running")' = Calls("running") /\ Calls("acquiring")' = Calls("acquiring")
  BY DEF Calls, tool_side
<1>3. TokensKept'
  BY <1>2 DEF Calling, TokensKept, tool_side
<1> QED BY <1>1, <1>2, <1>3 DEF Calling, tool_side

InState(call, x, s) == x[2] \in DOMAIN call[x[1]] /\ call[x[1]][x[2]] = s

\* One call of a conversation goes from one state to another.
LEMMA OneCall ==
    ASSUME Calling, NEW c \in Conversations, NEW k \in 1 .. setup.parallel,
           k \in DOMAIN tool_call[c], NEW to \in CallStates, UNCHANGED setup,
           tool_call' = [tool_call EXCEPT ![c][k] = to]
    PROVE  /\ tool_call' \in [Conversations -> Seq(CallStates)]
           /\ \A d \in Conversations : /\ Len(tool_call'[d]) = Len(tool_call[d])
                                       /\ tool_call[d] = <<>> => tool_call'[d] = <<>>
           /\ InState(tool_call', <<c, k>>, to)
           /\ \A s \in CallStates \ {to} : ~InState(tool_call', <<c, k>>, s)
           /\ \A x \in Conversations \X (1 .. setup.parallel) : x # <<c, k>> =>
                \A s : InState(tool_call', x, s) <=> InState(tool_call, x, s)
<1>1. /\ tool_call \in [Conversations -> Seq(CallStates)] /\ tool_call[c] \in Seq(CallStates)
  BY DEF Calling
<1>2. /\ [tool_call[c] EXCEPT ![k] = to] \in Seq(CallStates)
      /\ Len([tool_call[c] EXCEPT ![k] = to]) = Len(tool_call[c])
  BY <1>1
<1>3. /\ tool_call' \in [Conversations -> Seq(CallStates)]
      /\ tool_call'[c] = [tool_call[c] EXCEPT ![k] = to]
      /\ \A d \in Conversations \ {c} : tool_call'[d] = tool_call[d]
  BY <1>1, <1>2
<1>4. /\ \A d \in Conversations : /\ DOMAIN tool_call'[d] = DOMAIN tool_call[d]
                                  /\ Len(tool_call'[d]) = Len(tool_call[d])
      /\ tool_call'[c][k] = to
      /\ \A d \in Conversations : \A o \in DOMAIN tool_call[d] :
           d # c \/ o # k => tool_call'[d][o] = tool_call[d][o]
  BY <1>1, <1>2, <1>3
<1>5. tool_call[c] # <<>>
  OBVIOUS
<1>6. ASSUME NEW x \in Conversations \X (1 .. setup.parallel), NEW s, x # <<c, k>>
      PROVE  InState(tool_call', x, s) <=> InState(tool_call, x, s)
  <2>1. x[1] # c \/ x[2] # k
    BY <1>6
  <2> QED BY <1>4, <2>1 DEF InState
<1>7. /\ InState(tool_call', <<c, k>>, to)
      /\ \A s \in CallStates \ {to} : ~InState(tool_call', <<c, k>>, s)
  BY <1>4 DEF InState
<1> QED BY <1>3, <1>4, <1>5, <1>6, <1>7

\* The calls of a turn start; none of the conversation's were there.
LEMMA StartCalling ==
    ASSUME Calling, NEW c \in Conversations, NEW n \in Nat, n <= setup.parallel,
           tool_call[c] = <<>>, UNCHANGED setup, StartTools(c, n)
    PROVE  /\ tool_call' \in [Conversations -> Seq(CallStates)]
           /\ Len(tool_call'[c]) = n
           /\ \A d \in Conversations \ {c} : tool_call'[d] = tool_call[d]
           /\ Calls("running")' = Calls("running") /\ UNCHANGED bucket
           /\ instances' = Calls("running")' \cup Calls("acquiring")'
<1>1. PICK malformed \in SUBSET (1 .. n) :
        /\ tool_call' = [tool_call EXCEPT ![c] =
                           [k \in 1 .. n |-> IF k \in malformed THEN "returned"
                                             ELSE "acquiring"]]
        /\ instances' = instances \cup {<<c, k>> : k \in (1 .. n) \ malformed}
        /\ UNCHANGED bucket
  BY DEF StartTools
<1> DEFINE new == [k \in 1 .. n |-> IF k \in malformed THEN "returned" ELSE "acquiring"]
           run == {<<c, k>> : k \in (1 .. n) \ malformed}
<1>2. new \in Seq(CallStates) /\ Len(new) = n /\ DOMAIN new = 1 .. n
  BY DEF CallStates
<1>3. /\ tool_call' \in [Conversations -> Seq(CallStates)] /\ tool_call'[c] = new
      /\ \A d \in Conversations \ {c} : tool_call'[d] = tool_call[d]
  BY <1>1, <1>2 DEF Calling
<1>4. setup.parallel \in Nat
  BY ToolAssumption DEF Calling, Setup
<1>5. \A k \in 1 .. setup.parallel :
        /\ k \in DOMAIN new /\ new[k] = "acquiring" <=> k \in (1 .. n) \ malformed
        /\ ~(k \in DOMAIN new /\ new[k] = "running")
  BY <1>4
<1>6. DOMAIN tool_call[c] = {}
  OBVIOUS
<1> HIDE DEF new
<1>7. ASSUME NEW x \in Conversations \X (1 .. setup.parallel)
      PROVE  /\ x \in Calls("running")' <=> x \in Calls("running")
             /\ x \in Calls("acquiring")' <=> x \in Calls("acquiring") \cup run
  <2>1. CASE x[1] = c
    <3>1. x = <<c, x[2]>> /\ x[2] \in 1 .. setup.parallel
      BY <2>1
    <3>2. x \in run <=> x[2] \in (1 .. n) \ malformed
      BY <3>1
    <3> QED BY <1>3, <1>5, <1>6, <2>1, <3>1, <3>2 DEF Calls
  <2>2. CASE x[1] # c
    BY <1>3, <2>2 DEF Calls
  <2> QED BY <2>1, <2>2
<1>8. /\ run \subseteq Conversations \X (1 .. setup.parallel)
      /\ \A s : Calls(s) \subseteq Conversations \X (1 .. setup.parallel)
                /\ Calls(s)' \subseteq Conversations \X (1 .. setup.parallel)
  BY <1>4 DEF Calls
<1>9. Calls("running")' = Calls("running") /\ Calls("acquiring")' = Calls("acquiring") \cup run
  BY <1>7, <1>8
<1>10. instances' = Calls("running")' \cup Calls("acquiring")'
  BY <1>1, <1>9 DEF Calling, TokensKept
<1>11. Len(tool_call'[c]) = n
  BY <1>2, <1>3
<1> QED BY <1>1, <1>3, <1>9, <1>10, <1>11

LEMMA InitCalling == ToolInit => Calling
<1> SUFFICES ASSUME ToolInit PROVE Calling
  OBVIOUS
<1>1. /\ setup \in Setups /\ setup.rate \in Nat /\ setup.parallel \in Nat
      /\ tool_call = [c \in Conversations |-> <<>>] /\ instances = {}
      /\ bucket = [permits |-> setup.rate, releases |-> 0]
  BY ToolAssumption DEF ToolInit, Setup
<1>2. DOMAIN agent = Conversations /\ \A c \in Conversations : "state" \in DOMAIN agent[c]
  BY DEF ToolInit
<1>3. Calls("running") = {} /\ Calls("acquiring") = {}
  BY <1>1 DEF Calls
<1>4. IsFiniteSet(Calls("running")) /\ Cardinality(Calls("running")) = 0
  BY <1>3, FS_EmptySet
<1>5. TokensKept
  BY <1>1, <1>3, <1>4 DEF TokensKept
<1>6. /\ tool_call \in [Conversations -> Seq(CallStates)]
      /\ \A c \in Conversations : tool_call[c] = <<>> /\ Len(tool_call[c]) = 0
  BY <1>1
<1>7. bucket \in [permits : Nat, releases : Nat]
  BY <1>1
<1> QED BY <1>1, <1>2, <1>4, <1>5, <1>6, <1>7 DEF Calling

LEMMA AnswerCalling == ASSUME Calling, NEW c \in Conversations, Answer(c) PROVE Calling'
<1>1. agent[c].state = "asked" /\ UNCHANGED setup /\ "state" \in DOMAIN agent[c]
      /\ setup \in Setup
  BY ToolAssumption DEF Answer, Calling
<1>2. CASE Become(c, [agent[c] EXCEPT !.state = "failed"]) /\ UNCHANGED tool_side
  BY <1>1, <1>2, CallsUntouched DEF Become
<1>3. ASSUME NEW n \in 1 .. Room(agent[c]), NEW parsed \in 0 .. setup.tools,
             Become(c, [Spoken(agent[c], n) EXCEPT
                          !.state = AfterAnswer(Spoken(agent[c], n), parsed)]),
             AfterAnswer(Spoken(agent[c], n), parsed) # "processing_tools",
             UNCHANGED tool_side
      PROVE  Calling'
  <2> DEFINE a == [Spoken(agent[c], n) EXCEPT
                     !.state = AfterAnswer(Spoken(agent[c], n), parsed)]
  <2>1. "state" \in DOMAIN a
    BY <1>1 DEF Spoken
  <2>2. agent' = [agent EXCEPT ![c] = a]
    BY <1>3 DEF Become
  <2> HIDE DEF a
  <2> QED BY <1>1, <1>3, <2>1, <2>2, CallsUntouched
<1>4. ASSUME NEW n \in 1 .. Room(agent[c]), NEW parsed \in 0 .. setup.tools,
             Become(c, [Spoken(agent[c], n) EXCEPT
                          !.state = AfterAnswer(Spoken(agent[c], n), parsed)]),
             AfterAnswer(Spoken(agent[c], n), parsed) = "processing_tools",
             StartTools(c, Kept(parsed))
      PROVE  Calling'
  <2>1. Kept(parsed) \in Nat /\ Kept(parsed) <= setup.parallel /\ setup.parallel \in Nat
    BY <1>1 DEF Kept, Setup
  <2>2. tool_call[c] = <<>>
    BY <1>1 DEF Calling
  <2>3. /\ tool_call' \in [Conversations -> Seq(CallStates)]
        /\ Len(tool_call'[c]) = Kept(parsed)
        /\ \A d \in Conversations \ {c} : tool_call'[d] = tool_call[d]
        /\ Calls("running")' = Calls("running") /\ UNCHANGED bucket
        /\ instances' = Calls("running")' \cup Calls("acquiring")'
    BY <1>1, <1>4, <2>1, <2>2, StartCalling
  <2>4. \A d \in Conversations : Len(tool_call'[d]) <= setup.parallel
    BY <2>1, <2>3 DEF Calling
  <2>5. TokensKept'
    BY <1>1, <2>3 DEF Calling, TokensKept
  <2>6. /\ DOMAIN agent' = Conversations
        /\ \A d \in Conversations : /\ "state" \in DOMAIN agent'[d]
                                    /\ d # c => agent'[d] = agent[d]
        /\ agent'[c].state = "processing_tools"
    BY <1>1, <1>4 DEF Calling, Become, Spoken
  <2>7. \A d \in Conversations : agent'[d].state # "processing_tools" => tool_call'[d] = <<>>
    BY <2>3, <2>6 DEF Calling
  <2> QED BY <1>1, <2>3, <2>4, <2>5, <2>6, <2>7 DEF Calling
<1> QED
  <2>1. \/ Become(c, [agent[c] EXCEPT !.state = "failed"]) /\ UNCHANGED tool_side
        \/ \E n \in 1 .. Room(agent[c]), parsed \in 0 .. setup.tools :
             /\ Become(c, [Spoken(agent[c], n) EXCEPT
                             !.state = AfterAnswer(Spoken(agent[c], n), parsed)])
             /\ IF AfterAnswer(Spoken(agent[c], n), parsed) = "processing_tools"
                THEN StartTools(c, Kept(parsed)) ELSE UNCHANGED tool_side
    BY DEF Answer
  <2> QED BY <1>2, <1>3, <1>4, <2>1

\* A call that waits takes a token.
LEMMA AcquiredCalling ==
    ASSUME Calling, NEW c \in Conversations, NEW k \in 1 .. setup.parallel, Acquired(c, k)
    PROVE  Calling'
<1>1. /\ k \in DOMAIN tool_call[c] /\ tool_call[c][k] = "acquiring" /\ bucket.permits > 0
      /\ UNCHANGED <<setup, agent, instances>>
      /\ tool_call' = [tool_call EXCEPT ![c][k] = "running"]
      /\ bucket' = [bucket EXCEPT !.permits = @ - 1]
  BY DEF Acquired
<1>2. {"running", "acquiring"} \subseteq CallStates
  BY DEF CallStates
<1>3. /\ tool_call' \in [Conversations -> Seq(CallStates)]
      /\ \A d \in Conversations : /\ Len(tool_call'[d]) = Len(tool_call[d])
                                  /\ tool_call[d] = <<>> => tool_call'[d] = <<>>
      /\ InState(tool_call', <<c, k>>, "running") /\ ~InState(tool_call', <<c, k>>, "acquiring")
      /\ \A x \in Conversations \X (1 .. setup.parallel) : x # <<c, k>> =>
           \A s : InState(tool_call', x, s) <=> InState(tool_call, x, s)
  BY <1>1, <1>2, OneCall
<1>4. /\ <<c, k>> \in Calls("acquiring") /\ <<c, k>> \notin Calls("running")
      /\ Calls("running")' = Calls("running") \cup {<<c, k>>}
      /\ Calls("acquiring")' = Calls("acquiring") \ {<<c, k>>}
  BY <1>1, <1>3 DEF Calls, InState
<1>5. /\ IsFiniteSet(Calls("running")')
      /\ Cardinality(Calls("running")') = Cardinality(Calls("running")) + 1
      /\ Cardinality(Calls("running")) \in Nat
  <2>1. IsFiniteSet(Calls("running"))
    BY DEF Calling
  <2>2. /\ IsFiniteSet(Calls("running") \cup {<<c, k>>})
        /\ Cardinality(Calls("running") \cup {<<c, k>>}) = Cardinality(Calls("running")) + 1
        /\ Cardinality(Calls("running")) \in Nat
    BY <1>4, <2>1, FS_AddElement, FS_CardinalityType
  <2> QED BY <1>4, <2>2
<1>6. /\ bucket.permits \in Nat /\ bucket.releases \in Nat
      /\ bucket'.permits = bucket.permits - 1 /\ bucket'.releases = bucket.releases
      /\ bucket' \in [permits : Nat, releases : Nat]
  <2>1. bucket \in [permits : Nat, releases : Nat]
    BY DEF Calling
  <2>2. bucket.permits - 1 \in Nat
    BY <1>1, <2>1
  <2> QED BY <1>1, <2>1, <2>2
<1>7. TokensKept'
  <2>1. instances' = Calls("running")' \cup Calls("acquiring")'
    BY <1>1, <1>3, <1>4 DEF Calling, TokensKept
  <2>2. bucket.permits + bucket.releases + Cardinality(Calls("running")) = setup.rate
    BY DEF Calling, TokensKept
  <2>3. bucket'.permits + bucket'.releases + Cardinality(Calls("running")') = setup'.rate
    BY <1>1, <1>5, <1>6, <2>2
  <2> QED BY <2>1, <2>3 DEF TokensKept
<1> QED BY <1>1, <1>3, <1>5, <1>6, <1>7 DEF Calling

\* A tool returns or raises: its token will be released, its instance is gone.
LEMMA ExecutedCalling ==
    ASSUME Calling, NEW c \in Conversations, NEW k \in 1 .. setup.parallel, Executed(c, k)
    PROVE  Calling'
<1>1. /\ k \in DOMAIN tool_call[c] /\ tool_call[c][k] = "running"
      /\ UNCHANGED <<setup, agent>> /\ instances' = instances \ {<<c, k>>}
      /\ tool_call' = [tool_call EXCEPT ![c][k] = "returned"]
      /\ bucket' = [bucket EXCEPT !.releases = @ + 1]
  BY DEF Executed
<1>2. CallStates = {"returned", "running", "acquiring"}
  BY DEF CallStates
<1>3. /\ tool_call' \in [Conversations -> Seq(CallStates)]
      /\ \A d \in Conversations : /\ Len(tool_call'[d]) = Len(tool_call[d])
                                  /\ tool_call[d] = <<>> => tool_call'[d] = <<>>
      /\ ~InState(tool_call', <<c, k>>, "running") /\ ~InState(tool_call', <<c, k>>, "acquiring")
      /\ \A x \in Conversations \X (1 .. setup.parallel) : x # <<c, k>> =>
           \A s : InState(tool_call', x, s) <=> InState(tool_call, x, s)
  BY <1>1, <1>2, OneCall
<1>4. /\ <<c, k>> \notin Calls("acquiring") /\ <<c, k>> \in Calls("running")
      /\ Calls("running")' = Calls("running") \ {<<c, k>>}
      /\ Calls("acquiring")' = Calls("acquiring")
  BY <1>1, <1>3 DEF Calls, InState
<1>5. /\ IsFiniteSet(Calls("running")')
      /\ Cardinality(Calls("running")') = Cardinality(Calls("running")) - 1
      /\ Cardinality(Calls("running")) \in Nat
  <2>1. IsFiniteSet(Calls("running"))
    BY DEF Calling
  <2>2. /\ IsFiniteSet(Calls("running") \ {<<c, k>>})
        /\ Cardinality(Calls("running") \ {<<c, k>>}) = Cardinality(Calls("running")) - 1
        /\ Cardinality(Calls("running")) \in Nat
    BY <1>4, <2>1, FS_RemoveElement, FS_CardinalityType
  <2> QED BY <1>4, <2>2
<1>6. /\ bucket.permits \in Nat /\ bucket.releases \in Nat
      /\ bucket'.permits = bucket.permits /\ bucket'.releases = bucket.releases + 1
      /\ bucket' \in [permits : Nat, releases : Nat]
  <2>1. bucket \in [permits : Nat, releases : Nat]
    BY DEF Calling
  <2>2. bucket.releases + 1 \in Nat
    BY <1>1, <2>1
  <2> QED BY <1>1, <2>1, <2>2
<1>7. TokensKept'
  <2>1. instances' = Calls("running")' \cup Calls("acquiring")'
    BY <1>1, <1>3, <1>4 DEF Calling, TokensKept
  <2>2. bucket.permits + bucket.releases + Cardinality(Calls("running")) = setup.rate
    BY DEF Calling, TokensKept
  <2>3. bucket'.permits + bucket'.releases + Cardinality(Calls("running")') = setup'.rate
    BY <1>1, <1>5, <1>6, <2>2
  <2> QED BY <2>1, <2>3 DEF TokensKept
<1> QED BY <1>1, <1>3, <1>5, <1>6, <1>7 DEF Calling

\* The results are taken into the conversation.
LEMMA ReturnedCalling ==
    ASSUME Calling, NEW c \in Conversations, ToolsReturned(c) PROVE Calling'
<1>1. /\ \A k \in DOMAIN tool_call[c] : tool_call[c][k] = "returned"
      /\ tool_call' = [tool_call EXCEPT ![c] = <<>>]
      /\ UNCHANGED <<setup, instances, bucket>>
  BY DEF ToolsReturned
<1>2. PICK n \in 1 .. EnvTokens :
        Become(c, IF Fits(agent[c], n)
                  THEN [Heard(agent[c], n) EXCEPT !.state = "generating"]
                  ELSE [agent[c] EXCEPT !.state = "terminated"])
  BY DEF ToolsReturned
<1>3. /\ DOMAIN agent' = Conversations
      /\ \A d \in Conversations : /\ "state" \in DOMAIN agent'[d]
                                  /\ d # c => agent'[d] = agent[d]
  BY <1>2 DEF Calling, Become, Heard
<1>4. /\ tool_call' \in [Conversations -> Seq(CallStates)]
      /\ tool_call'[c] = <<>> /\ Len(tool_call'[c]) = 0 /\ DOMAIN tool_call'[c] = {}
      /\ \A d \in Conversations \ {c} : tool_call'[d] = tool_call[d]
  BY <1>1 DEF Calling
<1>5. \A d \in Conversations : Len(tool_call'[d]) <= setup.parallel
  <2>1. setup.parallel \in Nat
    BY ToolAssumption DEF Calling, Setup
  <2>2. ASSUME NEW d \in Conversations PROVE Len(tool_call'[d]) <= setup.parallel
    <3>1. CASE d = c
      BY <1>4, <2>1, <3>1
    <3>2. CASE d # c
      BY <1>4, <3>2 DEF Calling
    <3> QED BY <3>1, <3>2
  <2> QED BY <2>2
<1>6. ASSUME NEW s \in {"running", "acquiring"} PROVE Calls(s)' = Calls(s)
  <2>1. ASSUME NEW x \in Conversations \X (1 .. setup.parallel)
        PROVE  x \in Calls(s)' <=> x \in Calls(s)
    <3>1. CASE x[1] = c
      BY <1>1, <1>4, <3>1 DEF Calls
    <3>2. CASE x[1] # c
      BY <1>1, <1>4, <3>2 DEF Calls
    <3> QED BY <3>1, <3>2
  <2>2. /\ Calls(s) \subseteq Conversations \X (1 .. setup.parallel)
        /\ Calls(s)' \subseteq Conversations \X (1 .. setup.parallel)
    BY <1>1 DEF Calls
  <2> QED BY <2>1, <2>2
<1>7. Calls("running")' = Calls("running") /\ Calls("acquiring")' = Calls("acquiring")
  BY <1>6
<1>8. TokensKept' /\ IsFiniteSet(Calls("running")')
  BY <1>1, <1>7 DEF Calling, TokensKept
<1>9. \A d \in Conversations : agent'[d].state # "processing_tools" => tool_call'[d] = <<>>
  BY <1>3, <1>4 DEF Calling
<1> QED BY <1>1, <1>3, <1>4, <1>5, <1>8, <1>9 DEF Calling

LEMMA NextCalling == ASSUME Calling, ToolNext PROVE Calling'
<1>1. ASSUME NEW c \in Conversations, NEW k \in 1 .. setup.parallel, Acquired(c, k)
      PROVE  Calling'
  BY <1>1, AcquiredCalling
<1>2. CASE Released
  <2>1. /\ UNCHANGED <<setup, agent, instances, tool_call>> /\ bucket.releases > 0
        /\ bucket' = [bucket EXCEPT !.releases = @ - 1, !.permits = @ + 1]
    BY <1>2 DEF Released
  <2>2. /\ bucket \in [permits : Nat, releases : Nat]
        /\ bucket.permits + 1 \in Nat /\ bucket.releases - 1 \in Nat
    BY <2>1 DEF Calling
  <2>3. /\ bucket' \in [permits : Nat, releases : Nat]
        /\ bucket'.permits = bucket.permits + 1 /\ bucket'.releases = bucket.releases - 1
    BY <2>1, <2>2
  <2>4. Calls("running")' = Calls("running") /\ Calls("acquiring")' = Calls("acquiring")
    BY <2>1 DEF Calls
  <2>5. Cardinality(Calls("running")) \in Nat
    BY FS_CardinalityType DEF Calling
  <2>6. bucket'.permits + bucket'.releases + Cardinality(Calls("running")') = setup'.rate
    <3>1. bucket.permits + bucket.releases + Cardinality(Calls("running")) = setup.rate
      BY DEF Calling, TokensKept
    <3> QED BY <2>1, <2>2, <2>3, <2>4, <2>5, <3>1
  <2>7. TokensKept'
    BY <2>1, <2>4, <2>6 DEF Calling, TokensKept
  <2> QED BY <2>1, <2>3, <2>4, <2>7 DEF Calling
<1>3. ASSUME NEW c \in Conversations, Begin(c) PROVE Calling'
  <2>1. /\ UNCHANGED <<setup, tool_side>> /\ agent[c].state # "processing_tools"
        /\ Become(c, [agent[c] EXCEPT !.state = "generating", !.prompt_ids = <<"prompt">>])
    BY <1>3 DEF Begin
  <2> DEFINE a == [agent[c] EXCEPT !.state = "generating", !.prompt_ids = <<"prompt">>]
  <2>2. "state" \in DOMAIN a /\ agent' = [agent EXCEPT ![c] = a]
    BY <2>1 DEF Calling, Become
  <2> HIDE DEF a
  <2> QED BY <2>1, <2>2, CallsUntouched
<1>4. ASSUME NEW c \in Conversations, Answer(c) PROVE Calling'
  BY <1>4, AnswerCalling
<1>5. ASSUME NEW c \in Conversations, ToolsReturned(c) PROVE Calling'
  BY <1>5, ReturnedCalling
<1>6. ASSUME NEW c \in Conversations, Interact(c) PROVE Calling'
  <2>1. UNCHANGED <<setup, tool_side>> /\ agent[c].state # "processing_tools"
    BY <1>6 DEF Interact
  <2>2. PICK n \in 1 .. EnvTokens, state \in {"terminated", "generating"} :
          Become(c, [Heard(agent[c], n) EXCEPT !.state = state])
    BY <1>6 DEF Interact
  <2> DEFINE a == [Heard(agent[c], n) EXCEPT !.state = state]
  <2>3. "state" \in DOMAIN a /\ agent' = [agent EXCEPT ![c] = a]
    BY <2>2 DEF Calling, Become, Heard
  <2> HIDE DEF a
  <2> QED BY <2>1, <2>3, CallsUntouched
<1>7. ASSUME NEW c \in Conversations, NEW s \in Servers, Ask(c, s) PROVE Calling'
  <2>1. /\ UNCHANGED <<setup, tool_side>> /\ agent[c].state # "processing_tools"
        /\ Become(c, [agent[c] EXCEPT !.state = "asked"])
    BY <1>7 DEF Ask
  <2> DEFINE a == [agent[c] EXCEPT !.state = "asked"]
  <2>2. "state" \in DOMAIN a /\ agent' = [agent EXCEPT ![c] = a]
    BY <2>1 DEF Calling, Become
  <2> HIDE DEF a
  <2> QED BY <2>1, <2>2, CallsUntouched
<1>8. ASSUME NEW c \in Conversations, NEW k \in 1 .. setup.parallel, Executed(c, k)
      PROVE  Calling'
  BY <1>8, ExecutedCalling
<1> QED BY <1>1, <1>2, <1>3, <1>4, <1>5, <1>6, <1>7, <1>8 DEF ToolNext

\* None of the tokens of the rate limit is lost or made up, whatever conversations ask
\* and whichever tools raise, so that at most rate_limit tools run at any time; and
\* tool instances are those of calls that run or wait (TokenBucketWorker, _call_tool).
THEOREM RateLimitKept == Spec => []TokensKept
<1>1. Init => Calling
  BY InitCalling DEF Init
<1>2. Calling /\ [Next]_vars => Calling'
  <2> SUFFICES ASSUME Calling, [Next]_vars PROVE Calling'
    OBVIOUS
  <2>1. CASE Tools
    BY <2>1, NextCalling DEF Tools
  <2>2. ASSUME UNCHANGED NoTools PROVE Calling'
    <3>1. UNCHANGED <<setup, agent, tool_call, instances, bucket>>
      BY <2>2 DEF NoTools, tool_side
    <3>2. Calls("running")' = Calls("running") /\ Calls("acquiring")' = Calls("acquiring")
      BY <3>1 DEF Calls
    <3>3. TokensKept'
      BY <3>1, <3>2 DEF Calling, TokensKept
    <3> QED BY <3>1, <3>2, <3>3 DEF Calling
  <2> QED BY <2>1, <2>2 DEF Next, Partial, Ended, vars, tools, NoTools
<1>3. Calling => TokensKept
  BY DEF Calling
<1> QED BY <1>1, <1>2, <1>3, PTL DEF Spec

-----------------------------------------------------------------------------
(* Masks and log-probs. *)

Origins == {"prompt", "model", "env"}

\* The mask tells the origin of the last tokens of the prompt; every place of the
\* mask has its log-prob.
Selects(ids, mask) ==
    /\ Len(mask) <= Len(ids)
    /\ \A i \in 1 .. Len(mask) :
         ids[Len(ids) - Len(mask) + i] = IF mask[i] = 1 THEN "model" ELSE "env"
Beside(logprobs, mask) ==
    /\ Len(logprobs) = Len(mask)
    /\ \A i \in 1 .. Len(mask) : logprobs[i] = IF mask[i] = 1 THEN "real" ELSE "zero"

AgentData ==
    [state : ToolStates, prompt_ids : Seq(Origins), response_mask : Seq({0, 1}),
     response_logprobs : Seq({"real", "zero"}), assistant_turns : Nat, user_turns : Nat]

\* A conversation that waits for the environment, or is over, has spoken.
Answered(a) ==
    /\ Selects(a.prompt_ids, a.response_mask)
    /\ setup.logprobs => Beside(a.response_logprobs, a.response_mask)
    /\ a.state = "pending" => a.response_mask = <<>> /\ a.response_logprobs = <<>>
    /\ a.state \in {"processing_tools", "interacting"} => Len(a.response_mask) > 0

Aligned ==
    /\ setup \in Setups
    /\ agent \in [Conversations -> AgentData]
    /\ \A c \in Conversations :
         /\ Answered(agent[c])
         /\ c \in setup.active /\ agent[c].state = "terminated"
              => Len(agent[c].response_mask) > 0

\* What is said and its mask grow together.
LEMMA SelectsGrows ==
    ASSUME NEW ids \in Seq(Origins), NEW mask \in Seq({0, 1}), Selects(ids, mask),
           NEW n \in Nat, NEW token \in Origins, NEW bit \in {0, 1},
           token = IF bit = 1 THEN "model" ELSE "env"
    PROVE  Selects(ids \o Copies(token, n), mask \o Copies(bit, n))
<1> DEFINE more == Copies(token, n)
           bits == Copies(bit, n)
           p    == ids \o more
           m    == mask \o bits
<1>1. /\ more \in Seq(Origins) /\ Len(more) = n /\ \A i \in 1 .. n : more[i] = token
      /\ bits \in Seq({0, 1}) /\ Len(bits) = n /\ \A i \in 1 .. n : bits[i] = bit
  BY CopiesOf
<1> HIDE DEF more, bits
<1>2. /\ Len(p) = Len(ids) + n /\ Len(m) = Len(mask) + n
      /\ Len(ids) \in Nat /\ Len(mask) \in Nat
      /\ \A i \in 1 .. Len(ids) : p[i] = ids[i]
      /\ \A i \in 1 .. n : p[Len(ids) + i] = token
      /\ \A i \in 1 .. Len(mask) : m[i] = mask[i]
      /\ \A i \in 1 .. n : m[Len(mask) + i] = bit
  <2>1. Joins(p, ids, more) /\ Joins(m, mask, bits)
    BY <1>1, Joined
  <2> QED BY <1>1, <2>1 DEF Joins
<1> DEFINE a == Len(ids)
           b == Len(mask)
<1>3. a \in Nat /\ b \in Nat /\ b <= a /\ Len(p) = a + n /\ Len(m) = b + n
  BY <1>2 DEF Selects
<1>4. /\ \A i \in 1 .. a : p[i] = ids[i]
      /\ \A i \in 1 .. n : p[a + i] = token /\ m[b + i] = bit
      /\ \A i \in 1 .. b : m[i] = mask[i]
                           /\ ids[a - b + i] = IF mask[i] = 1 THEN "model" ELSE "env"
  BY <1>2 DEF Selects
<1> HIDE DEF p, m, a, b
<1>5. ASSUME NEW i \in 1 .. b + n
      PROVE  p[a - b + i] = IF m[i] = 1 THEN "model" ELSE "env"
  <2>1. CASE i \in 1 .. b
    <3>1. a - b + i \in 1 .. a
      BY <1>3, <2>1
    <3> QED BY <1>4, <2>1, <3>1
  <2>2. CASE i \notin 1 .. b
    <3> DEFINE j == i - b
    <3>1. j \in 1 .. n /\ a - b + i = a + j /\ i = b + j
      BY <1>3, <2>2
    <3> HIDE DEF j
    <3> QED BY <1>4, <3>1
  <2> QED BY <2>1, <2>2
<1>6. Len(p) - Len(m) = a - b /\ Len(m) <= Len(p)
  BY <1>3
<1>7. Selects(p, m)
  BY <1>3, <1>5, <1>6 DEF Selects
<1> QED BY <1>7 DEF p, m, more, bits

LEMMA BesideGrows ==
    ASSUME NEW logprobs \in Seq({"real", "zero"}), NEW mask \in Seq({0, 1}),
           Beside(logprobs, mask), NEW n \in Nat, NEW value \in {"real", "zero"},
           NEW bit \in {0, 1}, value = IF bit = 1 THEN "real" ELSE "zero"
    PROVE  Beside(logprobs \o Copies(value, n), mask \o Copies(bit, n))
<1> DEFINE more == Copies(value, n)
           bits == Copies(bit, n)
           p    == logprobs \o more
           m    == mask \o bits
           b    == Len(mask)
<1>1. /\ more \in Seq({"real", "zero"}) /\ Len(more) = n /\ \A i \in 1 .. n : more[i] = value
      /\ bits \in Seq({0, 1}) /\ Len(bits) = n /\ \A i \in 1 .. n : bits[i] = bit
  BY CopiesOf
<1> HIDE DEF more, bits
<1>2. Joins(p, logprobs, more) /\ Joins(m, mask, bits)
  BY <1>1, Joined
<1>3. /\ b \in Nat /\ Len(p) = b + n /\ Len(m) = b + n
      /\ \A i \in 1 .. n : p[b + i] = value /\ m[b + i] = bit
      /\ \A i \in 1 .. b : /\ p[i] = logprobs[i] /\ m[i] = mask[i]
                           /\ logprobs[i] = IF mask[i] = 1 THEN "real" ELSE "zero"
  BY <1>1, <1>2 DEF Beside, Joins
<1> HIDE DEF p, m, b
<1>4. ASSUME NEW i \in 1 .. b + n
      PROVE  p[i] = IF m[i] = 1 THEN "real" ELSE "zero"
  <2>1. CASE i \in 1 .. b
    BY <1>3, <2>1
  <2>2. CASE i \notin 1 .. b
    <3> DEFINE j == i - b
    <3>1. j \in 1 .. n /\ i = b + j
      BY <1>3, <2>2
    <3> HIDE DEF j
    <3> QED BY <1>3, <3>1
  <2> QED BY <2>1, <2>2
<1>5. Beside(p, m)
  BY <1>3, <1>4 DEF Beside
<1> QED BY <1>5 DEF p, m, more, bits

\* The response that run() returns is cut out of the prompt by the mask's length.
LEMMA OutputSelects ==
    ASSUME NEW a \in AgentData, Answered(a), Len(a.response_mask) > 0, setup \in Setups
    PROVE  LET out == Output(a)
           IN /\ Len(out.response_ids) = Len(out.response_mask)
              /\ \A i \in 1 .. Len(out.response_ids) :
                   /\ out.response_ids[i] = IF out.response_mask[i] = 1 THEN "model" ELSE "env"
                   /\ setup.logprobs => out.logprobs[i] = IF out.response_mask[i] = 1
                                                          THEN "real" ELSE "zero"
<1> DEFINE p == a.prompt_ids
           m == a.response_mask
           l == a.response_logprobs
           n == Len(m)
           q == LastOf(p, n)
           k == IF n < ResponseLength THEN n ELSE ResponseLength
<1>1. /\ p \in Seq(Origins) /\ m \in Seq({0, 1}) /\ l \in Seq({"real", "zero"})
      /\ n \in Nat \ {0} /\ Len(p) \in Nat /\ n <= Len(p)
  BY DEF AgentData, Answered, Selects
<1>2. \A i \in 1 .. n : p[Len(p) - n + i] = IF m[i] = 1 THEN "model" ELSE "env"
  BY DEF Answered, Selects
<1>3. setup.logprobs => Len(l) = n /\ \A i \in 1 .. n : l[i] = IF m[i] = 1 THEN "real" ELSE "zero"
  BY DEF Answered, Beside
<1>4. q = SubSeq(p, Len(p) - n + 1, Len(p))
  BY <1>1 DEF LastOf
<1>5. k \in 1 .. n /\ ResponseLength \in Nat
  BY <1>1, ToolAssumption
<1> HIDE DEF p, m, l, n, q, k
<1>6. q \in Seq(Origins) /\ Len(q) = n /\ \A i \in 1 .. n : q[i] = p[Len(p) - n + i]
  <2> DEFINE f == Len(p) - n + 1
             b == Len(p)
  <2>1. f \in Nat \ {0} /\ b \in 0 .. Len(p) /\ f <= b + 1 /\ b - f + 1 = n
        /\ \A i \in 1 .. n : f + i - 1 = Len(p) - n + i
    BY <1>1
  <2> HIDE DEF f
  <2>2. /\ SubSeq(p, f, b) \in Seq(Origins) /\ Len(SubSeq(p, f, b)) = b - f + 1
        /\ \A i \in 1 .. b - f + 1 : SubSeq(p, f, b)[i] = p[f + i - 1]
    BY <1>1, <2>1, SubSequence
  <2>3. q = SubSeq(p, f, b)
    BY <1>4 DEF f
  <2> QED BY <2>1, <2>2, <2>3
<1>7. ASSUME NEW S, NEW s \in Seq(S), Len(s) = n
      PROVE  Len(Limited(s)) = k /\ \A i \in 1 .. k : Limited(s)[i] = s[i]
  <2>1. Limited(s) = SubSeq(s, 1, k)
    BY <1>7 DEF Limited, k
  <2>2. k \in 0 .. Len(s) /\ 1 <= k + 1
    BY <1>5, <1>7
  <2>3. Len(SubSeq(s, 1, k)) = k - 1 + 1 /\ \A i \in 1 .. k - 1 + 1 : SubSeq(s, 1, k)[i] = s[1 + i - 1]
    BY <2>2, SubSequence
  <2>4. k - 1 + 1 = k /\ \A i \in 1 .. k : 1 + i - 1 = i
    BY <1>5
  <2> QED BY <2>1, <2>3, <2>4
<1>8. Len(Limited(q)) = k /\ \A i \in 1 .. k : Limited(q)[i] = q[i] /\ i \in 1 .. n
  BY <1>5, <1>6, <1>7
<1>9. Len(Limited(m)) = k /\ \A i \in 1 .. k : Limited(m)[i] = m[i]
  BY <1>1, <1>7 DEF n
<1>10. setup.logprobs => \A i \in 1 .. k : Limited(l)[i] = l[i]
  BY <1>1, <1>3, <1>7
<1>11. Output(a) = [response_ids |-> Limited(q), response_mask |-> Limited(m),
                    logprobs |-> Limited(l)]
  BY DEF Output, q, m, l, n, p
<1>12. \A i \in 1 .. k :
         /\ Limited(q)[i] = IF Limited(m)[i] = 1 THEN "model" ELSE "env"
         /\ setup.logprobs => Limited(l)[i] = IF Limited(m)[i] = 1 THEN "real" ELSE "zero"
  BY <1>2, <1>3, <1>6, <1>8, <1>9, <1>10
<1> QED BY <1>8, <1>9, <1>11, <1>12

LEMMA SpokenAnswered ==
    ASSUME NEW a \in AgentData, Answered(a), NEW n \in Nat \ {0},
           NEW s \in ToolStates \ {"pending"}
    PROVE  LET b == [Spoken(a, n) EXCEPT !.state = s]
           IN b \in AgentData /\ Answered(b) /\ Len(b.response_mask) > 0 /\ b.state = s
<1> DEFINE p == a.prompt_ids
           m == a.response_mask
           l == a.response_logprobs
           b == [Spoken(a, n) EXCEPT !.state = s]
           more == IF setup.logprobs THEN l \o Copies("real", n) ELSE l
<1>1. /\ p \in Seq(Origins) /\ m \in Seq({0, 1}) /\ l \in Seq({"real", "zero"})
      /\ a.assistant_turns + 1 \in Nat /\ a.user_turns \in Nat /\ n \in Nat /\ "model" \in Origins
  BY DEF AgentData, Origins
<1>2. Selects(p \o Copies("model", n), m \o Copies(1, n))
  BY <1>1, SelectsGrows DEF Answered
<1>3. setup.logprobs => Beside(more, m \o Copies(1, n))
  BY <1>1, BesideGrows DEF Answered
<1>4. /\ Copies("model", n) \in Seq(Origins) /\ Copies("real", n) \in Seq({"real", "zero"})
      /\ Copies(1, n) \in Seq({0, 1}) /\ Len(Copies(1, n)) = n
  BY <1>1, CopiesOf
<1>5. /\ p \o Copies("model", n) \in Seq(Origins)
      /\ m \o Copies(1, n) \in Seq({0, 1}) /\ Joins(m \o Copies(1, n), m, Copies(1, n))
      /\ l \o Copies("real", n) \in Seq({"real", "zero"})
  BY <1>1, <1>4, Joined
<1>6. Len(m \o Copies(1, n)) > 0
  BY <1>4, <1>5 DEF Joins
<1>7. more \in Seq({"real", "zero"})
  BY <1>1, <1>5
<1>8. /\ b.state = s /\ b.prompt_ids = p \o Copies("model", n)
      /\ b.response_mask = m \o Copies(1, n) /\ b.response_logprobs = more
  BY DEF Spoken, AgentData
<1>9. b \in AgentData
  <2> DEFINE ids == p \o Copies("model", n)
             mask == m \o Copies(1, n)
  <2>1. b = [a EXCEPT !.prompt_ids = ids, !.response_mask = mask, !.response_logprobs = more,
                      !.assistant_turns = @ + 1, !.state = s]
    BY DEF Spoken
  <2>2. ids \in Seq(Origins) /\ mask \in Seq({0, 1})
    BY <1>5
  <2> HIDE DEF ids, mask, more, b
  <2> QED BY <1>1, <1>7, <2>1, <2>2 DEF AgentData
<1> HIDE DEF b, p, m, l, more
<1>10. Answered(b)
  BY <1>2, <1>3, <1>6, <1>8 DEF Answered
<1> QED BY <1>6, <1>8, <1>9, <1>10 DEF b

LEMMA HeardAnswered ==
    ASSUME NEW a \in AgentData, Answered(a), NEW n \in Nat,
           a.state \in {"processing_tools", "interacting"}, NEW s \in ToolStates \ {"pending"}
    PROVE  LET b == [Heard(a, n) EXCEPT !.state = s]
           IN b \in AgentData /\ Answered(b) /\ Len(b.response_mask) > 0 /\ b.state = s
<1> DEFINE p == a.prompt_ids
           m == a.response_mask
           l == a.response_logprobs
           b == [Heard(a, n) EXCEPT !.state = s]
           more == IF l = <<>> THEN l ELSE l \o Copies("zero", n)
<1>1. /\ p \in Seq(Origins) /\ m \in Seq({0, 1}) /\ l \in Seq({"real", "zero"})
      /\ a.assistant_turns \in Nat /\ a.user_turns + 1 \in Nat /\ "env" \in Origins
  BY DEF AgentData, Origins
<1>2. Selects(p \o Copies("env", n), m \o Copies(0, n))
  BY <1>1, SelectsGrows DEF Answered
<1>3. Len(m) > 0 /\ Len(m) \in Nat
  BY <1>1 DEF Answered
<1>4. setup.logprobs => Beside(more, m \o Copies(0, n))
  <2> SUFFICES ASSUME setup.logprobs PROVE Beside(more, m \o Copies(0, n))
    OBVIOUS
  <2>1. Beside(l, m)
    BY DEF Answered
  <2>2. l # <<>>
    BY <1>3, <2>1 DEF Beside
  <2>3. Beside(l \o Copies("zero", n), m \o Copies(0, n))
    BY <1>1, <2>1, BesideGrows
  <2> QED BY <2>2, <2>3
<1>5. /\ Copies("env", n) \in Seq(Origins) /\ Copies("zero", n) \in Seq({"real", "zero"})
      /\ Copies(0, n) \in Seq({0, 1}) /\ Len(Copies(0, n)) = n
  BY <1>1, CopiesOf
<1>6. /\ p \o Copies("env", n) \in Seq(Origins)
      /\ m \o Copies(0, n) \in Seq({0, 1}) /\ Joins(m \o Copies(0, n), m, Copies(0, n))
      /\ l \o Copies("zero", n) \in Seq({"real", "zero"})
  BY <1>1, <1>5, Joined
<1>7. Len(m \o Copies(0, n)) > 0
  BY <1>3, <1>5, <1>6 DEF Joins
<1>8. /\ b.state = s /\ b.prompt_ids = p \o Copies("env", n)
      /\ b.response_mask = m \o Copies(0, n) /\ b.response_logprobs = more
  BY DEF Heard, AgentData
<1>9. more \in Seq({"real", "zero"})
  BY <1>1, <1>6
<1>10. b \in AgentData
  <2> DEFINE ids == p \o Copies("env", n)
             mask == m \o Copies(0, n)
  <2>1. b = [a EXCEPT !.prompt_ids = ids, !.response_mask = mask, !.response_logprobs = more,
                      !.user_turns = @ + 1, !.state = s]
    BY DEF Heard
  <2>2. ids \in Seq(Origins) /\ mask \in Seq({0, 1})
    BY <1>6
  <2> HIDE DEF ids, mask, more, b
  <2> QED BY <1>1, <1>9, <2>1, <2>2 DEF AgentData
<1> HIDE DEF b, p, m, l, more
<1>11. Answered(b)
  BY <1>2, <1>4, <1>7, <1>8 DEF Answered
<1> QED BY <1>7, <1>8, <1>10, <1>11 DEF b

LEMMA InitAligned == ToolInit => Aligned
<1> SUFFICES ASSUME ToolInit PROVE Aligned
  OBVIOUS
<1>1. setup \in Setups
  BY DEF ToolInit
<1>2. ASSUME NEW c \in Conversations
      PROVE  /\ agent[c] \in AgentData /\ Answered(agent[c])
             /\ c \in setup.active => agent[c].state # "terminated"
  <2>1. agent[c] = [state |-> IF c \in setup.active THEN "pending" ELSE "terminated",
                    prompt_ids |-> <<>>, response_mask |-> <<>>,
                    response_logprobs |-> <<>>, assistant_turns |-> 0, user_turns |-> 0]
    BY DEF ToolInit
  <2>2. Selects(<<>>, <<>>) /\ Beside(<<>>, <<>>)
    BY DEF Selects, Beside
  <2> QED BY <2>1, <2>2 DEF AgentData, Answered, ToolStates
<1>3. agent \in [Conversations -> AgentData]
  BY <1>2 DEF ToolInit
<1> QED BY <1>1, <1>2, <1>3 DEF Aligned

\* A conversation changes, and has spoken when it is over.
LEMMA AlignedStep ==
    ASSUME Aligned, setup' = setup, NEW c \in Conversations, NEW a \in AgentData,
           agent' = [agent EXCEPT ![c] = a], Answered(a),
           a.state = "terminated" => Len(a.response_mask) > 0
    PROVE  Aligned'
<1>1. \A b : Answered(b)' <=> Answered(b)
  BY DEF Answered, Selects, Beside
<1>2. /\ agent' \in [Conversations -> AgentData] /\ agent'[c] = a
      /\ \A d \in Conversations \ {c} : agent'[d] = agent[d]
  BY DEF Aligned
<1>3. ASSUME NEW d \in Conversations
      PROVE  /\ Answered(agent[d])'
             /\ d \in setup'.active /\ agent'[d].state = "terminated"
                  => Len(agent'[d].response_mask) > 0
  BY <1>1, <1>2 DEF Aligned
<1> QED BY <1>2, <1>3 DEF Aligned

LEMMA NextAligned == ASSUME Aligned, ToolNext PROVE Aligned'
<1>1. \A c \in Conversations : agent[c] \in AgentData /\ Answered(agent[c])
  BY DEF Aligned
<1>2. ASSUME UNCHANGED <<setup, agent>> PROVE Aligned'
  BY <1>2 DEF Aligned, Answered
<1>3. CASE Released \/ \E c \in Conversations, k \in 1 .. setup.parallel : Acquired(c, k)
  BY <1>2, <1>3 DEF Acquired, Released
<1>4. ASSUME NEW c \in Conversations, Begin(c) PROVE Aligned'
  <2> DEFINE a == [agent[c] EXCEPT !.state = "generating", !.prompt_ids = <<"prompt">>]
  <2>1. agent[c].state = "pending" /\ setup' = setup /\ agent' = [agent EXCEPT ![c] = a]
    BY <1>4 DEF Begin, Become
  <2>2. agent[c] \in AgentData /\ agent[c].response_mask = <<>> /\ agent[c].response_logprobs = <<>>
    BY <1>1, <2>1 DEF Answered
  <2>3. /\ a.response_mask = <<>> /\ a.response_logprobs = <<>> /\ a.state = "generating"
        /\ a.prompt_ids = <<"prompt">>
    BY <2>2 DEF AgentData
  <2>4. a \in AgentData
    <3>1. <<"prompt">> \in Seq(Origins) /\ "generating" \in ToolStates
      BY DEF Origins, ToolStates
    <3> QED BY <2>2, <3>1 DEF AgentData
  <2> HIDE DEF a
  <2>5. Answered(a)
    BY <2>3 DEF Answered, Selects, Beside
  <2> QED BY <2>1, <2>3, <2>4, <2>5, AlignedStep
<1>5. ASSUME NEW c \in Conversations, NEW s \in Servers, Ask(c, s) PROVE Aligned'
  <2> DEFINE a == [agent[c] EXCEPT !.state = "asked"]
  <2>1. setup' = setup /\ agent' = [agent EXCEPT ![c] = a]
    BY <1>5 DEF Ask, Become
  <2>2. /\ a \in AgentData /\ a.state = "asked" /\ a.response_mask = agent[c].response_mask
        /\ a.response_logprobs = agent[c].response_logprobs
        /\ a.prompt_ids = agent[c].prompt_ids
    BY <1>1 DEF AgentData, ToolStates
  <2> HIDE DEF a
  <2>3. Answered(a)
    BY <1>1, <2>2 DEF Answered
  <2> QED BY <2>1, <2>2, <2>3, AlignedStep
<1>6. ASSUME NEW c \in Conversations, Answer(c) PROVE Aligned'
  <2>1. setup' = setup
    BY <1>6 DEF Answer
  <2>2. CASE Become(c, [agent[c] EXCEPT !.state = "failed"])
    <3> DEFINE a == [agent[c] EXCEPT !.state = "failed"]
    <3>1. agent' = [agent EXCEPT ![c] = a]
      BY <2>2 DEF Become
    <3>2. /\ a \in AgentData /\ a.state = "failed" /\ a.response_mask = agent[c].response_mask
          /\ a.response_logprobs = agent[c].response_logprobs
          /\ a.prompt_ids = agent[c].prompt_ids
      BY <1>1 DEF AgentData, ToolStates
    <3> HIDE DEF a
    <3>3. Answered(a)
      BY <1>1, <3>2 DEF Answered
    <3> QED BY <2>1, <3>1, <3>2, <3>3, AlignedStep
  <2>3. ASSUME NEW n \in 1 .. Room(agent[c]), NEW parsed \in 0 .. setup.tools,
               Become(c, [Spoken(agent[c], n) EXCEPT
                            !.state = AfterAnswer(Spoken(agent[c], n), parsed)])
        PROVE  Aligned'
    <3> DEFINE s == AfterAnswer(Spoken(agent[c], n), parsed)
               a == [Spoken(agent[c], n) EXCEPT !.state = s]
    <3>1. s \in ToolStates \ {"pending"}
      BY DEF AfterAnswer, ToolStates
    <3>2. n \in Nat \ {0}
      OBVIOUS
    <3>3. agent' = [agent EXCEPT ![c] = a]
      BY <2>3 DEF Become
    <3> HIDE DEF s
    <3>4. a \in AgentData /\ Answered(a) /\ Len(a.response_mask) > 0
      BY <1>1, <3>1, <3>2, SpokenAnswered
    <3> HIDE DEF a
    <3> QED BY <2>1, <3>3, <3>4, AlignedStep
  <2> QED BY <1>6, <2>2, <2>3 DEF Answer
<1>7. ASSUME NEW c \in Conversations, ToolsReturned(c) PROVE Aligned'
  <2>1. setup' = setup /\ agent[c].state = "processing_tools"
    BY <1>7 DEF ToolsReturned
  <2>2. PICK n \in 1 .. EnvTokens :
          Become(c, IF Fits(agent[c], n)
                    THEN [Heard(agent[c], n) EXCEPT !.state = "generating"]
                    ELSE [agent[c] EXCEPT !.state = "terminated"])
    BY <1>7 DEF ToolsReturned
  <2>3. n \in Nat
    OBVIOUS
  <2>4. CASE Fits(agent[c], n)
    <3> DEFINE a == [Heard(agent[c], n) EXCEPT !.state = "generating"]
    <3>1. agent' = [agent EXCEPT ![c] = a]
      BY <2>2, <2>4 DEF Become
    <3>2. "generating" \in ToolStates \ {"pending"}
      BY DEF ToolStates
    <3>3. a \in AgentData /\ Answered(a) /\ Len(a.response_mask) > 0
      BY <1>1, <2>1, <2>3, <3>2, HeardAnswered
    <3> HIDE DEF a
    <3> QED BY <2>1, <3>1, <3>3, AlignedStep
  <2>5. CASE ~Fits(agent[c], n)
    <3> DEFINE a == [agent[c] EXCEPT !.state = "terminated"]
    <3>1. agent' = [agent EXCEPT ![c] = a]
      BY <2>2, <2>5 DEF Become
    <3>2. /\ a \in AgentData /\ a.state = "terminated" /\ a.response_mask = agent[c].response_mask
          /\ a.response_logprobs = agent[c].response_logprobs
          /\ a.prompt_ids = agent[c].prompt_ids
      BY <1>1 DEF AgentData, ToolStates
    <3> HIDE DEF a
    <3>3. Answered(a) /\ Len(a.response_mask) > 0
      BY <1>1, <2>1, <3>2 DEF Answered
    <3> QED BY <2>1, <3>1, <3>2, <3>3, AlignedStep
  <2> QED BY <2>4, <2>5
<1>8. ASSUME NEW c \in Conversations, Interact(c) PROVE Aligned'
  <2>1. setup' = setup /\ agent[c].state = "interacting"
    BY <1>8 DEF Interact
  <2>2. PICK n \in 1 .. EnvTokens, s \in {"terminated", "generating"} :
          Become(c, [Heard(agent[c], n) EXCEPT !.state = s])
    BY <1>8 DEF Interact
  <2> DEFINE a == [Heard(agent[c], n) EXCEPT !.state = s]
  <2>3. agent' = [agent EXCEPT ![c] = a]
    BY <2>2 DEF Become
  <2>4. s \in ToolStates \ {"pending"} /\ n \in Nat
    BY DEF ToolStates
  <2>5. a \in AgentData /\ Answered(a) /\ Len(a.response_mask) > 0
    BY <1>1, <2>1, <2>4, HeardAnswered
  <2> HIDE DEF a
  <2> QED BY <2>1, <2>3, <2>5, AlignedStep
<1>9. ASSUME NEW c \in Conversations, NEW k \in 1 .. setup.parallel, Executed(c, k)
      PROVE  Aligned'
  BY <1>2, <1>9 DEF Executed
<1> QED BY <1>3, <1>4, <1>5, <1>6, <1>7, <1>8, <1>9 DEF ToolNext

\* Whatever turns a conversation takes and wherever it is cut, the response has no
\* token of the prompt, the mask selects the model's own tokens, and these, no
\* other, have log-probs of their own (_handle_generating_state,
\* _handle_processing_tools_state, _handle_interacting_state, run).
THEOREM MaskIsTheModels == Spec => []MaskSelectsModel
<1>1. Init => Aligned
  BY InitAligned DEF Init
<1>2. Aligned /\ [Next]_vars => Aligned'
  <2> SUFFICES ASSUME Aligned, [Next]_vars PROVE Aligned'
    OBVIOUS
  <2>1. CASE Tools
    BY <2>1, NextAligned DEF Tools
  <2>2. ASSUME UNCHANGED NoTools PROVE Aligned'
    BY <2>2 DEF NoTools, Aligned, Answered
  <2> QED BY <2>1, <2>2 DEF Next, Partial, Ended, vars, tools, NoTools
<1>3. Aligned => MaskSelectsModel
  <2> SUFFICES ASSUME Aligned, NEW c \in setup.active, agent[c].state = "terminated"
               PROVE  LET out == Output(agent[c])
                      IN /\ Len(out.response_ids) = Len(out.response_mask)
                         /\ \A i \in 1 .. Len(out.response_ids) :
                              /\ out.response_ids[i] = IF out.response_mask[i] = 1
                                                       THEN "model" ELSE "env"
                              /\ setup.logprobs => out.logprobs[i] = IF out.response_mask[i] = 1
                                                                     THEN "real" ELSE "zero"
    BY DEF MaskSelectsModel
  <2>1. c \in Conversations /\ setup \in Setups
    BY ToolAssumption DEF Aligned, Setup
  <2>2. agent[c] \in AgentData /\ Answered(agent[c]) /\ Len(agent[c].response_mask) > 0
    BY <2>1 DEF Aligned
  <2> QED BY <2>1, <2>2, OutputSelects
<1> QED BY <1>1, <1>2, <1>3, PTL DEF Spec

-----------------------------------------------------------------------------
(* Sticky sessions. *)

Entries(list) ==
    /\ list \in Seq(Conversations \X Servers) /\ Len(list) <= CacheSize
    /\ \A i, j \in 1 .. Len(list) : list[i][1] = list[j][1] => i = j

\* c has an entry, and the entries behind it are of conversations in set.
BehindIn(list, c, s, set) ==
    \E i \in 1 .. Len(list) :
      list[i] = <<c, s>> /\ \A j \in 1 .. Len(list) : i < j => list[j][1] \in set

\* A conversation is in the cache, and those behind it had a turn since; or enough
\* others had one to push it out.
Sticky ==
    recipe = "tool_agent" =>
      /\ Entries(request_id_to_server)
      /\ DOMAIN server = Conversations
      /\ DOMAIN others = Conversations /\ \A c \in Conversations : IsFiniteSet(others[c])
      /\ \A c \in Conversations : server[c] # NoServer =>
           \/ Cardinality(others[c]) >= CacheSize
           \/ BehindIn(request_id_to_server, c, server[c], others[c])

\* What a choice of server makes of the cache: the chosen entry is the last, and the
\* others keep their order, but that a full cache may lose its first.
Chosen(list, new, d, s) ==
    /\ Entries(new) /\ new # <<>> /\ new[Len(new)] = <<d, s>>
    /\ \A i \in 1 .. Len(list) : list[i][1] = d => list[i][2] = s
    /\ \A i \in 1 .. Len(list) : list[i][1] # d =>
         \/ \E k \in 1 .. Len(new) :
              /\ new[k] = list[i]
              /\ \A j \in 1 .. Len(new) : k < j =>
                   new[j][1] = d \/ \E o \in 1 .. Len(list) : i < o /\ new[j] = list[o]
         \/ /\ i = 1 /\ Len(new) = CacheSize
            /\ \A j \in 1 .. Len(new) :
                 new[j][1] = d \/ \E o \in 1 .. Len(list) : i < o /\ new[j] = list[o]

\* The entry at place p goes to the end.
LEMMA TouchedChosen ==
    ASSUME Entries(request_id_to_server), NEW d \in Conversations, NEW s \in Servers,
           NEW p \in Cached(d), s = request_id_to_server[p][2]
    PROVE  Chosen(request_id_to_server, Touched(p), d, s)
<1> DEFINE list == request_id_to_server
           new  == Touched(p)
           n    == Len(list)
<1>1. /\ list \in Seq(Conversations \X Servers) /\ n \in Nat /\ n <= CacheSize
      /\ \A i, j \in 1 .. n : list[i][1] = list[j][1] => i = j
  BY DEF Entries
<1>2. p \in 1 .. n /\ list[p][1] = d /\ list[p] \in Conversations \X Servers
  BY <1>1 DEF Cached
<1>3. list[p] = <<d, s>>
  BY <1>2
<1>4. /\ new \in Seq(Conversations \X Servers) /\ Len(new) = n
      /\ \A j \in 1 .. p - 1 : new[j] = list[j]
      /\ \A j \in p .. n - 1 : new[j] = list[j + 1]
      /\ new[n] = list[p]
  <2> DEFINE front == SubSeq(list, 1, p - 1)
             back  == SubSeq(list, p + 1, n)
             last  == <<list[p]>>
  <2>1. /\ front \in Seq(Conversations \X Servers) /\ Len(front) = p - 1
        /\ \A j \in 1 .. p - 1 : front[j] = list[j]
    <3>1. p - 1 \in 0 .. Len(list) /\ 1 <= (p - 1) + 1
      BY <1>1, <1>2
    <3>2. /\ front \in Seq(Conversations \X Servers) /\ Len(front) = (p - 1) - 1 + 1
          /\ \A j \in 1 .. (p - 1) - 1 + 1 : front[j] = list[1 + j - 1]
      BY <1>1, <3>1, SubSequence
    <3>3. (p - 1) - 1 + 1 = p - 1 /\ \A j \in 1 .. p - 1 : 1 + j - 1 = j
      BY <1>2
    <3> QED BY <3>2, <3>3
  <2>2. /\ back \in Seq(Conversations \X Servers) /\ Len(back) = n - p
        /\ \A j \in 1 .. n - p : back[j] = list[p + j]
    <3>1. p + 1 \in Nat \ {0} /\ n \in 0 .. Len(list) /\ p + 1 <= n + 1
      BY <1>1, <1>2
    <3>2. /\ back \in Seq(Conversations \X Servers) /\ Len(back) = n - (p + 1) + 1
          /\ \A j \in 1 .. n - (p + 1) + 1 : back[j] = list[(p + 1) + j - 1]
      BY <1>1, <3>1, SubSequence
    <3>3. n - (p + 1) + 1 = n - p /\ \A j \in 1 .. n - p : (p + 1) + j - 1 = p + j
      BY <1>1, <1>2
    <3> QED BY <3>2, <3>3
  <2>3. last \in Seq(Conversations \X Servers) /\ Len(last) = 1 /\ last[1] = list[p]
    BY <1>2
  <2>4. new = (front \o back) \o last
    BY DEF Touched
  <2> HIDE DEF front, back, last
  <2>5. /\ front \o back \in Seq(Conversations \X Servers)
        /\ Joins(front \o back, front, back)
    BY <2>1, <2>2, Joined
  <2>6. new \in Seq(Conversations \X Servers) /\ Joins(new, front \o back, last)
    BY <2>3, <2>4, <2>5, Joined
  <2> DEFINE most == front \o back
  <2>7. /\ Len(most) = n - 1 /\ \A j \in 1 .. p - 1 : most[j] = list[j]
        /\ \A j \in p .. n - 1 : most[j] = list[j + 1]
    <3>1. Len(most) = n - 1
      BY <1>1, <1>2, <2>1, <2>2, <2>5 DEF Joins
    <3>2. \A j \in 1 .. p - 1 : most[j] = list[j]
      BY <2>1, <2>5 DEF Joins
    <3>3. ASSUME NEW j \in p .. n - 1 PROVE most[j] = list[j + 1]
      <4> DEFINE i == j - (p - 1)
      <4>1. i \in 1 .. n - p /\ (p - 1) + i = j /\ p + i = j + 1
        BY <1>1, <1>2
      <4> HIDE DEF i
      <4>2. most[(p - 1) + i] = back[i]
        BY <2>1, <2>2, <2>5, <4>1 DEF Joins
      <4>3. back[i] = list[p + i]
        BY <2>2, <4>1
      <4> QED BY <4>1, <4>2, <4>3
    <3> QED BY <3>1, <3>2, <3>3
  <2> HIDE DEF most, new
  <2>8. Joins(new, most, last)
    BY <2>6 DEF most
  <2>9. Len(new) = n /\ new[n] = list[p] /\ \A j \in 1 .. n - 1 : new[j] = most[j]
    <3>1. Len(new) = (n - 1) + 1 /\ new[(n - 1) + 1] = list[p]
          /\ \A j \in 1 .. n - 1 : new[j] = most[j]
      BY <2>3, <2>7, <2>8 DEF Joins
    <3>2. (n - 1) + 1 = n
      BY <1>1
    <3> QED BY <3>1, <3>2
  <2> QED BY <1>1, <1>2, <2>6, <2>7, <2>9
<1> HIDE DEF new, list, n
<1>5. ASSUME NEW j \in 1 .. n
      PROVE  \/ j < p /\ new[j] = list[j]
             \/ j >= p /\ j < n /\ new[j] = list[j + 1] /\ j + 1 \in 1 .. n
             \/ j = n /\ new[j] = list[p]
  BY <1>1, <1>2, <1>4
<1>6. \A i, j \in 1 .. n : new[i][1] = new[j][1] => i = j
  <2> SUFFICES ASSUME NEW i \in 1 .. n, NEW j \in 1 .. n, new[i][1] = new[j][1] PROVE i = j
    OBVIOUS
  <2> DEFINE From(k) == IF k = n THEN p ELSE IF k < p THEN k ELSE k + 1
  <2>1. ASSUME NEW k \in 1 .. n PROVE From(k) \in 1 .. n /\ new[k] = list[From(k)]
    <3>1. CASE k = n
      BY <1>2, <1>4, <3>1
    <3>2. CASE k # n /\ k < p
      <4>1. k \in 1 .. p - 1
        BY <1>2, <3>2
      <4> QED BY <1>4, <3>2, <4>1
    <3>3. CASE k # n /\ ~(k < p)
      <4>1. k \in p .. n - 1 /\ k + 1 \in 1 .. n
        BY <1>1, <1>2, <3>3
      <4> QED BY <1>4, <3>3, <4>1
    <3> QED BY <3>1, <3>2, <3>3
  <2>2. From(i) = From(j) => i = j
    BY <1>1, <1>2
  <2> HIDE DEF From
  <2>3. list[From(i)][1] = list[From(j)][1]
    BY <2>1
  <2> QED BY <1>1, <2>1, <2>2, <2>3
<1>7. Entries(new)
  BY <1>1, <1>4, <1>6 DEF Entries
<1>8. new # <<>> /\ new[Len(new)] = <<d, s>>
  BY <1>2, <1>3, <1>4
<1>9. \A i \in 1 .. n : list[i][1] = d => list[i][2] = s
  BY <1>1, <1>2, <1>3
<1>10. ASSUME NEW i \in 1 .. n, list[i][1] # d
       PROVE  \E k \in 1 .. n :
                /\ new[k] = list[i]
                /\ \A j \in 1 .. n : k < j =>
                     new[j][1] = d \/ \E o \in 1 .. n : i < o /\ new[j] = list[o]
  <2>1. CASE i < p
    <3>1. new[i] = list[i]
      BY <1>2, <1>4, <2>1
    <3>2. ASSUME NEW j \in 1 .. n, i < j
          PROVE  new[j][1] = d \/ \E o \in 1 .. n : i < o /\ new[j] = list[o]
      <4>1. i < j + 1
        BY <3>2
      <4> QED BY <1>2, <1>5, <3>2, <4>1
    <3> QED BY <3>1, <3>2
  <2>2. CASE ~(i < p)
    <3> DEFINE k == i - 1
    <3>1. i # p
      BY <1>2, <1>10
    <3>2. k \in p .. n - 1 /\ k \in 1 .. n /\ k + 1 = i
      BY <1>1, <1>2, <2>2, <3>1
    <3>3. new[k] = list[i]
      BY <1>4, <3>2
    <3>4. ASSUME NEW j \in 1 .. n, k < j
          PROVE  new[j][1] = d \/ \E o \in 1 .. n : i < o /\ new[j] = list[o]
      <4>1. i < j + 1 /\ ~(j < p)
        BY <1>2, <3>2, <3>4
      <4> QED BY <1>2, <1>5, <4>1
    <3> HIDE DEF k
    <3> QED BY <3>2, <3>3, <3>4
  <2> QED BY <2>1, <2>2
<1>11. Len(list) = n /\ Len(new) = n
  BY <1>4 DEF n
<1>12. Chosen(list, new, d, s)
  BY <1>7, <1>8, <1>9, <1>10, <1>11 DEF Chosen
<1> QED BY <1>12 DEF list, new

\* A new entry at the end, for which a full cache loses its first.
LEMMA AppendedChosen ==
    ASSUME Entries(request_id_to_server), NEW d \in Conversations, NEW s \in Servers,
           Cached(d) = {}
    PROVE  Chosen(request_id_to_server, Append(WithRoom, <<d, s>>), d, s)
<1> DEFINE list == request_id_to_server
           new  == Append(WithRoom, <<d, s>>)
           n    == Len(list)
<1>1. /\ list \in Seq(Conversations \X Servers) /\ n \in Nat /\ n <= CacheSize
      /\ CacheSize \in Nat \ {0}
      /\ \A i, j \in 1 .. n : list[i][1] = list[j][1] => i = j
  BY ServerAssumption DEF Entries
<1>2. \A i \in 1 .. n : list[i][1] # d
  BY DEF Cached
<1>3. <<d, s>> \in Conversations \X Servers
  OBVIOUS
<1>4. CASE n < CacheSize
  <2>1. WithRoom = list
    BY <1>4 DEF WithRoom
  <2>2. /\ new \in Seq(Conversations \X Servers) /\ Len(new) = n + 1 /\ new[n + 1] = <<d, s>>
        /\ \A i \in 1 .. n : new[i] = list[i]
    BY <1>1, <1>3, <2>1, Extended
  <2> HIDE DEF new, list, n
  <2>3. \A i, j \in 1 .. n + 1 : new[i][1] = new[j][1] => i = j
    <3> SUFFICES ASSUME NEW i \in 1 .. n + 1, NEW j \in 1 .. n + 1, new[i][1] = new[j][1]
                 PROVE  i = j
      OBVIOUS
    <3>1. \A o \in 1 .. n + 1 : o = n + 1 \/ (o \in 1 .. n /\ new[o] = list[o])
      BY <1>1, <2>2
    <3> QED BY <1>1, <1>2, <2>2, <3>1
  <2>4. Entries(new)
    BY <1>1, <1>4, <2>2, <2>3 DEF Entries
  <2>5. new # <<>> /\ new[Len(new)] = <<d, s>>
    BY <1>1, <2>2
  <2>6. ASSUME NEW i \in 1 .. n
        PROVE  \E k \in 1 .. n + 1 :
                 /\ new[k] = list[i]
                 /\ \A j \in 1 .. n + 1 : k < j =>
                      new[j][1] = d \/ \E o \in 1 .. n : i < o /\ new[j] = list[o]
    <3>1. i \in 1 .. n + 1 /\ new[i] = list[i]
      BY <1>1, <2>2
    <3>2. \A j \in 1 .. n + 1 : \/ j = n + 1 /\ new[j] = <<d, s>>
                                \/ j \in 1 .. n /\ new[j] = list[j]
      BY <1>1, <2>2
    <3> QED BY <3>1, <3>2
  <2>7. Len(list) = n /\ Len(new) = n + 1
    BY <2>2 DEF n
  <2>8. Chosen(list, new, d, s)
    BY <1>2, <2>4, <2>5, <2>6, <2>7 DEF Chosen
  <2> QED BY <2>8 DEF list, new
<1>5. CASE ~(n < CacheSize)
  <2> DEFINE rest == Tail(list)
  <2>1. n = CacheSize /\ n \in Nat \ {0}
    BY <1>1, <1>5
  <2>2. WithRoom = rest
    BY <1>5 DEF WithRoom
  <2>3. /\ rest \in Seq(Conversations \X Servers) /\ Len(rest) = n - 1
        /\ \A i \in 1 .. n - 1 : rest[i] = list[i + 1]
    <3>1. list # <<>>
      BY <2>1
    <3> QED BY <1>1, <3>1
  <2> HIDE DEF rest
  <2>4. /\ new \in Seq(Conversations \X Servers) /\ Len(new) = (n - 1) + 1
        /\ new[(n - 1) + 1] = <<d, s>>
        /\ \A i \in 1 .. n - 1 : new[i] = rest[i]
    BY <1>3, <2>2, <2>3, Extended
  <2>5. (n - 1) + 1 = n /\ \A i \in 1 .. n - 1 : i + 1 \in 1 .. n
    BY <2>1
  <2> HIDE DEF new, list, n
  <2>6. \A j \in 1 .. n : \/ j = n /\ new[j] = <<d, s>>
                          \/ j \in 1 .. n - 1 /\ j + 1 \in 1 .. n /\ new[j] = list[j + 1]
    BY <2>1, <2>3, <2>4, <2>5
  <2>7. \A i, j \in 1 .. n : new[i][1] = new[j][1] => i = j
    <3> SUFFICES ASSUME NEW i \in 1 .. n, NEW j \in 1 .. n, new[i][1] = new[j][1]
                 PROVE  i = j
      OBVIOUS
    <3>1. CASE i = n \/ j = n
      BY <1>2, <2>6, <3>1
    <3>2. CASE i # n /\ j # n
      <4>1. i + 1 \in 1 .. n /\ j + 1 \in 1 .. n /\ list[i + 1][1] = list[j + 1][1]
        BY <2>6, <3>2
      <4>2. i + 1 = j + 1
        BY <1>1, <4>1
      <4> QED BY <4>2
    <3> QED BY <3>1, <3>2
  <2>8. Entries(new)
    BY <1>1, <2>4, <2>5, <2>7 DEF Entries
  <2>9. new # <<>> /\ new[Len(new)] = <<d, s>>
    BY <2>1, <2>4, <2>5
  <2>10. ASSUME NEW i \in 1 .. n, i # 1
         PROVE  \E k \in 1 .. n :
                  /\ new[k] = list[i]
                  /\ \A j \in 1 .. n : k < j =>
                       new[j][1] = d \/ \E o \in 1 .. n : i < o /\ new[j] = list[o]
    <3> DEFINE k == i - 1
    <3>1. k \in 1 .. n /\ k + 1 = i /\ k \in 1 .. n - 1
      BY <2>1, <2>10
    <3>2. new[k] = list[i]
      BY <2>3, <2>4, <3>1
    <3>3. ASSUME NEW j \in 1 .. n, k < j
          PROVE  new[j][1] = d \/ \E o \in 1 .. n : i < o /\ new[j] = list[o]
      <4>1. i < j + 1
        BY <3>1, <3>3
      <4> QED BY <2>6, <4>1
    <3> HIDE DEF k
    <3> QED BY <3>1, <3>2, <3>3
  <2>11. \A j \in 1 .. n : new[j][1] = d \/ \E o \in 1 .. n : 1 < o /\ new[j] = list[o]
    <3> SUFFICES ASSUME NEW j \in 1 .. n
                 PROVE  new[j][1] = d \/ \E o \in 1 .. n : 1 < o /\ new[j] = list[o]
      OBVIOUS
    <3>1. 1 < j + 1
      OBVIOUS
    <3> QED BY <2>6, <3>1
  <2>12. Len(list) = n /\ Len(new) = n /\ n = CacheSize
    BY <2>1, <2>4, <2>5 DEF n
  <2>13. Chosen(list, new, d, s)
    BY <1>2, <2>8, <2>9, <2>10, <2>11, <2>12 DEF Chosen
  <2> QED BY <2>13 DEF list, new
<1> QED BY <1>4, <1>5

\* CacheSize entries behind c, all of conversations in set.
LEMMA PushedOut ==
    ASSUME NEW new, Entries(new), Len(new) = CacheSize, NEW set, IsFiniteSet(set),
           \A j \in 1 .. Len(new) : new[j][1] \in set
    PROVE  Cardinality(set) >= CacheSize
<1> DEFINE n == CacheSize
           f == [j \in 1 .. n |-> new[j][1]]
<1>1. n \in Nat
  BY ServerAssumption
<1>2. f \in [1 .. n -> set] /\ \A i, j \in 1 .. n : f[i] = f[j] => i = j
  BY DEF Entries
<1> HIDE DEF n, f
<1>3. f \in Injection(1 .. n, set)
  BY <1>2 DEF Injection, IsInjective
<1>4. Cardinality(1 .. n) <= Cardinality(set)
  BY <1>3, FS_Injection
<1>5. Cardinality(1 .. n) = n
  <2>1. n >= 1
    BY <1>1, ServerAssumption DEF n
  <2>2. Cardinality(1 .. n) = IF 1 > n THEN 0 ELSE n - 1 + 1
    BY <1>1, FS_Interval
  <2> QED BY <1>1, <2>1, <2>2
<1>6. Cardinality(set) \in Nat
  BY FS_CardinalityType
<1> QED BY <1>1, <1>4, <1>5, <1>6 DEF n

LEMMA InitSticky == Init => Sticky
<1> SUFFICES ASSUME Init PROVE Sticky
  OBVIOUS
<1>1. /\ request_id_to_server = <<>> /\ server = [c \in Conversations |-> NoServer]
      /\ others = [c \in Conversations |-> {}]
  BY DEF Init, ToolInit, ChoiceInit
<1>2. Entries(<<>>)
  BY ServerAssumption DEF Entries
<1> QED BY <1>1, <1>2, FS_EmptySet DEF Sticky

LEMMA AskChosen ==
    ASSUME Sticky, recipe = "tool_agent", NEW d \in Conversations, NEW s \in Servers, Ask(d, s)
    PROVE  Chosen(request_id_to_server, request_id_to_server', d, s)
<1>1. Entries(request_id_to_server)
  BY DEF Sticky
<1>2. CASE Cached(d) = {}
  BY <1>1, <1>2, AppendedChosen DEF Ask, ChooseServer
<1>3. CASE Cached(d) # {}
  <2>1. PICK p \in Cached(d) : /\ s = request_id_to_server[p][2]
                               /\ request_id_to_server' = Touched(p)
    BY <1>3 DEF Ask, ChooseServer
  <2> QED BY <1>1, <2>1, TouchedChosen
<1> QED BY <1>2, <1>3

LEMMA AskSticky ==
    ASSUME Sticky, recipe = "tool_agent", NEW d \in Conversations, NEW s \in Servers, Ask(d, s),
           recipe' = recipe
    PROVE  Sticky'
<1> DEFINE list == request_id_to_server
           new  == request_id_to_server'
<1>1. Chosen(list, new, d, s) /\ Entries(list)
  BY AskChosen DEF Sticky
<1>2. /\ server' = [server EXCEPT ![d] = s]
      /\ others' = [c \in Conversations |-> IF c = d THEN {} ELSE others[c] \cup {d}]
      /\ DOMAIN server = Conversations
      /\ \A c \in Conversations : IsFiniteSet(others[c])
  BY DEF Ask, Sticky
<1> HIDE DEF list, new
<1>3. Entries(new) /\ new # <<>> /\ new[Len(new)] = <<d, s>> /\ Len(new) \in Nat \ {0}
  BY <1>1 DEF Chosen, Entries
<1>4. \A c \in Conversations : IsFiniteSet(others'[c])
  BY <1>2, FS_EmptySet, FS_AddElement
<1>5. ASSUME NEW c \in Conversations, server'[c] # NoServer
      PROVE  Cardinality(others'[c]) >= CacheSize \/ BehindIn(new, c, server'[c], others'[c])
  <2>1. CASE c = d
    <3>1. server'[c] = s /\ Len(new) \in 1 .. Len(new)
      BY <1>2, <1>3, <2>1
    <3> QED BY <1>3, <2>1, <3>1 DEF BehindIn
  <2>2. CASE c # d
    <3>1. server'[c] = server[c] /\ others'[c] = others[c] \cup {d} /\ server[c] # NoServer
      BY <1>2, <1>5, <2>2
    <3>2. CASE Cardinality(others[c]) >= CacheSize
      <4>1. /\ Cardinality(others'[c]) \in {Cardinality(others[c]), Cardinality(others[c]) + 1}
            /\ Cardinality(others[c]) \in Nat
        BY <1>2, <3>1, FS_AddElement, FS_CardinalityType
      <4> QED BY <3>2, <4>1, ServerAssumption
    <3>3. CASE BehindIn(list, c, server[c], others[c])
      <4>1. PICK i \in 1 .. Len(list) :
              /\ list[i] = <<c, server[c]>>
              /\ \A j \in 1 .. Len(list) : i < j => list[j][1] \in others[c]
        BY <3>3 DEF BehindIn
      <4>2. list[i][1] # d
        BY <2>2, <4>1
      <4>3. CASE \E k \in 1 .. Len(new) :
                   /\ new[k] = list[i]
                   /\ \A j \in 1 .. Len(new) : k < j =>
                        new[j][1] = d \/ \E o \in 1 .. Len(list) : i < o /\ new[j] = list[o]
        <5>1. PICK k \in 1 .. Len(new) :
                /\ new[k] = list[i]
                /\ \A j \in 1 .. Len(new) : k < j =>
                     new[j][1] = d \/ \E o \in 1 .. Len(list) : i < o /\ new[j] = list[o]
          BY <4>3
        <5>2. new[k] = <<c, server'[c]>>
          BY <3>1, <4>1, <5>1
        <5>3. \A j \in 1 .. Len(new) : k < j => new[j][1] \in others'[c]
          BY <3>1, <4>1, <5>1
        <5>4. BehindIn(new, c, server'[c], others'[c])
          BY <5>2, <5>3 DEF BehindIn
        <5> QED BY <5>4
      <4>4. CASE /\ i = 1 /\ Len(new) = CacheSize
                 /\ \A j \in 1 .. Len(new) :
                      new[j][1] = d \/ \E o \in 1 .. Len(list) : i < o /\ new[j] = list[o]
        <5>1. \A j \in 1 .. Len(new) : new[j][1] \in others'[c]
          BY <3>1, <4>1, <4>4
        <5>2. Cardinality(others'[c]) >= CacheSize
          BY <1>3, <1>4, <4>4, <5>1, PushedOut
        <5> QED BY <5>2
      <4> QED BY <1>1, <4>2, <4>3, <4>4 DEF Chosen
    <3> QED BY <3>1, <3>2, <3>3 DEF Sticky, list
  <2> QED BY <2>1, <2>2
<1>6. DOMAIN server' = Conversations /\ DOMAIN others' = Conversations
  BY <1>2
<1>7. Entries(request_id_to_server)'
  BY <1>3 DEF Entries, new
<1>8. \A c \in Conversations : server'[c] # NoServer =>
        \/ Cardinality(others'[c]) >= CacheSize
        \/ BehindIn(request_id_to_server, c, server[c], others[c])'
  BY <1>5 DEF BehindIn, new
<1> QED BY <1>4, <1>6, <1>7, <1>8 DEF Sticky

\* The actions of a conversation that choose no server.
LEMMA OnlyAskChooses ==
    ASSUME ToolNext
    PROVE  \/ UNCHANGED <<choice, server, others>>
           \/ \E c \in Conversations, s \in Servers : Ask(c, s)
<1>1. CASE Released \/ \E c \in Conversations, k \in 1 .. setup.parallel : Acquired(c, k)
  BY <1>1 DEF Acquired, Released
<1>2. ASSUME NEW c \in Conversations,
             \/ Begin(c) \/ Answer(c) \/ ToolsReturned(c) \/ Interact(c)
             \/ \E k \in 1 .. setup.parallel : Executed(c, k)
      PROVE  UNCHANGED <<choice, server, others>>
  BY <1>2 DEF Begin, Answer, ToolsReturned, Interact, Executed
<1> QED BY <1>1, <1>2 DEF ToolNext

LEMMA NextSticky == Sticky /\ [Next]_vars => Sticky'
<1> SUFFICES ASSUME Sticky, [Next]_vars PROVE Sticky'
  OBVIOUS
<1>1. ASSUME UNCHANGED <<recipe, choice, server, others>> PROVE Sticky'
  BY <1>1 DEF Sticky, choice, Entries, BehindIn
<1>2. CASE Tools
  <2>1. recipe = "tool_agent" /\ recipe' = recipe /\ ToolNext
    BY <1>2 DEF Tools
  <2> QED BY <1>1, <2>1, OnlyAskChooses, AskSticky
<1>3. CASE Partial
  BY <1>3 DEF Partial, Sticky
<1>4. CASE UNCHANGED vars
  BY <1>1, <1>4 DEF vars, tools
<1> QED BY <1>2, <1>3, <1>4 DEF Next, Ended

LEMMA StepSticks == Sticky /\ [Next]_vars => [TurnSticks]_vars
<1> SUFFICES ASSUME Sticky, [Next]_vars PROVE TurnSticks
  OBVIOUS
<1>1. ASSUME UNCHANGED server PROVE TurnSticks
  BY <1>1 DEF TurnSticks
<1>2. CASE Tools
  <2>1. recipe = "tool_agent" /\ ToolNext
    BY <1>2 DEF Tools
  <2>2. ASSUME NEW d \in Conversations, NEW s \in Servers, Ask(d, s) PROVE TurnSticks
    <3>1. server' = [server EXCEPT ![d] = s] /\ DOMAIN server = Conversations
      BY <2>1, <2>2 DEF Ask, Sticky
    <3>2. \A i \in 1 .. Len(request_id_to_server) :
            request_id_to_server[i][1] = d => request_id_to_server[i][2] = s
      BY <2>1, <2>2, AskChosen DEF Chosen
    <3>3. ASSUME NEW c \in Conversations, server[c] # NoServer, server'[c] # server[c]
          PROVE  Cardinality(others[c]) >= CacheSize
      <4>1. c = d /\ server'[c] = s
        BY <3>1, <3>3
      <4>2. ~BehindIn(request_id_to_server, c, server[c], others[c])
        <5> SUFFICES ASSUME NEW i \in 1 .. Len(request_id_to_server),
                            request_id_to_server[i] = <<c, server[c]>>
                     PROVE  FALSE
          BY DEF BehindIn
        <5>1. request_id_to_server[i][1] = d /\ request_id_to_server[i][2] = server[c]
          BY <4>1
        <5> QED BY <3>2, <3>3, <4>1, <5>1
      <4> QED BY <2>1, <3>3, <4>2 DEF Sticky
    <3> QED BY <3>3 DEF TurnSticks
  <2> QED BY <1>1, <2>1, <2>2, OnlyAskChooses
<1>3. CASE ~Tools
  BY <1>1, <1>3 DEF Next, Partial, Ended, NoTools, vars, tools
<1> QED BY <1>2, <1>3

\* A later turn of a conversation goes to another server only if max_cache_size
\* other conversations had a turn since: the LRU cache forgets nothing earlier, for
\* any number of servers and conversations (AsyncLLMServerManager._choose_server).
THEOREM SessionsAreSticky == Spec => StickySessions
<1>1. Init => Sticky
  BY InitSticky
<1>2. Sticky /\ [Next]_vars => Sticky'
  BY NextSticky
<1>3. Sticky /\ [Next]_vars => [TurnSticks]_vars
  BY StepSticks
<1> QED BY <1>1, <1>2, <1>3, PTL DEF Spec, StickySessions

-----------------------------------------------------------------------------
(* Partial rollout. *)

Token  == [pos : Nat, weights : Nat, eos : BOOLEAN]
Result == [ids : Seq(Token), log_probs : Seq(Token), is_cancel : BOOLEAN,
           start : Nat \cup {-1}, end : Nat \cup {-1}]
Entry  == [server : Servers, tokens : Seq(Token), cancel : BOOLEAN, ready : BOOLEAN]
Call   == [at : {"idle", "sent", "engine"}, attempt : Nat, version : Nat]

\* A response so far: log-probs beyond its ids belong to tokens that were cut off.
Piece(out) ==
    /\ out \in Result
    /\ Len(out.ids) <= PartialLength
    /\ IF Len(out.ids) < PartialLength THEN Len(out.log_probs) = Len(out.ids)
                                       ELSE Len(out.log_probs) >= Len(out.ids)
    /\ \A i \in 1 .. Len(out.ids) : /\ out.ids[i].pos = i
                                    /\ out.ids[i].eos => i = Len(out.ids)
                                    /\ out.log_probs[i] = out.ids[i]
    /\ out.is_cancel => \A i \in 1 .. Len(out.ids) : ~out.ids[i].eos
    /\ ~out.is_cancel => out.ids # <<>>

\* Tokens that go on after n others, of which only the last may end the response.
Continues(tokens, n) ==
    \A i \in 1 .. Len(tokens) : /\ tokens[i].pos = n + i
                                /\ tokens[i].eos => i = Len(tokens)

NoneEnds(tokens) == \A i \in 1 .. Len(tokens) : ~tokens[i].eos

\* Only a response that was cut is generated, and the engine goes on where it ends.
PieceOf(r) ==
    /\ Piece(outputs[r])
    /\ calls[r].at # "idle" => outputs[r].is_cancel
    /\ calls[r].at = "engine" =>
         /\ Request(r) \in DOMAIN req_output
         /\ Continues(req_output[Request(r)].tokens, Len(outputs[r].ids))
         /\ IF req_output[Request(r)].ready THEN req_output[Request(r)].tokens # <<>>
                                            ELSE NoneEnds(req_output[Request(r)].tokens)

\* The versions of a response and of its call against the weights of the tokens.
VersionsOf(r) ==
    /\ \A i \in 1 .. Len(outputs[r].ids) :
         /\ outputs[r].start <= outputs[r].ids[i].weights
         /\ outputs[r].ids[i].weights <= weights
         /\ early = 0 => outputs[r].ids[i].weights <= outputs[r].end
    /\ outputs[r].start <= current_param_version
    /\ calls[r].at # "idle" => /\ calls[r].version <= current_param_version
                               /\ outputs[r].start <= calls[r].version
                               /\ early = 0 => calls[r].version = weights
    /\ calls[r].at = "engine" =>
         \A i \in 1 .. Len(req_output[Request(r)].tokens) :
           /\ calls[r].version <= req_output[Request(r)].tokens[i].weights
           /\ req_output[Request(r)].tokens[i].weights <= weights

PartialTyped ==
    /\ calls \in [Responses -> Call] /\ outputs \in [Responses -> Result]
    /\ \A q \in DOMAIN req_output : req_output[q] \in Entry
    /\ paused \in [Servers -> BOOLEAN]
    /\ weights \in Nat /\ current_param_version \in Nat /\ early \in Nat

\* Every server turns requests away, and none is generating, while weights are copied.
Phases ==
    /\ current_param_version <= weights
    /\ phase # "update" => current_param_version = weights
    /\ phase = "cancel" => \A s \in Servers \ todo : paused[s]
    /\ phase = "copy" =>
         /\ \A s \in Servers : paused[s]
         /\ \A r \in Responses : /\ calls[r].at # "engine"
                                 /\ early = 0 => calls[r].at = "idle"

Continued ==
    /\ PartialTyped /\ Phases
    /\ \A r \in Responses : PieceOf(r) /\ VersionsOf(r)

LEMMA TokenWeights ==
    ASSUME NEW s \in Seq(Token) PROVE \A i \in 1 .. Len(s) : s[i].weights \in Nat
<1>1. \A i \in 1 .. Len(s) : s[i] \in Token
  OBVIOUS
<1> QED BY <1>1 DEF Token

\* A response without a result of its own in this step.
LEMMA Unmoved ==
    ASSUME PartialTyped, PartialTyped', NEW r \in Responses, PieceOf(r), VersionsOf(r),
           calls'[r] = calls[r], outputs'[r] = outputs[r],
           calls[r].at = "engine" =>
             /\ Request(r) \in DOMAIN req_output'
             /\ req_output'[Request(r)].tokens = req_output[Request(r)].tokens
             /\ req_output'[Request(r)].ready = req_output[Request(r)].ready,
           weights <= weights', current_param_version <= current_param_version',
           early' = 0 => early = 0 /\ (calls[r].at = "idle" \/ weights' = weights)
    PROVE  PieceOf(r)' /\ VersionsOf(r)'
<1>1. Request(r)' = Request(r)
  BY DEF Request
<1>2. PieceOf(r)'
  BY <1>1 DEF PieceOf
<1>3. /\ calls[r] \in Call /\ outputs[r] \in Result
      /\ outputs[r].ids \in Seq(Token) /\ outputs[r].start \in Int /\ outputs[r].end \in Int
      /\ calls[r].version \in Int
      /\ weights \in Nat /\ weights' \in Nat /\ early \in Nat
      /\ current_param_version \in Nat /\ current_param_version' \in Nat
  BY DEF PartialTyped, Call, Result
<1>4. \A i \in 1 .. Len(outputs[r].ids) : outputs[r].ids[i].weights \in Nat
  BY <1>3, TokenWeights
<1>5. \A i \in 1 .. Len(outputs'[r].ids) :
        /\ outputs'[r].start <= outputs'[r].ids[i].weights
        /\ outputs'[r].ids[i].weights <= weights'
        /\ early' = 0 => outputs'[r].ids[i].weights <= outputs'[r].end
  BY SMTT(20), <1>3, <1>4 DEF VersionsOf
<1>6. /\ outputs'[r].start <= current_param_version'
      /\ calls'[r].at # "idle" => /\ calls'[r].version <= current_param_version'
                                  /\ outputs'[r].start <= calls'[r].version
                                  /\ early' = 0 => calls'[r].version = weights'
  BY <1>3 DEF VersionsOf
<1>7. ASSUME calls'[r].at = "engine"
      PROVE  \A i \in 1 .. Len(req_output'[Request(r)].tokens) :
               /\ calls'[r].version <= req_output'[Request(r)].tokens[i].weights
               /\ req_output'[Request(r)].tokens[i].weights <= weights'
  <2>1. /\ Request(r) \in DOMAIN req_output
        /\ req_output'[Request(r)].tokens = req_output[Request(r)].tokens
    BY <1>7 DEF PieceOf
  <2>2. req_output[Request(r)].tokens \in Seq(Token)
    BY <2>1 DEF PartialTyped, Entry
  <2>3. \A i \in 1 .. Len(req_output[Request(r)].tokens) :
          req_output[Request(r)].tokens[i].weights \in Nat
    BY <2>2, TokenWeights
  <2>4. \A i \in 1 .. Len(req_output[Request(r)].tokens) :
           /\ calls[r].version <= req_output[Request(r)].tokens[i].weights
           /\ req_output[Request(r)].tokens[i].weights <= weights
    BY <1>7 DEF VersionsOf
  <2> QED BY <1>3, <2>1, <2>3, <2>4
<1> QED BY <1>1, <1>2, <1>5, <1>6, <1>7 DEF VersionsOf

\* What run() makes of an answer, when the answer goes on where the response ends.
LEMMA MergedPiece ==
    ASSUME NEW r \in Responses, NEW tokens \in Seq(Token), NEW cut \in BOOLEAN,
           Piece(outputs[r]), outputs[r].is_cancel, calls[r].version \in Nat,
           Continues(tokens, Len(outputs[r].ids)),
           IF cut THEN NoneEnds(tokens) ELSE tokens # <<>>
    PROVE  /\ Piece(Merged(r, tokens, cut))
           /\ \A i \in 1 .. Len(Merged(r, tokens, cut).ids) :
                \/ /\ i \in 1 .. Len(outputs[r].ids)
                   /\ Merged(r, tokens, cut).ids[i] = outputs[r].ids[i]
                \/ \E k \in 1 .. Len(tokens) : Merged(r, tokens, cut).ids[i] = tokens[k]
<1> DEFINE old  == outputs[r]
           all  == old.ids \o tokens
           logs == old.log_probs \o tokens
           n    == Len(old.ids)
           m    == Len(tokens)
           size == IF PartialLength < n + m THEN PartialLength ELSE n + m
           ids  == SubSeq(all, 1, size)
           out  == Merged(r, tokens, cut)
<1>1. /\ old.ids \in Seq(Token) /\ old.log_probs \in Seq(Token) /\ old.start \in Nat \cup {-1}
      /\ n \in Nat /\ m \in Nat /\ PartialLength \in Nat \ {0} /\ n <= PartialLength
  BY PartialAssumption DEF Piece, Result
<1>2. all \in Seq(Token) /\ Joins(all, old.ids, tokens)
  BY <1>1, Joined
<1>3. logs \in Seq(Token) /\ Joins(logs, old.log_probs, tokens)
  BY <1>1, Joined
<1>4. /\ Len(all) = n + m /\ \A i \in 1 .. n : all[i] = old.ids[i]
      /\ \A k \in 1 .. m : all[n + k] = tokens[k]
  <2> HIDE DEF all
  <2> QED BY <1>2 DEF Joins
<1>5. /\ out.ids = ids /\ out.log_probs = logs /\ out.is_cancel = cut
      /\ out.start \in Nat \cup {-1} /\ out.end \in Nat \cup {-1}
      /\ out = [ids |-> out.ids, log_probs |-> out.log_probs, is_cancel |-> out.is_cancel,
                start |-> out.start, end |-> out.end]
  <2>1. Take(all, PartialLength) = ids
    BY <1>4 DEF Take
  <2> HIDE DEF all, ids
  <2> QED BY <1>1, <2>1 DEF Merged, all
<1> HIDE DEF all, out
<1>6. ids \in Seq(Token) /\ Len(ids) = size /\ \A i \in 1 .. size : ids[i] = all[i]
  <2>1. size \in 0 .. Len(all) /\ 1 \in Nat \ {0} /\ 1 <= size + 1
    BY <1>1, <1>4
  <2> HIDE DEF size
  <2>2. /\ ids \in Seq(Token) /\ Len(ids) = size - 1 + 1
        /\ \A i \in 1 .. size - 1 + 1 : ids[i] = all[1 + i - 1]
    BY <1>2, <2>1, SubSequence
  <2>3. size - 1 + 1 = size /\ \A i \in 1 .. size : 1 + i - 1 = i
    BY <2>1
  <2> QED BY <2>2, <2>3
<1> HIDE DEF ids
<1>7. /\ size \in Nat /\ n <= size /\ size <= PartialLength /\ size <= n + m
      /\ size < PartialLength => size = n + m
  BY <1>1
<1> HIDE DEF size
<1>8. ASSUME NEW i \in 1 .. size
      PROVE  \/ i \in 1 .. n /\ ids[i] = old.ids[i]
             \/ \E k \in 1 .. m : i = n + k /\ ids[i] = tokens[k]
  <2>1. CASE i <= n
    BY <1>1, <1>4, <1>6, <2>1
  <2>2. CASE ~(i <= n)
    <3> DEFINE k == i - n
    <3>1. k \in 1 .. m /\ i = n + k
      BY <1>1, <1>7, <2>2
    <3> HIDE DEF k
    <3> QED BY <1>4, <1>6, <3>1
  <2> QED BY <2>1, <2>2
<1>9. /\ \A i \in 1 .. n : old.ids[i].pos = i /\ ~old.ids[i].eos
                           /\ old.log_probs[i] = old.ids[i]
      /\ \A k \in 1 .. m : tokens[k].pos = n + k /\ (tokens[k].eos => k = m)
      /\ IF n < PartialLength THEN Len(old.log_probs) = n ELSE Len(old.log_probs) >= n
  BY DEF Piece, Continues
<1>10. /\ Len(logs) = Len(old.log_probs) + m /\ Len(old.log_probs) \in Nat
       /\ \A i \in 1 .. Len(old.log_probs) : logs[i] = old.log_probs[i]
       /\ \A k \in 1 .. m : logs[Len(old.log_probs) + k] = tokens[k]
  <2> HIDE DEF logs
  <2> QED BY <1>3 DEF Joins
<1> HIDE DEF logs
<1>11. ASSUME NEW i \in 1 .. size
       PROVE  ids[i].pos = i /\ (ids[i].eos => i = size) /\ logs[i] = ids[i]
  <2>1. CASE i \in 1 .. n /\ ids[i] = old.ids[i]
    <3>1. i \in 1 .. Len(old.log_probs)
      BY <1>1, <1>9, <1>10, <2>1
    <3> QED BY <1>9, <1>10, <2>1, <3>1
  <2>2. CASE \E k \in 1 .. m : i = n + k /\ ids[i] = tokens[k]
    <3>1. PICK k \in 1 .. m : i = n + k /\ ids[i] = tokens[k]
      BY <2>2
    <3>2. n < PartialLength
      BY <1>1, <1>7, <3>1
    <3>3. logs[n + k] = tokens[k]
      BY <1>9, <1>10, <3>2
    <3>4. k = m => i = size
      BY <1>1, <1>7, <3>1
    <3> QED BY <1>9, <3>1, <3>3, <3>4
  <2> QED BY <1>8, <2>1, <2>2
<1>12. IF size < PartialLength THEN Len(logs) = size ELSE Len(logs) >= size
  <2> DEFINE p == Len(old.log_probs)
  <2>1. /\ IF n < PartialLength THEN p = n ELSE p >= n
        /\ Len(logs) = p + m /\ p \in Nat
    BY <1>9, <1>10
  <2> HIDE DEF p, n, m
  <2> QED BY <1>1, <1>7, <2>1
<1>13. cut => \A i \in 1 .. size : ~ids[i].eos
  BY <1>8, <1>9 DEF NoneEnds
<1>14. ~cut => ids # <<>>
  <2>1. ~cut => m # 0
    OBVIOUS
  <2>2. ~cut => size # 0
    BY <1>1, <1>7, <2>1
  <2> QED BY <1>6, <2>2
<1>15. out \in Result
  BY <1>3, <1>5, <1>6 DEF Result, logs
<1>16. Piece(out)
  BY <1>5, <1>6, <1>7, <1>11, <1>12, <1>13, <1>14, <1>15 DEF Piece
<1>17. \A i \in 1 .. Len(out.ids) :
         \/ i \in 1 .. Len(outputs[r].ids) /\ out.ids[i] = outputs[r].ids[i]
         \/ \E k \in 1 .. Len(tokens) : out.ids[i] = tokens[k]
  BY <1>5, <1>6, <1>8
<1> QED BY <1>16, <1>17 DEF out

\* The answer that ends a call.
LEMMA Returned ==
    ASSUME Continued, NEW r \in Responses, NEW tokens \in Seq(Token), NEW cut \in BOOLEAN,
           calls[r].at # "idle", Continues(tokens, Len(outputs[r].ids)),
           IF cut THEN NoneEnds(tokens) ELSE tokens # <<>>,
           \A i \in 1 .. Len(tokens) : /\ calls[r].version <= tokens[i].weights
                                       /\ tokens[i].weights <= weights,
           Return(r, tokens, cut), UNCHANGED <<weights, current_param_version, early>>
    PROVE  /\ calls' \in [Responses -> Call] /\ outputs' \in [Responses -> Result]
           /\ calls'[r].at = "idle" /\ PieceOf(r)' /\ VersionsOf(r)'
           /\ \A o \in Responses \ {r} : calls'[o] = calls[o] /\ outputs'[o] = outputs[o]
<1> DEFINE old  == outputs[r]
           new  == Merged(r, tokens, cut)
           call == [calls[r] EXCEPT !.at = "idle"]
<1>1. /\ calls \in [Responses -> Call] /\ outputs \in [Responses -> Result]
      /\ calls[r] \in Call /\ calls[r].version \in Nat /\ call \in Call /\ call.at = "idle"
      /\ weights \in Nat /\ current_param_version \in Nat /\ early \in Nat
  BY DEF Continued, PartialTyped, Call
<1>2. PieceOf(r) /\ VersionsOf(r)
  BY DEF Continued
<1>3. Piece(old) /\ old.is_cancel
  BY <1>2 DEF PieceOf
<1>4. /\ Piece(new)
      /\ \A i \in 1 .. Len(new.ids) :
           \/ i \in 1 .. Len(old.ids) /\ new.ids[i] = old.ids[i]
           \/ \E k \in 1 .. Len(tokens) : new.ids[i] = tokens[k]
  BY <1>1, <1>3, MergedPiece
<1>5. /\ new.start = IF Started(r) THEN old.start ELSE calls[r].version
      /\ new.end = calls[r].version
  BY DEF Merged
<1> HIDE DEF new, call
<1>6. new \in Result
  BY <1>4 DEF Piece
<1>7. outputs' = [outputs EXCEPT ![r] = new] /\ calls' = [calls EXCEPT ![r] = call]
  BY DEF Return, new, call
<1>8. /\ calls' \in [Responses -> Call] /\ outputs' \in [Responses -> Result]
      /\ calls'[r] = call /\ outputs'[r] = new
      /\ \A o \in Responses \ {r} : calls'[o] = calls[o] /\ outputs'[o] = outputs[o]
  BY <1>1, <1>6, <1>7
<1>9. calls'[r].at = "idle"
  BY <1>1, <1>8
<1>10. PieceOf(r)'
  BY <1>4, <1>8, <1>9 DEF PieceOf
<1>11. /\ old.ids \in Seq(Token) /\ old.start \in Int
       /\ \A i \in 1 .. Len(old.ids) : old.ids[i].weights \in Nat
       /\ \A i \in 1 .. Len(tokens) : tokens[i].weights \in Nat
  BY <1>3, TokenWeights DEF Piece, Result
<1>12. /\ old.start <= current_param_version /\ calls[r].version <= current_param_version
       /\ old.start <= calls[r].version /\ (early = 0 => calls[r].version = weights)
       /\ \A i \in 1 .. Len(old.ids) : /\ old.start <= old.ids[i].weights
                                       /\ old.ids[i].weights <= weights
  BY <1>2 DEF VersionsOf
<1>13. ~Started(r) => Len(old.ids) = 0
  BY DEF Started, NoOutput
<1>14. new.start <= current_param_version
  BY <1>5, <1>12
<1>15. ASSUME NEW i \in 1 .. Len(new.ids)
       PROVE  /\ new.start <= new.ids[i].weights /\ new.ids[i].weights <= weights
              /\ early = 0 => new.ids[i].weights <= new.end
  <2>1. CASE i \in 1 .. Len(old.ids) /\ new.ids[i] = old.ids[i]
    <3>1. Started(r)
      BY <1>13, <2>1
    <3> QED BY <1>5, <1>12, <2>1, <3>1
  <2>2. CASE \E k \in 1 .. Len(tokens) : new.ids[i] = tokens[k]
    <3>1. PICK k \in 1 .. Len(tokens) : new.ids[i] = tokens[k]
      BY <2>2
    <3>2. /\ calls[r].version <= tokens[k].weights /\ tokens[k].weights <= weights
          /\ tokens[k].weights \in Nat
      BY <1>11
    <3>3. new.start <= calls[r].version
      BY <1>1, <1>5, <1>12
    <3>4. new.start \in Int
      BY <1>1, <1>5, <1>11
    <3> HIDE DEF old
    <3> QED BY <1>1, <1>5, <1>12, <3>1, <3>2, <3>3, <3>4
  <2> QED BY <1>4, <2>1, <2>2
<1>16. VersionsOf(r)'
  BY <1>8, <1>9, <1>14, <1>15 DEF VersionsOf
<1> QED BY <1>8, <1>9, <1>10, <1>16

\* A step of one response's call leaves the others as they are.
LEMMA OneMoves ==
    ASSUME Continued, PartialTyped', NEW r \in Responses, PieceOf(r)', VersionsOf(r)',
           UNCHANGED <<paused, sync, early>>,
           \A o \in Responses \ {r} :
             /\ calls'[o] = calls[o] /\ outputs'[o] = outputs[o]
             /\ Request(o) \in DOMAIN req_output =>
                  Request(o) \in DOMAIN req_output' /\ req_output'[Request(o)] = req_output[Request(o)],
           phase = "copy" => calls'[r].at = "idle"
                             \/ (calls[r].at = "sent" /\ calls'[r].at = "sent")
    PROVE  Continued'
<1>1. PartialTyped /\ Phases
  BY DEF Continued
<1>2. ASSUME NEW o \in Responses PROVE PieceOf(o)' /\ VersionsOf(o)'
  <2>1. CASE o = r
    BY <2>1
  <2>2. CASE o # r
    <3>1. /\ calls'[o] = calls[o] /\ outputs'[o] = outputs[o]
          /\ Request(o) \in DOMAIN req_output =>
                  Request(o) \in DOMAIN req_output' /\ req_output'[Request(o)] = req_output[Request(o)]
      BY <2>2
    <3>2. PieceOf(o) /\ VersionsOf(o)
      BY DEF Continued
    <3>3. /\ weights <= weights' /\ current_param_version <= current_param_version'
          /\ early' = 0 => early = 0 /\ (calls[o].at = "idle" \/ weights' = weights)
      BY <1>1 DEF PartialTyped, sync
    <3>4. calls[o].at = "engine" =>
             /\ Request(o) \in DOMAIN req_output'
             /\ req_output'[Request(o)].tokens = req_output[Request(o)].tokens
             /\ req_output'[Request(o)].ready = req_output[Request(o)].ready
      BY <3>1, <3>2 DEF PieceOf
    <3> QED BY <1>1, <3>1, <3>2, <3>3, <3>4, Unmoved
  <2> QED BY <2>1, <2>2
<1>3. Phases'
  <2>1. UNCHANGED <<paused, phase, todo, weights, current_param_version, early>>
    BY DEF sync
  <2>2. \A o \in Responses : phase = "copy" =>
          calls'[o].at # "engine" /\ (early = 0 => calls'[o].at = "idle")
    BY <1>1 DEF Phases
  <2> QED BY <1>1, <2>1, <2>2 DEF Phases
<1> QED BY <1>2, <1>3 DEF Continued

\* The requests of two responses differ.
LEMMA RequestsDiffer ==
    ASSUME NEW r \in Responses, NEW o \in Responses \ {r} PROVE Request(o) # Request(r)
BY DEF Request

\* The synchronizer moves, and with it perhaps the weights; no call does.
LEMMA NoneMoves ==
    ASSUME Continued, PartialTyped', Phases', UNCHANGED <<calls, outputs, early>>,
           DOMAIN req_output' = DOMAIN req_output,
           \A q \in DOMAIN req_output : /\ req_output'[q].tokens = req_output[q].tokens
                                        /\ req_output'[q].ready = req_output[q].ready,
           weights <= weights', current_param_version <= current_param_version',
           early = 0 => weights' = weights \/ \A r \in Responses : calls[r].at = "idle"
    PROVE  Continued'
<1>1. PartialTyped
  BY DEF Continued
<1>2. ASSUME NEW r \in Responses PROVE PieceOf(r)' /\ VersionsOf(r)'
  <2>1. PieceOf(r) /\ VersionsOf(r)
    BY DEF Continued
  <2>2. calls[r].at = "engine" =>
             /\ Request(r) \in DOMAIN req_output'
             /\ req_output'[Request(r)].tokens = req_output[Request(r)].tokens
             /\ req_output'[Request(r)].ready = req_output[Request(r)].ready
    BY <2>1 DEF PieceOf
  <2> QED BY <1>1, <2>1, <2>2, Unmoved
<1> QED BY <1>2 DEF Continued

LEMMA InitContinued == Init => Continued
<1> SUFFICES ASSUME Init PROVE Continued
  OBVIOUS
<1>1. /\ paused = [s \in Servers |-> FALSE] /\ req_output = <<>>
      /\ calls = [r \in Responses |-> Idle] /\ outputs = [r \in Responses |-> NoOutput]
      /\ phase = "run" /\ weights = 0 /\ current_param_version = 0 /\ early = 0
  BY DEF Init, PartialInit
<1>2. Idle \in Call /\ Idle.at = "idle"
  BY DEF Idle, Call
<1>3. /\ NoOutput \in Result /\ NoOutput.ids = <<>> /\ NoOutput.log_probs = <<>>
      /\ NoOutput.is_cancel /\ NoOutput.start = -1
  BY DEF NoOutput, Result
<1>4. Piece(NoOutput)
  BY <1>3, PartialAssumption DEF Piece
<1>5. PartialTyped
  BY <1>1, <1>2, <1>3 DEF PartialTyped
<1>6. Phases
  BY <1>1 DEF Phases
<1>7. ASSUME NEW r \in Responses PROVE PieceOf(r) /\ VersionsOf(r)
  BY <1>1, <1>2, <1>3, <1>4 DEF PieceOf, VersionsOf
<1> QED BY <1>5, <1>6, <1>7 DEF Continued

LEMMA SubmitContinued == Continued /\ Submit => Continued'
<1> SUFFICES ASSUME Continued, Submit PROVE Continued'
  OBVIOUS
<1>1. PartialTyped /\ Phases
  BY DEF Continued
<1>2. /\ UNCHANGED <<paused, req_output, outputs, phase, todo, weights, current_param_version>>
      /\ \A r \in Responses : calls[r].at = "idle"
  BY DEF Submit, server_side, sync
<1>3. /\ calls' \in [Responses -> Call]
      /\ \A r \in Responses :
           IF outputs[r].is_cancel
           THEN calls'[r].at = "sent" /\ calls'[r].version = current_param_version
           ELSE calls'[r] = calls[r]
  <2>1. /\ current_param_version \in Nat
        /\ \A r \in Responses : calls[r] \in Call /\ calls[r].attempt + 1 \in Nat
    BY <1>1 DEF PartialTyped, Call
  <2>2. calls' = [r \in Responses |->
                   IF outputs[r].is_cancel
                   THEN [at |-> "sent", attempt |-> calls[r].attempt + 1,
                         version |-> current_param_version]
                   ELSE calls[r]]
    BY DEF Submit, ToGenerate
  <2> QED BY <2>1, <2>2 DEF Call
<1>4. early' \in Nat /\ (early' = 0 => early = 0 /\ phase = "run")
  BY <1>1 DEF Submit, PartialTyped
<1>5. PartialTyped'
  BY <1>1, <1>2, <1>3, <1>4 DEF PartialTyped
<1>6. Phases'
  <2>1. ASSUME NEW r \in Responses, phase = "copy"
        PROVE  calls'[r].at # "engine" /\ (early' = 0 => calls'[r].at = "idle")
    BY <1>2, <1>3, <1>4, <2>1
  <2> QED BY <1>1, <1>2, <2>1 DEF Phases
<1>7. ASSUME NEW r \in Responses PROVE PieceOf(r)' /\ VersionsOf(r)'
  <2>1. PieceOf(r) /\ VersionsOf(r)
    BY DEF Continued
  <2>2. CASE outputs[r].is_cancel
    <3>1. calls'[r].at = "sent" /\ calls'[r].version = current_param_version
      BY <1>3, <2>2
    <3>2. PieceOf(r)'
      BY <1>2, <2>1, <2>2, <3>1 DEF PieceOf
    <3>3. /\ current_param_version \in Nat /\ weights \in Nat
          /\ early' = 0 => current_param_version = weights
      BY <1>1, <1>4 DEF PartialTyped, Phases
    <3>4. VersionsOf(r)'
      BY <1>2, <1>4, <2>1, <3>1, <3>3 DEF VersionsOf
    <3> QED BY <3>2, <3>4
  <2>3. CASE ~outputs[r].is_cancel
    <3>1. calls'[r] = calls[r] /\ calls[r].at = "idle" /\ outputs'[r] = outputs[r]
      BY <1>2, <1>3, <2>3
    <3>2. /\ weights <= weights' /\ current_param_version <= current_param_version'
          /\ early' = 0 => early = 0 /\ (calls[r].at = "idle" \/ weights' = weights)
      BY <1>1, <1>2, <1>4 DEF PartialTyped
    <3> QED BY <1>1, <1>5, <2>1, <3>1, <3>2, Unmoved
  <2> QED BY <2>2, <2>3
<1> QED BY <1>5, <1>6, <1>7 DEF Continued

LEMMA ArriveContinued ==
    ASSUME Continued, NEW r \in Responses, NEW s \in Servers, Arrive(r, s)
    PROVE  Continued'
<1>1. /\ PartialTyped /\ Phases /\ PieceOf(r) /\ VersionsOf(r)
      /\ calls[r].at = "sent" /\ UNCHANGED <<paused, sync, early>>
      /\ UNCHANGED <<weights, current_param_version>>
  BY DEF Continued, Arrive, sync
<1>2. CASE paused[s]
  <2>1. Return(r, <<>>, TRUE) /\ req_output' = req_output
    BY <1>2 DEF Arrive
  <2>2. /\ <<>> \in Seq(Token) /\ Continues(<<>>, Len(outputs[r].ids)) /\ NoneEnds(<<>>)
        /\ \A i \in 1 .. Len(<<>>) : /\ calls[r].version <= <<>>[i].weights
                                     /\ <<>>[i].weights <= weights
    BY DEF Continues, NoneEnds
  <2>3. /\ calls' \in [Responses -> Call] /\ outputs' \in [Responses -> Result]
        /\ calls'[r].at = "idle" /\ PieceOf(r)' /\ VersionsOf(r)'
        /\ \A o \in Responses \ {r} : calls'[o] = calls[o] /\ outputs'[o] = outputs[o]
    BY <1>1, <2>1, <2>2, Returned
  <2>4. PartialTyped'
    BY <1>1, <2>1, <2>3 DEF PartialTyped
  <2> QED BY <1>1, <2>1, <2>3, <2>4, OneMoves
<1>3. CASE ~paused[s]
  <2> DEFINE entry == [server |-> s, tokens |-> <<>>, cancel |-> FALSE, ready |-> FALSE]
             call  == [calls[r] EXCEPT !.at = "engine"]
  <2>1. /\ req_output' = [q \in DOMAIN req_output \cup {Request(r)} |->
                            IF q = Request(r) THEN entry ELSE req_output[q]]
        /\ calls' = [calls EXCEPT ![r] = call] /\ outputs' = outputs
    BY <1>3 DEF Arrive
  <2>2. entry \in Entry /\ entry.tokens = <<>> /\ ~entry.ready
    BY DEF Entry
  <2>3. calls \in [Responses -> Call] /\ calls[r] \in Call
    BY <1>1 DEF PartialTyped
  <2>4. /\ call \in Call /\ call.at = "engine" /\ call.attempt = calls[r].attempt
        /\ call.version = calls[r].version
    BY <2>3 DEF Call
  <2> HIDE DEF entry, call
  <2>5. /\ calls' \in [Responses -> Call] /\ calls'[r] = call
        /\ \A o \in Responses \ {r} : calls'[o] = calls[o]
    BY <2>1, <2>3, <2>4
  <2>6. Request(r)' = Request(r)
    BY <2>4, <2>5 DEF Request
  <2>7. PartialTyped'
    BY <1>1, <2>1, <2>2, <2>5 DEF PartialTyped
  <2>8. Request(r) \in DOMAIN req_output' /\ req_output'[Request(r)] = entry
    BY <2>1
  <2>9. PieceOf(r)'
    BY <1>1, <2>1, <2>2, <2>4, <2>5, <2>6, <2>8 DEF PieceOf, Continues, NoneEnds
  <2>10. VersionsOf(r)'
    BY <1>1, <2>1, <2>2, <2>4, <2>5, <2>6, <2>8 DEF VersionsOf
  <2>11. \A o \in Responses \ {r} :
           /\ calls'[o] = calls[o] /\ outputs'[o] = outputs[o]
           /\ Request(o) \in DOMAIN req_output =>
                Request(o) \in DOMAIN req_output' /\ req_output'[Request(o)] = req_output[Request(o)]
    BY <2>1, <2>5, RequestsDiffer
  <2>12. phase # "copy"
    BY <1>1, <1>3 DEF Phases
  <2> QED BY <1>1, <2>7, <2>9, <2>10, <2>11, <2>12, OneMoves
<1> QED BY <1>2, <1>3

LEMMA EngineContinued ==
    ASSUME Continued, NEW r \in Responses, EngineStep(r)
    PROVE  Continued'
<1> DEFINE entry == req_output[Request(r)]
           base  == Len(outputs[r].ids)
           n     == Len(entry.tokens)
           pos   == base + n + 1
<1>1. /\ PartialTyped /\ Phases /\ PieceOf(r) /\ VersionsOf(r)
      /\ calls[r].at = "engine" /\ ~entry.ready
      /\ UNCHANGED <<paused, sync, early, calls, outputs, weights, current_param_version>>
  BY DEF Continued, EngineStep, sync
<1>2. PICK eos \in BOOLEAN :
        req_output' = [req_output EXCEPT ![Request(r)].tokens =
                           Append(@, [pos |-> pos, weights |-> weights, eos |-> eos]),
                         ![Request(r)].ready = eos \/ pos = ModelLen]
  BY DEF EngineStep
<1> DEFINE token == [pos |-> pos, weights |-> weights, eos |-> eos]
           done  == eos \/ pos = ModelLen
           new   == [entry EXCEPT !.tokens = Append(@, token), !.ready = done]
<1>3. /\ Request(r) \in DOMAIN req_output /\ entry \in Entry /\ entry.tokens \in Seq(Token)
      /\ outputs[r].ids \in Seq(Token) /\ weights \in Nat
      /\ Continues(entry.tokens, Len(outputs[r].ids)) /\ NoneEnds(entry.tokens)
      /\ calls \in [Responses -> Call] /\ calls[r].version \in Nat
  BY <1>1 DEF PieceOf, PartialTyped, Entry, Result, Call
<1>4. req_output' = [req_output EXCEPT ![Request(r)] = new]
  <2>1. req_output' = [req_output EXCEPT ![Request(r)].tokens = Append(@, token),
                                         ![Request(r)].ready = done]
    BY <1>2
  <2> HIDE DEF token, done, pos
  <2> QED BY <1>3, <2>1
<1>5. pos \in Nat /\ token \in Token /\ token.pos = pos /\ token.weights = weights /\ token.eos = eos
  <2>1. pos \in Nat
    <3>1. base \in Nat /\ n \in Nat
      BY <1>3
    <3> HIDE DEF base, n
    <3> QED BY <3>1
  <2> HIDE DEF pos
  <2> QED BY <1>3, <2>1 DEF Token
<1> HIDE DEF token
<1>6. /\ new \in Entry /\ new.tokens = Append(entry.tokens, token)
      /\ eos => new.ready
  <2>1. done \in BOOLEAN /\ (eos => done)
    OBVIOUS
  <2> HIDE DEF done
  <2>2. Append(entry.tokens, token) \in Seq(Token)
    BY <1>3, <1>5
  <2> QED BY <1>3, <2>1, <2>2 DEF Entry
<1>7. /\ new.tokens \in Seq(Token) /\ Len(new.tokens) = n + 1 /\ n \in Nat
      /\ \A i \in 1 .. n : new.tokens[i] = entry.tokens[i]
      /\ new.tokens[n + 1] = token
  BY <1>3, <1>5, <1>6, Extended
<1>8. /\ \A i \in 1 .. n : entry.tokens[i].pos = Len(outputs[r].ids) + i /\ ~entry.tokens[i].eos
      /\ pos = Len(outputs[r].ids) + (n + 1)
  <2>1. base \in Nat /\ n \in Nat
    BY <1>3
  <2>2. pos = Len(outputs[r].ids) + (n + 1)
    <3> HIDE DEF base, n
    <3>1. pos = base + (n + 1)
      BY <2>1
    <3> QED BY <3>1 DEF base
  <2>3. \A i \in 1 .. n : entry.tokens[i].pos = Len(outputs[r].ids) + i /\ ~entry.tokens[i].eos
    BY <1>3 DEF Continues, NoneEnds
  <2> QED BY <2>2, <2>3
<1>9. \A i \in 1 .. n : /\ calls[r].version <= entry.tokens[i].weights
                        /\ entry.tokens[i].weights <= weights
  BY <1>1 DEF VersionsOf
<1>10. calls[r].version <= weights
  BY <1>1, <1>3 DEF VersionsOf, Phases, PartialTyped
<1> HIDE DEF new, n
<1>11. /\ DOMAIN req_output' = DOMAIN req_output /\ req_output'[Request(r)] = new
       /\ \A q \in DOMAIN req_output : q # Request(r) => req_output'[q] = req_output[q]
  BY <1>3, <1>4
<1> HIDE DEF entry, pos
<1>12. \A i \in 1 .. n + 1 : \/ i \in 1 .. n /\ new.tokens[i] = entry.tokens[i]
                             \/ i = n + 1 /\ new.tokens[i] = token
  BY <1>7
<1>13. Continues(new.tokens, Len(outputs[r].ids))
  BY <1>5, <1>7, <1>8, <1>12 DEF Continues
<1>14. IF new.ready THEN new.tokens # <<>> ELSE NoneEnds(new.tokens)
  <2>1. new.tokens # <<>>
    BY <1>7
  <2>2. ~new.ready => NoneEnds(new.tokens)
    BY <1>5, <1>6, <1>7, <1>8, <1>12 DEF NoneEnds
  <2> QED BY <2>1, <2>2
<1>15. \A i \in 1 .. Len(new.tokens) : /\ calls[r].version <= new.tokens[i].weights
                                       /\ new.tokens[i].weights <= weights
  BY <1>3, <1>5, <1>7, <1>9, <1>10, <1>12
<1>16. Request(r)' = Request(r)
  BY <1>1 DEF Request
<1>17. PartialTyped'
  BY <1>1, <1>6, <1>11 DEF PartialTyped
<1>18. PieceOf(r)'
  BY <1>1, <1>3, <1>11, <1>13, <1>14, <1>16 DEF PieceOf
<1>19. VersionsOf(r)'
  BY <1>1, <1>11, <1>15, <1>16 DEF VersionsOf
<1>20. \A o \in Responses \ {r} :
         /\ calls'[o] = calls[o] /\ outputs'[o] = outputs[o]
         /\ Request(o) \in DOMAIN req_output =>
              Request(o) \in DOMAIN req_output' /\ req_output'[Request(o)] = req_output[Request(o)]
  BY <1>1, <1>11, RequestsDiffer
<1>21. phase # "copy"
  BY <1>1 DEF Phases
<1> QED BY <1>1, <1>17, <1>18, <1>19, <1>20, <1>21, OneMoves

LEMMA CollectContinued ==
    ASSUME Continued, NEW r \in Responses, Collect(r)
    PROVE  Continued'
<1> DEFINE entry == req_output[Request(r)]
<1>1. /\ PartialTyped /\ Phases /\ PieceOf(r) /\ VersionsOf(r)
      /\ calls[r].at = "engine" /\ (entry.ready \/ entry.cancel)
      /\ UNCHANGED <<paused, sync, early>> /\ UNCHANGED <<weights, current_param_version>>
  BY DEF Continued, Collect, sync
<1>2. /\ Request(r) \in DOMAIN req_output /\ entry \in Entry /\ entry.tokens \in Seq(Token)
      /\ entry.ready \in BOOLEAN
      /\ Continues(entry.tokens, Len(outputs[r].ids))
      /\ IF entry.ready THEN entry.tokens # <<>> ELSE NoneEnds(entry.tokens)
  BY <1>1 DEF PieceOf, PartialTyped, Entry
<1>3. \A i \in 1 .. Len(entry.tokens) : /\ calls[r].version <= entry.tokens[i].weights
                                        /\ entry.tokens[i].weights <= weights
  BY <1>1 DEF VersionsOf
<1>4. /\ \/ entry.tokens = <<>> /\ Return(r, entry.tokens, TRUE) /\ req_output' = req_output
         \/ /\ Return(r, entry.tokens, ~entry.ready)
            /\ req_output' = [q \in DOMAIN req_output \ {Request(r)} |-> req_output[q]]
  BY DEF Collect, Cut
<1> HIDE DEF entry
<1>5. PICK cut \in BOOLEAN : /\ Return(r, entry.tokens, cut)
                             /\ IF cut THEN NoneEnds(entry.tokens) ELSE entry.tokens # <<>>
  <2>1. CASE entry.tokens = <<>> /\ Return(r, entry.tokens, TRUE)
    BY <1>2, <2>1
  <2>2. CASE Return(r, entry.tokens, ~entry.ready)
    <3>1. CASE entry.ready
      BY <1>2, <2>2, <3>1
    <3>2. CASE ~entry.ready
      BY <1>2, <2>2, <3>2
    <3> QED BY <3>1, <3>2
  <2> QED BY <1>4, <2>1, <2>2
<1>6. /\ calls' \in [Responses -> Call] /\ outputs' \in [Responses -> Result]
      /\ calls'[r].at = "idle" /\ PieceOf(r)' /\ VersionsOf(r)'
      /\ \A o \in Responses \ {r} : calls'[o] = calls[o] /\ outputs'[o] = outputs[o]
  BY <1>1, <1>2, <1>3, <1>5, Returned
<1>7. \A q \in DOMAIN req_output' : q \in DOMAIN req_output /\ req_output'[q] = req_output[q]
  BY <1>4
<1>8. \A o \in Responses \ {r} : Request(o) \in DOMAIN req_output =>
        Request(o) \in DOMAIN req_output' /\ req_output'[Request(o)] = req_output[Request(o)]
  BY <1>4, RequestsDiffer
<1>9. PartialTyped'
  BY <1>1, <1>6, <1>7 DEF PartialTyped
<1> QED BY <1>1, <1>6, <1>8, <1>9, OneMoves

\* The rollouter and the synchronizer.
LEMMA SynchronizeContinued ==
    ASSUME Continued, Pause \/ Synchronizer
    PROVE  Continued'
<1>1. /\ PartialTyped /\ Phases /\ UNCHANGED <<calls, outputs, early>>
      /\ weights \in Nat /\ current_param_version \in Nat
  BY DEF Continued, PartialTyped, Pause, Synchronizer, Drained, Copied, UpdateVersion, Resumed,
         CancelServer, ResumeServer
<1>2. CASE Pause \/ Drained \/ Copied \/ UpdateVersion \/ Resumed
  <2>1. UNCHANGED <<paused, req_output>>
    BY <1>2 DEF Pause, Drained, Copied, UpdateVersion, Resumed, server_side
  <2>2. /\ weights' \in Nat /\ current_param_version' \in Nat
        /\ weights <= weights' /\ current_param_version <= current_param_version'
        /\ weights' # weights => phase = "copy"
    BY <1>1, <1>2 DEF Pause, Drained, Copied, UpdateVersion, Resumed, Phases
  <2>3. PartialTyped'
    BY <1>1, <2>1, <2>2 DEF PartialTyped
  <2>4. Phases'
    <3>1. CASE Pause
      BY <1>1, <2>1, <3>1 DEF Pause, Enter, Phases
    <3>2. CASE Drained
      BY <1>1, <2>1, <3>2 DEF Drained, Enter, Phases
    <3>3. CASE Copied
      BY <1>1, <2>1, <3>3 DEF Copied, Enter, Phases
    <3>4. CASE UpdateVersion
      BY <1>1, <2>1, <3>4 DEF UpdateVersion, Enter, Phases
    <3>5. CASE Resumed
      BY <1>1, <2>1, <3>5 DEF Resumed, Enter, Phases
    <3> QED BY <1>2, <3>1, <3>2, <3>3, <3>4, <3>5
  <2>5. early = 0 => weights' = weights \/ \A r \in Responses : calls[r].at = "idle"
    BY <1>1, <2>2 DEF Phases
  <2> QED BY <1>1, <2>1, <2>2, <2>3, <2>4, <2>5, NoneMoves
<1>3. ASSUME NEW s \in Servers, CancelServer(s) PROVE Continued'
  <2>1. /\ phase = "cancel" /\ UNCHANGED <<phase, weights, current_param_version>>
        /\ todo' = todo \ {s} /\ paused' = [paused EXCEPT ![s] = TRUE]
        /\ req_output' = [q \in DOMAIN req_output |->
             [req_output[q] EXCEPT !.cancel = req_output[q].cancel \/ req_output[q].server = s]]
    BY <1>3 DEF CancelServer
  <2>2. DOMAIN req_output' = DOMAIN req_output
    BY <2>1
  <2>3. ASSUME NEW q \in DOMAIN req_output
        PROVE  /\ req_output'[q] \in Entry /\ req_output'[q].tokens = req_output[q].tokens
               /\ req_output'[q].ready = req_output[q].ready
    <3> DEFINE entry  == req_output[q]
               cancel == entry.cancel \/ entry.server = s
    <3>1. entry \in Entry
      BY <1>1 DEF PartialTyped
    <3>2. cancel \in BOOLEAN
      OBVIOUS
    <3>3. req_output'[q] = [entry EXCEPT !.cancel = cancel]
      BY <2>1
    <3> HIDE DEF entry, cancel
    <3>4. /\ req_output'[q] \in Entry /\ req_output'[q].tokens = entry.tokens
          /\ req_output'[q].ready = entry.ready
      BY <3>1, <3>2, <3>3 DEF Entry
    <3> QED BY <3>4 DEF entry
  <2>4. PartialTyped'
    BY <1>1, <2>1, <2>2, <2>3 DEF PartialTyped
  <2>5. Phases'
    BY <1>1, <2>1 DEF Phases, PartialTyped
  <2>6. weights <= weights' /\ current_param_version <= current_param_version'
    BY <1>1, <2>1
  <2> QED BY <1>1, <2>1, <2>2, <2>3, <2>4, <2>5, <2>6, NoneMoves
<1>4. ASSUME NEW s \in Servers, ResumeServer(s) PROVE Continued'
  <2>1. /\ phase = "resume" /\ UNCHANGED <<phase, req_output, weights, current_param_version>>
        /\ paused' = [paused EXCEPT ![s] = FALSE]
    BY <1>4 DEF ResumeServer
  <2>2. PartialTyped'
    BY <1>1, <2>1 DEF PartialTyped
  <2>3. Phases'
    BY <1>1, <2>1 DEF Phases
  <2>4. weights <= weights' /\ current_param_version <= current_param_version'
    BY <1>1, <2>1
  <2> QED BY <1>1, <2>1, <2>2, <2>3, <2>4, NoneMoves
<1> QED BY <1>2, <1>3, <1>4 DEF Synchronizer

LEMMA NextContinued == Continued /\ [Next]_vars => Continued'
<1> SUFFICES ASSUME Continued, [Next]_vars PROVE Continued'
  OBVIOUS
<1>1. CASE PartialNext
  <2>1. CASE Pause \/ Synchronizer
    BY <2>1, SynchronizeContinued
  <2>2. CASE Rollout
    <3>1. CASE Submit
      BY <3>1, SubmitContinued
    <3>2. ASSUME NEW r \in Responses, EngineStep(r) PROVE Continued'
      BY <3>2, EngineContinued
    <3>3. ASSUME NEW r \in Responses, Collect(r) PROVE Continued'
      BY <3>3, CollectContinued
    <3>4. ASSUME NEW r \in Responses, NEW s \in Servers, Arrive(r, s) PROVE Continued'
      BY <3>4, ArriveContinued
    <3> QED BY <2>2, <3>1, <3>2, <3>3, <3>4 DEF Rollout
  <2> QED BY <1>1, <2>1, <2>2 DEF PartialNext
<1>2. CASE UNCHANGED NoPartial
  <2>1. /\ UNCHANGED <<paused, req_output, calls, outputs, phase, todo, weights>>
        /\ UNCHANGED <<current_param_version, early>>
    BY <1>2 DEF NoPartial, server_side, sync
  <2>2. PartialTyped' /\ Phases'
    BY <2>1 DEF Continued, PartialTyped, Phases
  <2>3. weights <= weights' /\ current_param_version <= current_param_version'
    BY <2>1 DEF Continued, PartialTyped
  <2> QED BY <2>1, <2>2, <2>3, NoneMoves
<1>3. \/ PartialNext
      \/ UNCHANGED NoPartial
  BY DEF Next, Tools, Partial, Ended, vars, partial, NoPartial
<1> QED BY <1>1, <1>2, <1>3

LEMMA AlwaysContinued == Spec => []Continued
<1>1. Init => Continued
  BY InitContinued
<1>2. Continued /\ [Next]_vars => Continued'
  BY NextContinued
<1> QED BY <1>1, <1>2, PTL DEF Spec

\* However often a response is cut and goes on, at another server, under another
\* request id and with other weights, it is each position once and in order, ends at
\* the token that ends it, and every token stands beside its own log-prob.
THEOREM ContinuationsJoin == Spec => []ContinuationExact
<1>1. Continued => ContinuationExact
  BY DEF Continued, PieceOf, Piece, ContinuationExact
<1> QED BY <1>1, AlwaysContinued, PTL

\* No server generates while weights are copied, and param_version_start and, unless
\* a sample was submitted during a synchronization, param_version_end bracket the
\* weights of every token of a response.
THEOREM VersionsBracketTokens == Spec => []VersionsBracket
<1>1. Continued => VersionsBracket
  BY DEF Continued, Phases, VersionsOf, VersionsBracket
<1> QED BY <1>1, AlwaysContinued, PTL
=============================================================================
