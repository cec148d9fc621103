---------------------------- MODULE ServerChoice ----------------------------
(* AsyncLLMServerManager: which generation server a request goes to.  The first
   call of a request id takes the server with the fewest requests so far, later
   calls the server remembered for the id, as long as the LRU cache does. *)
EXTENDS Integers, Sequences, FiniteSets

CONSTANTS
    Servers,    \* numbered in the order of their hashes
    CacheSize   \* max_cache_size

ASSUME ServerAssumption == /\ Servers \subseteq Nat /\ Servers # {}
                           /\ CacheSize \in Nat \ {0}

VARIABLES
    weighted_serveres,     \* requests each server has been chosen for, never less
    request_id_to_server   \* the LRU cache: <<id, server>>, least recent first

choice == <<weighted_serveres, request_id_to_server>>

ChoiceInit ==
    /\ weighted_serveres = [s \in Servers |-> 0]
    /\ request_id_to_server = <<>>

Cached(id) == {i \in 1 .. Len(request_id_to_server) : request_id_to_server[i][1] = id}

\* The root of the heap: fewest requests, then the smallest hash.
IsRoot(s) ==
    \A t \in Servers : \/ weighted_serveres[s] < weighted_serveres[t]
                       \/ weighted_serveres[s] = weighted_serveres[t] /\ s <= t

\* The entry at place i becomes the most recent one.
Touched(i) ==
    SubSeq(request_id_to_server, 1, i - 1)
      \o SubSeq(request_id_to_server, i + 1, Len(request_id_to_server))
      \o <<request_id_to_server[i]>>

\* Mutant: a full cache evicts its most recent entry.
WithoutNewest ==
    IF Len(request_id_to_server) < CacheSize THEN request_id_to_server
    ELSE SubSeq(request_id_to_server, 1, Len(request_id_to_server) - 1)

\* A full cache evicts its least recent entry.
WithRoom ==
    IF Len(request_id_to_server) < CacheSize THEN request_id_to_server
    ELSE Tail(request_id_to_server)

\* _choose_server(id) returns s.
ChooseServer(id, s) ==
    \/ /\ Cached(id) # {}
       /\ \E i \in Cached(id) : /\ s = request_id_to_server[i][2]
                                /\ request_id_to_server' = Touched(i)
       /\ UNCHANGED weighted_serveres
    \/ /\ Cached(id) = {}
       /\ IsRoot(s)
       /\ weighted_serveres' = [weighted_serveres EXCEPT ![s] = @ + 1]
       /\ request_id_to_server' = Append(WithRoom, <<id, s>>)
=============================================================================
