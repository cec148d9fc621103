---------------------------- MODULE MCFullyAsync ----------------------------
(* Configurations of FullyAsync for TLC. *)
EXTENDS FullyAsync

\* Nine samples in batches of two, two batches per synchronization, on policy.
OnPolicyConfig == [total |-> 9, pending |-> 4, required |-> 2, trigger |-> 2,
                   stale |-> 0, slots |-> 3, partial |-> FALSE, testFreq |-> 2, faulty |-> {}]

\* One slot and a limit of one and a half batches: the pipeline fills and overflows.
StaleConfig == [total |-> 7, pending |-> 2, required |-> 2, trigger |-> 1,
                stale |-> 50, slots |-> 1, partial |-> FALSE, testFreq |-> 2, faulty |-> {}]

\* Interrupted generation that always finds its way back.
PartialConfig == [total |-> 4, pending |-> 4, required |-> 2, trigger |-> 1,
                  stale |-> 50, slots |-> 2, partial |-> TRUE, testFreq |-> 2, faulty |-> {}]

\* As many slots as samples may be in flight.
ManySlotsConfig == [total |-> 4, pending |-> 9, required |-> 1, trigger |-> 1,
                    stale |-> 100, slots |-> 16, partial |-> TRUE, testFreq |-> 2, faulty |-> {}]

\* A generation or a merge that raises, when the feeder is done and when it is not.
FaultyConfig == [total |-> 3, pending |-> 9, required |-> 1, trigger |-> 1,
                 stale |-> 100, slots |-> 2, partial |-> FALSE, testFreq |-> 0,
                 faulty |-> {2}]
BlockedConfig == [FaultyConfig EXCEPT !.pending = 2, !.slots = 1, !.stale = 0, !.faulty = {1}]

AllConfigs   == {OnPolicyConfig, StaleConfig, PartialConfig, FaultyConfig, BlockedConfig}
StuckConfigs == {ManySlotsConfig}
=============================================================================
