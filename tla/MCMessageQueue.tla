--------------------------- MODULE MCMessageQueue ---------------------------
(* Instances of MessageQueue for TLC: getters and sentinels are model values. *)
EXTENDS MessageQueue
=============================================================================
