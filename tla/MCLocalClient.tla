--------------------------- MODULE MCLocalClient ---------------------------
(* Requests of pipe clients for TLC: together every kind; a tick is a run of
   one tick, stop is what disconnected is. *)
EXTENDS LocalClient

SafetyRequests ==
  {[kind |-> "step", n |-> 1], [kind |-> "disconnected"]}

LiveRequests ==
  {[kind |-> "start"], [kind |-> "stop"], [kind |-> "advance", n |-> 2],
   [kind |-> "run", n |-> 2], [kind |-> "rate", n |-> 1]}
=============================================================================
