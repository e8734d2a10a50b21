----------------------------- MODULE MCAgentTap -----------------------------
(* AgentTap for TLC: access units as the worker sends them, an IDR in one  *)
(* packet with its SPS and PPS; viewers that authenticate, that subscribe  *)
(* at once, that stop half way, and that send a line too many.             *)
EXTENDS AgentTap

WorkerKinds == {[first |-> "sps", idr |-> TRUE], [first |-> "slice", idr |-> FALSE]}

Auth == [cmd |-> "AUTH", sid |-> 0]
Sub  == [cmd |-> "SUB", sid |-> 1]
ViewerScripts == {<<Auth>>, <<Sub>>, <<Auth, Sub>>, <<Auth, Sub, Sub>>}
=============================================================================
