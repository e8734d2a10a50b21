---------------------------- MODULE MCZmqBridge -----------------------------
(* ZmqBridge for TLC: a request of each kind that takes a path of its own. *)
EXTENDS ZmqBridge, TLC

Get(sid, timeout, roi) ==
  [cmd |-> "GET_LATEST_BGR", sid |-> sid, timeout |-> timeout, roi |-> roi]

(* 65537 is stream 1 for the program, 65536 none. *)
SomeRequests ==
  {Get(1, "zero", "none"), Get(65537, "positive", "part"), Get(1, "negative", "none"),
   Get(65536, "positive", "none")}
=============================================================================
