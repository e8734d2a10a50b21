---------------------------- MODULE MCIdrWatchdog ---------------------------
(* IdrWatchdog for TLC: the longer the stall, the longer the backoff.      *)
EXTENDS IdrWatchdog

MCBackoff == <<2, 3, 4>>
MCItems == <<[sid |-> 1, port |-> 30001], [sid |-> 2, port |-> 30002]>>
MCLines == <<[sid |-> 1, port |-> 30011], [sid |-> 1, port |-> 0]>>
=============================================================================
