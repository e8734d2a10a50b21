------------------------------- MODULE Session -------------------------------
(***************************************************************************)
(* What one connection of a worker carries, seen from the other end: first *)
(* a STREAM_START, then VIDEO packets, at most one STREAM_STOP and nothing *)
(* behind it; and at any moment the connection may break off, with a       *)
(* packet cut short, after which nothing more is read from it.  Heartbeats *)
(* change nothing at either end and do not count.                          *)
(*                                                                         *)
(* Worker is shown to send no more than this; the workers of StreamServer  *)
(* are these sessions, with the bound MaxSent on their length.             *)
(***************************************************************************)
EXTENDS Naturals

CONSTANT Conns        (* Connections.                                      *)

VARIABLES state,      (* How far each connection is.                       *)
          sent        (* How many whole packets it carried.                *)

Init ==
  /\ state = [c \in Conns |-> "away"]
  /\ sent = [c \in Conns |-> 0]

Connect(c) ==
  /\ state[c] = "away"
  /\ state' = [state EXCEPT ![c] = "starting"]
  /\ UNCHANGED sent

Send(c, from, to) ==
  /\ state[c] = from
  /\ state' = [state EXCEPT ![c] = to]
  /\ sent' = [sent EXCEPT ![c] = sent[c] + 1]

SendStart(c) == Send(c, "starting", "streaming")
SendVideo(c) == Send(c, "streaming", "streaming")
SendStop(c)  == Send(c, "streaming", "stopped")

Hangup(c) ==
  /\ state[c] \in {"starting", "streaming", "stopped"}
  /\ state' = [state EXCEPT ![c] = "gone"]
  /\ UNCHANGED sent

Next ==
  \E c \in Conns : Connect(c) \/ SendStart(c) \/ SendVideo(c) \/ SendStop(c) \/ Hangup(c)

Spec == Init /\ [][Next]_<<state, sent>>
=============================================================================
