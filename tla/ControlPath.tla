----------------------------- MODULE ControlPath -----------------------------
(***************************************************************************)
(* The way of an input command: a controller's TCP connection to the agent *)
(* (main.c, auth.c of strem_agent_server), a datagram to the worker, and   *)
(* the worker's main thread (run_stream_command, control_socket.c), which  *)
(* makes the connection to the host, then reads commands, looks for a      *)
(* fatal code and sleeps in turn.                                          *)
(*                                                                         *)
(* A connection carries lines and frames; the last one may have arrived in *)
(* part: fewer than 4 bytes of it, or more.  Controllers press and release *)
(* a button of their own in turn, so that traffic has no end.              *)
(***************************************************************************)
EXTENDS Integers, Sequences, FiniteSets

CONSTANTS
  Controllers,  (* Connections of controllers.                              *)
  Talkers,      (* Those that do not fall silent behind their AUTH line.    *)
  Token,        (* Whether --token is set.                                  *)
  MaxUnread,    (* Bound: lines and frames under way on a connection.       *)
  QueueLimit,   (* Bound: datagrams the worker's socket holds.              *)
  None

ASSUME ControlAssumption ==
  /\ Talkers \subseteq Controllers /\ None \notin Controllers /\ Token \in BOOLEAN
  /\ MaxUnread \in Nat \ {0} /\ QueueLimit \in Nat \ {0}

VARIABLES
  controller,  (* [said, down, gone]: what it has begun to send, whether it *)
               (* has its button down, whether it has closed.               *)
  conn,        (* The agent's end: [at, in].                                *)
  queue,       (* The datagrams in the worker's control socket.             *)
  main,        (* The worker's main thread: [at, code].                     *)
  running,     (* g_running of the worker.                                  *)
  fatal,       (* fatal_code.                                               *)
  held,        (* The buttons that the host takes for pressed.              *)
  lost,        (* History: whose commands did not all get through.          *)
  waited       (* History: the 60 s before an exit have passed.             *)

agent  == <<controller, conn>>
worker == <<main, running, fatal, waited>>
host   == <<held, lost>>
vars   == <<controller, conn, queue, worker, host>>

Buttons == Controllers \X {"own", "click"}

Init ==
  /\ controller = [c \in Controllers |-> [said |-> "nothing", down |-> FALSE, gone |-> FALSE]]
  /\ conn = [c \in Controllers |-> [at |-> "none", in |-> <<>>]]
  /\ queue = <<>>
  /\ main = [at |-> "ping", code |-> 0] /\ running = TRUE /\ fatal = 0 /\ waited = FALSE
  /\ held = {} /\ lost = {}

-----------------------------------------------------------------------------
(* Controllers.  Behind its AUTH line, one may send SUB and then frames,   *)
(* and leave at any time; one that is no talker falls silent.              *)

Parts == {"few", "most", "whole"}
LastPart(s) == s[Len(s)].part
CanSay(c) ==
  /\ conn[c].at \notin {"none", "closed"} /\ ~controller[c].gone
  /\ Len(conn[c].in) < MaxUnread
  /\ conn[c].in # <<>> => LastPart(conn[c].in) = "whole"

Connect(c) ==
  /\ conn[c].at = "none"
  /\ conn' = [conn EXCEPT ![c].at = "backlog"]
  /\ UNCHANGED <<controller, queue, worker, host>>

Begin(c, kind, said) ==
  /\ CanSay(c)
  /\ \E p \in IF kind = "auth" THEN Parts \ {"few"} ELSE Parts :
       conn' = [conn EXCEPT ![c].in = Append(@, [kind |-> kind, part |-> p])]
  /\ controller' = [controller EXCEPT ![c].said = said,
                      ![c].down = IF kind \in {"down", "up"} THEN kind = "down" ELSE @]
  /\ UNCHANGED <<queue, worker, host>>

SayAuth(c) ==
  /\ Token /\ controller[c].said = "nothing"
  /\ Begin(c, "auth", "auth")
MaySpeak(c) == c \in Talkers /\ (Token => controller[c].said # "nothing")
SaySub(c) == MaySpeak(c) /\ controller[c].said # "frames" /\ Begin(c, "sub", "frames")
SayFrame(c) ==
  /\ MaySpeak(c)
  /\ \E kind \in {IF controller[c].down THEN "up" ELSE "down", "click"} :
       Begin(c, kind, "frames")

More(c) ==
  /\ conn[c].in # <<>> /\ LastPart(conn[c].in) # "whole" /\ ~controller[c].gone
  /\ \E p \in Parts \ {"few", LastPart(conn[c].in)} :
       conn' = [conn EXCEPT ![c].in[Len(conn[c].in)].part = p]
  /\ UNCHANGED <<controller, queue, worker, host>>

Leave(c) ==
  /\ c \in Talkers /\ conn[c].at \notin {"none", "closed"} /\ ~controller[c].gone
  /\ controller' = [controller EXCEPT ![c].gone = TRUE]
  /\ UNCHANGED <<conn, queue, worker, host>>

-----------------------------------------------------------------------------
(* The agent: one thread accepts, and each connection has its own.         *)

Rest(c)      == Tail(conn[c].in)
Goto(c, a)   == conn' = [conn EXCEPT ![c].at = a]
Take(c, a)   == conn' = [conn EXCEPT ![c] = [at |-> a, in |-> Rest(c)]]
(* What has come, or is to come, and was not forwarded is lost. *)
Close(c) ==
  /\ conn' = [conn EXCEPT ![c] = [at |-> "closed", in |-> <<>>]]
  /\ controller' = [controller EXCEPT ![c].gone = TRUE]
  /\ lost' = IF conn[c].in = <<>> THEN lost ELSE lost \cup {c}
Here == UNCHANGED <<controller, lost>>
Has(c, part) == conn[c].in # <<>> /\ Head(conn[c].in).part \in part
Ends(c)      == controller[c].gone /\ conn[c].in = <<>>

(* Faulty: the thread that accepts reads the AUTH line as well. *)
AcceptInTurn(c) ==
  /\ conn[c].at = "backlog"
  /\ \A d \in Controllers : conn[d].at # "auth"
  /\ \/ Goto(c, "auth") /\ Here
     \/ Close(c)
  /\ UNCHANGED <<queue, worker, held>>

(* There may be no memory or no thread for it. *)
Accept(c) ==
  /\ conn[c].at = "backlog"
  /\ \/ Goto(c, "auth") /\ Here
     \/ Close(c)
  /\ UNCHANGED <<queue, worker, held>>

(* agent_auth_read_and_check: looks at the line until it is whole.  While  *)
(* part of it is there, neither the time limit nor the end of the          *)
(* connection are noticed.                                                 *)
Auth(c) ==
  /\ conn[c].at = "auth"
  /\ IF ~Token THEN Goto(c, "sub") /\ Here
     ELSE \/ Has(c, {"whole"}) /\ Take(c, "sub") /\ Here
          \/ (Has(c, {"whole"}) \/ conn[c].in = <<>>)
             /\ Close(c)
  /\ UNCHANGED <<queue, worker, held>>

(* Faulty: the bytes are not only looked at. *)
ReadSubTaking(c) ==
  /\ conn[c].at = "sub"
  /\ \/ conn[c].in = <<>> /\ (Token \/ controller[c].gone) /\ Goto(c, "frames")
     \/ Has(c, {"few"}) /\ Goto(c, "frames")
     \/ Has(c, {"most", "whole"})
        /\ IF Head(conn[c].in).kind = "sub" THEN Goto(c, "line") ELSE Take(c, "frames")
  /\ UNCHANGED <<controller, queue, worker, host>>

(* ctrl_read_optional_sub looks at 4 bytes once; fewer are no SUB line.    *)
(* Only with a token does the look have a time limit.                      *)
ReadSub(c) ==
  /\ conn[c].at = "sub"
  /\ \/ conn[c].in = <<>> /\ (Token \/ controller[c].gone) /\ Goto(c, "frames")
     \/ Has(c, {"few"}) /\ Goto(c, "frames")
     \/ Has(c, {"most", "whole"})
        /\ Goto(c, IF Head(conn[c].in).kind = "sub" THEN "line" ELSE "frames")
  /\ UNCHANGED <<controller, queue, worker, host>>

(* The rest of a line that does not come is left to be read as a frame. *)
ReadLine(c) ==
  /\ conn[c].at = "line"
  /\ \/ Has(c, {"whole"}) /\ Take(c, "frames")
     \/ Has(c, {"most"}) /\ (Token \/ controller[c].gone) /\ Goto(c, "frames")
  /\ UNCHANGED <<controller, queue, worker, host>>

(* udp_send_to: a datagram may be lost on the way, and is when the worker  *)
(* has no socket or no room.                                               *)
Listening == main.at \in {"drain", "look", "loop"}
Arrive(d) ==
  \/ Listening /\ Len(queue) < QueueLimit /\ queue' = Append(queue, d) /\ UNCHANGED lost
  \/ UNCHANGED queue /\ lost' = lost \cup ({d.who} \ {None})

(* The first 4 bytes of a line are a length over 4096. *)
ReadFrame(c) ==
  /\ conn[c].at = "frames"
  /\ \/ /\ Has(c, {"whole"}) /\ Head(conn[c].in).kind # "sub"
        /\ Take(c, "frames") /\ UNCHANGED controller
        /\ Arrive([kind |-> Head(conn[c].in).kind, who |-> c])
     \/ /\ \/ Has(c, {"most", "whole"}) /\ Head(conn[c].in).kind = "sub"
           \/ controller[c].gone /\ ~Has(c, {"whole"})
        /\ Close(c) /\ UNCHANGED queue
  /\ UNCHANGED <<worker, held>>

(* The requests of stream_server and of the agent's tap. *)
RequestIdr ==
  /\ Arrive([kind |-> "idr", who |-> None])
  /\ UNCHANGED <<agent, worker, held>>

-----------------------------------------------------------------------------
(* The worker.                                                             *)

Mismatch   == 8
Terminated == 1   (* And whatever else is fatal. *)

MainAt(a)   == main.at = a
MainTo(a)   == main' = [main EXCEPT !.at = a]
Return(n)   == main' = [at |-> "done", code |-> n]
Alone       == UNCHANGED <<agent, queue, host>>

(* wait_for_host_online: the host does not answer, or it does, or that     *)
(* cannot be found out.  A signal ends the naps.                           *)
Ping ==
  /\ MainAt("ping")
  /\ IF running THEN MainTo("init") \/ UNCHANGED main ELSE Return(0)
  /\ UNCHANGED <<running, fatal, waited>> /\ Alone

(* gs_init: an error that looks like a host that is away is not the end. *)
InitHost ==
  /\ MainAt("init")
  /\ MainTo("start") \/ MainTo("ping") \/ Return(2)
  /\ UNCHANGED <<running, fatal, waited>> /\ Alone

(* Code 3 stands for 3 to 5: not paired, no such application, or it cannot *)
(* be started.                                                             *)
StartApp ==
  /\ MainAt("start")
  /\ IF running THEN MainTo("connect") \/ Return(3) ELSE Return(0)
  /\ UNCHANGED <<running, fatal, waited>> /\ Alone

(* Faulty: the exit is not put off here. *)
StartConnectionAtOnce ==
  /\ MainAt("connect")
  /\ \/ fatal # Mismatch /\ MainTo("open") /\ UNCHANGED fatal
     \/ /\ fatal' \in (IF fatal = 0 THEN {0, Terminated, Mismatch} ELSE {fatal})
        /\ IF fatal' = 0 THEN Return(6) ELSE Return(100 + fatal')
  /\ UNCHANGED <<running, waited>> /\ Alone

(* LiStartConnection; worker_setup may find another format negotiated, or *)
(* no way to stream_server.                                                *)
StartConnection ==
  /\ MainAt("connect")
  /\ \/ MainTo("open") /\ UNCHANGED fatal
     \/ /\ fatal' \in (IF fatal = 0 THEN {0, Terminated, Mismatch} ELSE {fatal})
        /\ CASE fatal' = 0 -> Return(6)
             [] fatal' = Mismatch -> main' = [at |-> "delay", code |-> 100 + fatal']
             [] OTHER -> Return(100 + fatal')
  /\ UNCHANGED <<running, waited>> /\ Alone

(* control_socket_open. *)
OpenSocket ==
  /\ MainAt("open")
  /\ MainTo("loop") \/ Return(7)
  /\ UNCHANGED <<running, fatal, waited>> /\ Alone

(* connection_terminated, while the connection is made or in use. *)
Terminate ==
  /\ main.at \in {"connect", "open", "loop", "drain", "look"}
  /\ fatal = 0 /\ fatal' = Terminated
  /\ UNCHANGED <<main, running, waited>> /\ Alone

(* Faulty: only a fatal code ends the loop. *)
LoopOn ==
  /\ MainAt("loop") /\ MainTo("drain")
  /\ UNCHANGED <<running, fatal, waited, queue, agent, host>>

(* Leaving the loop closes the socket and what is in it. *)
Waiting == {queue[i].who : i \in DOMAIN queue} \ {None}
LeaveLoop(n) == main' = [at |-> "stop", code |-> n] /\ queue' = <<>>
Loop ==
  /\ MainAt("loop")
  /\ IF running THEN MainTo("drain") /\ UNCHANGED queue ELSE LeaveLoop(0)
  /\ lost' = IF running THEN lost ELSE lost \cup Waiting
  /\ UNCHANGED <<running, fatal, waited, agent, held>>

(* control_socket_process_all: until nothing is left.  Moonlight may       *)
(* refuse an event; then a click leaves its button up, or down.            *)
Serve ==
  /\ MainAt("drain") /\ queue # <<>>
  /\ queue' = Tail(queue)
  /\ LET d == Head(queue) IN
     \/ /\ CASE d.kind = "down"  -> held' = held \cup {<<d.who, "own">>}
             [] d.kind = "up"    -> held' = held \ {<<d.who, "own">>}
             [] d.kind = "click" -> held' = held \ {<<d.who, "click">>}
             [] OTHER            -> UNCHANGED held
        /\ UNCHANGED lost
     \/ /\ held' \in {held} \cup (IF d.kind = "click" THEN {held \cup {<<d.who, "click">>}} ELSE {})
        /\ lost' = lost \cup ({d.who} \ {None})
  /\ UNCHANGED <<agent, worker>>

Drained ==
  /\ MainAt("drain") /\ queue = <<>> /\ MainTo("look")
  /\ UNCHANGED <<running, fatal, waited>> /\ Alone

LookFatal ==
  /\ MainAt("look")
  /\ IF fatal # 0 THEN LeaveLoop(100 + fatal) ELSE MainTo("loop") /\ UNCHANGED queue
  /\ lost' = IF fatal = 0 THEN lost ELSE lost \cup Waiting
  /\ UNCHANGED <<running, fatal, waited, agent, held>>

(* LiStopConnection; the wait is for code 108 only. *)
StopConnection ==
  /\ MainAt("stop")
  /\ IF main.code = 100 + Mismatch THEN MainTo("delay") ELSE MainTo("done")
  /\ UNCHANGED <<running, fatal, waited>> /\ Alone

(* delay_before_fatal_exit_if_needed. *)
Delay ==
  /\ MainAt("delay") /\ MainTo("done")
  /\ waited' = running
  /\ UNCHANGED <<running, fatal>> /\ Alone

Signal ==
  /\ running /\ running' = FALSE
  /\ ~MainAt("done")
  /\ UNCHANGED <<main, fatal, waited>> /\ Alone

-----------------------------------------------------------------------------
Say(c)   == Connect(c) \/ SayAuth(c) \/ SaySub(c) \/ SayFrame(c) \/ More(c) \/ Leave(c)
Agent(c) == Accept(c) \/ Auth(c) \/ ReadSub(c) \/ ReadLine(c) \/ ReadFrame(c)
Main ==
  \/ Ping \/ InitHost \/ StartApp \/ StartConnection \/ OpenSocket
  \/ Loop \/ Serve \/ Drained \/ LookFatal \/ StopConnection \/ Delay

Next ==
  \/ \E c \in Controllers : Agent(c)
  \/ main.at # "done" /\ \E c \in Controllers : Say(c)
  \/ RequestIdr \/ Terminate \/ Signal \/ Main

(* The threads of the agent and of the worker get on. *)
Spec == Init /\ [][Next]_vars /\ WF_vars(Main) /\ \A c \in Controllers : WF_vars(Agent(c))

-----------------------------------------------------------------------------
(* Properties.                                                             *)

(* The type invariant. *)
Kinds == {"auth", "sub", "down", "up", "click", "idr"}
TypeOK ==
  /\ controller \in [Controllers -> [said : {"nothing", "auth", "frames"}, down : BOOLEAN,
                                     gone : BOOLEAN]]
  /\ conn \in [Controllers -> [at : {"none", "backlog", "auth", "sub", "line", "frames", "closed"},
                               in : Seq([kind : Kinds, part : Parts])]]
  /\ queue \in Seq([kind : Kinds, who : Controllers \cup {None}])
  /\ main \in [at : {"ping", "init", "start", "connect", "open", "loop", "drain", "look", "stop",
                     "delay", "done"}, code : 0 .. 108]
  /\ running \in BOOLEAN /\ waited \in BOOLEAN /\ fatal \in {0, Terminated, Mismatch}
  /\ held \subseteq Buttons /\ lost \subseteq Controllers

(* When nothing of a controller is under way and nothing was lost, the     *)
(* host has its button down exactly if the controller has, and no button   *)
(* it clicked: pieces of TCP, optional lines, datagrams and other          *)
(* controllers between change nothing (ctrl_client_thread, dispatch_cmd).  *)
UnderWay(c) == conn[c].in # <<>> \/ \E i \in DOMAIN queue : queue[i].who = c
HeldMatches ==
  /\ TypeOK
  /\ \A c \in Controllers \ lost :
       /\ ~UnderWay(c) => (<<c, "own">> \in held <=> controller[c].down)
       /\ <<c, "click">> \notin held

(* The exit code tells why: 0 only after a signal, 100 and more the fatal  *)
(* code, and a mismatch is not reported before 60 s have passed, unless a  *)
(* signal cut them short ("先等待 `60s` 再退出", OPERATIONS_CURRENT.md:322).      *)
ExitTells ==
  MainAt("done") =>
    /\ main.code = 0 => ~running
    /\ main.code >= 100 => fatal = main.code - 100
    /\ fatal = Mismatch => main.code = 100 + Mismatch
    /\ main.code = 100 + Mismatch => waited \/ ~running

(* A controller whose AUTH line has come is let in or refused, however     *)
(* long others take over theirs (ctrl_tcp_thread: a thread for each).      *)
AuthAnswered ==
  \A c \in Controllers :
    (conn[c].at \in {"backlog", "auth"} /\ Has(c, {"whole"}))
      ~> conn[c].at \notin {"backlog", "auth"}

(* A signal or a fatal code ends the worker, from whatever it is waiting   *)
(* for, once no more commands pour in: process_all reads on while there    *)
(* are any.                                                                *)
WorkerEnds ==
  <>[](queue = <<>>) => (~running \/ fatal # 0 ~> MainAt("done"))
=============================================================================
