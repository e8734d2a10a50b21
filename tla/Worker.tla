------------------------------- MODULE Worker --------------------------------
(***************************************************************************)
(* ml_worker as the sender of a stream (tcp_sender.c, video_callbacks.c,   *)
(* connection_callbacks.c, run_stream_command of main.c).  Moonlight calls *)
(* worker_setup on the main thread, worker_submit_decode_unit on its video *)
(* thread for every frame, connection_terminated on a detached thread at   *)
(* most once, and worker_cleanup on the main thread when the video thread  *)
(* is joined.  Setup and submit connect to stream_server; a frame is one   *)
(* VIDEO packet, perhaps with a heartbeat before it.  The socket does not  *)
(* block: a packet the server is slow to take, or a broken connection,     *)
(* leaves it torn.                                                         *)
(***************************************************************************)
EXTENDS Integers

CONSTANTS
  MaxConnects,         (* Bound: connections made.                          *)
  MaxFrames,           (* Bound: whole VIDEO packets on one connection.     *)
  MaxTime,             (* Bound: the clock.                                 *)
  ReconnectInterval,   (* RECONNECT_INTERVAL_NS, in ticks of the clock.     *)
  HeartbeatInterval,   (* HEARTBEAT_INTERVAL_NS, in ticks of the clock.     *)
  None                 (* No code, no time.                                 *)

ASSUME WorkerAssumption ==
  /\ MaxConnects \in Nat /\ MaxFrames \in Nat /\ MaxTime \in Nat
  /\ ReconnectInterval \in Nat /\ HeartbeatInterval \in Nat
  /\ None \notin Int \cup {"terminated", "tcpSend", "tcpConnect", "mismatch", "start", "control"}

Conns == 1..MaxConnects

VARIABLES
  main, video, term,   (* Where the three threads are.                      *)
  senderState,         (* sender->state.                                    *)
  sock,                (* sender->sock_fd: the connection, 0 for -1.        *)
  lastHeartbeat,       (* sender->last_heartbeat_ns.                        *)
  lastReconnect,       (* g_last_reconnect_ns.                              *)
  fatalCode,           (* fatal_code of run_stream_command.                 *)
  fatalPtr,            (* connection_callbacks.c: g_fatal_code is not NULL. *)
  exitCode,            (* What the process is going to return.              *)
  now,                 (* The monotonic clock.                              *)
  opened,              (* How many connections were made.                   *)
  open,                (* Those whose descriptor is open.                   *)
  wire,                (* What went over each: whole packets, and whether   *)
                       (* the last one was cut short.                       *)
  refused,             (* History: a frame was refused before it was sent.  *)
  triedAt              (* History: when the video thread last failed to     *)
                       (* connect, None if it connected since.              *)

sender == <<senderState, sock, lastHeartbeat>>
net    == <<opened, open, wire>>
fatal  == <<fatalCode, fatalPtr, exitCode>>
hist   == <<refused, triedAt>>
vars == <<main, video, term, sender, lastReconnect, fatal, now, net, hist>>

Unused == [start |-> 0, video |-> 0, stop |-> 0, torn |-> FALSE]

Init ==
  /\ main = "setup" /\ video = "none" /\ term = "none"
  /\ senderState = "disconnected" /\ sock = 0 /\ lastHeartbeat = 0
  /\ lastReconnect = 0
  /\ fatalCode = None /\ fatalPtr = TRUE /\ exitCode = None
  /\ now = ReconnectInterval     (* Up for longer than the interval. *)
  /\ opened = 0 /\ open = {} /\ wire = [c \in Conns |-> Unused]
  /\ refused = FALSE /\ triedAt = None

Ended == main \in {"exit", "crashed"}

Tick ==
  /\ now < MaxTime /\ now' = now + 1
  /\ UNCHANGED <<main, video, term, sender, lastReconnect, fatal, net, hist>>

-----------------------------------------------------------------------------
(* tcp_sender.c.                                                           *)

(* send_all: the packet is sent whole, or the connection is torn. *)
SentStart == wire' = [wire EXCEPT ![sock].start = wire[sock].start + 1]
SentVideo == wire' = [wire EXCEPT ![sock].video = wire[sock].video + 1]
SentStop  == wire' = [wire EXCEPT ![sock].stop = wire[sock].stop + 1]
Torn == wire' = [wire EXCEPT ![sock].torn = TRUE]

(* Faulty: the descriptor is forgotten when the session broke. *)
CloseConnected ==
  /\ open' = IF senderState = "connected" THEN open \ {sock} ELSE open
  /\ sock' = 0

CloseSock == open' = open \ {sock} /\ sock' = 0

(* tcp_sender_connect up to the STREAM_START. *)
Connected ==
  /\ opened < MaxConnects
  /\ opened' = opened + 1
  /\ open' = (open \ {sock}) \cup {opened + 1} /\ sock' = opened + 1
  /\ senderState' = "connected" /\ lastHeartbeat' = now
  /\ UNCHANGED wire

(* Every way connect can fail. *)
ConnectFailed ==
  /\ CloseSock
  /\ senderState' = "error"
  /\ UNCHANGED <<lastHeartbeat, opened, wire>>

(* tcp_sender_send_stream_start; tcp_sender_connect ignores its result. *)
StreamStart ==
  /\ \/ SentStart /\ UNCHANGED senderState
     \/ Torn /\ senderState' = "error"
  /\ UNCHANGED <<sock, lastHeartbeat, opened, open>>

-----------------------------------------------------------------------------
(* The main thread up to its loop: worker_setup and LiStartConnection.     *)

Quiet == UNCHANGED <<now, hist>>

(* worker_setup finds a format it asked for, or another one, or has no     *)
(* memory for the sender; or LiStartConnection fails before it is called.  *)
Negotiated ==
  /\ main = "setup"
  /\ main' \in {"connect", "mismatch", "noSender", "judge"}
  /\ UNCHANGED <<video, term, sender, lastReconnect, fatal, net>> /\ Quiet

(* set_fatal_once of worker_setup: the test and the assignment. *)
SetupTest ==
  /\ \/ main = "mismatch" /\ main' = IF fatalCode = None THEN "mismatchSet" ELSE "judge"
     \/ main = "noSender" /\ main' = IF fatalCode = None THEN "noSenderSet" ELSE "judge"
  /\ UNCHANGED <<video, term, sender, lastReconnect, fatal, net>> /\ Quiet

SetupSet ==
  /\ \/ main = "mismatchSet" /\ fatalCode' = "mismatch"
     \/ main = "noSenderSet" /\ fatalCode' = "tcpConnect"
  /\ main' = "judge"
  /\ UNCHANGED <<video, term, sender, lastReconnect, fatalPtr, exitCode, net>> /\ Quiet

SetupConnect ==
  /\ main = "connect"
  /\ \/ Connected /\ main' = "start"
     \/ ConnectFailed /\ main' = "started"
  /\ UNCHANGED <<video, term, lastReconnect, fatal>> /\ Quiet

SetupStart ==
  /\ main = "start"
  /\ StreamStart /\ main' = "started"
  /\ UNCHANGED <<video, term, lastReconnect, fatal>> /\ Quiet

(* worker_setup returns and the video thread is created.  Faulty: a        *)
(* failed first connection is reported as fatal.                           *)
StartVideoStrict ==
  /\ main = "started" /\ video = "none"
  /\ fatalCode' = IF senderState = "connected" THEN fatalCode ELSE "tcpSend"
  /\ video' = "idle" /\ lastReconnect' = 0
  /\ UNCHANGED <<main, term, sender, fatalPtr, exitCode, net>> /\ Quiet

StartVideo ==
  /\ main = "started" /\ video = "none"
  /\ video' = "idle" /\ lastReconnect' = 0
  /\ UNCHANGED <<main, term, sender, fatal, net>> /\ Quiet

(* LiStartConnection returns, or fails in a later stage: then it stops the *)
(* stream itself before it returns; or the control socket cannot be        *)
(* opened.                                                                 *)
StartDone ==
  /\ main = "started"
  /\ \/ main' = "run" /\ video = "idle" /\ UNCHANGED exitCode
     \/ main' = "join" /\ exitCode' = "start"
     \/ main' = "clear" /\ video = "idle" /\ exitCode' = "control"
  /\ UNCHANGED <<video, term, sender, lastReconnect, fatalCode, fatalPtr, net>> /\ Quiet

-----------------------------------------------------------------------------
(* The video thread (worker_submit_decode_unit, ensure_connected).         *)

VideoQuiet == UNCHANGED <<main, term, fatal, now>>

(* Until LiStopConnection interrupts the thread; a frame it is past the    *)
(* test of that flag with may as well have been submitted before.          *)
VideoRuns == main \in {"started", "run", "clear"}

(* A connected sender whose last heartbeat is old enough sends one before  *)
(* the frame; a broken one waits for the interval before it disconnects    *)
(* and connects again.                                                     *)
SubmitConnected ==
  /\ video = "idle" /\ VideoRuns
  /\ senderState = "connected"
  /\ video' = IF now - lastHeartbeat >= HeartbeatInterval THEN "heartbeat" ELSE "send"
  /\ VideoQuiet /\ UNCHANGED <<sender, lastReconnect, net, hist>>

SubmitBroken ==
  /\ video = "idle" /\ VideoRuns
  /\ senderState # "connected"
  /\ senderState = "error" => now - lastReconnect >= ReconnectInterval
  /\ CloseSock
  /\ senderState' = "disconnected" /\ video' = "connect"
  /\ VideoQuiet /\ UNCHANGED <<lastHeartbeat, lastReconnect, opened, wire, hist>>

(* Its result is ignored by ensure_connected.  Faulty: a failure does not  *)
(* show in the state either.                                               *)
HeartbeatShrugged ==
  /\ video = "heartbeat" /\ video' = "send"
  /\ \/ lastHeartbeat' = now /\ UNCHANGED <<senderState, wire>>
     \/ Torn /\ UNCHANGED <<senderState, lastHeartbeat>>
  /\ VideoQuiet /\ UNCHANGED <<sock, lastReconnect, opened, open, hist>>

Heartbeat ==
  /\ video = "heartbeat" /\ video' = "send"
  /\ \/ lastHeartbeat' = now /\ UNCHANGED <<senderState, wire>>
     \/ Torn /\ senderState' = "error" /\ UNCHANGED lastHeartbeat
  /\ VideoQuiet /\ UNCHANGED <<sock, lastReconnect, opened, open, hist>>

(* A failure starts the interval.  Faulty: it does not. *)
ReconnectAtOnce ==
  /\ video = "connect"
  /\ \/ Connected /\ video' = "start" /\ triedAt' = None
     \/ ConnectFailed /\ video' = "idle" /\ triedAt' = now
  /\ VideoQuiet /\ UNCHANGED <<lastReconnect, refused>>

Reconnect ==
  /\ video = "connect"
  /\ \/ Connected /\ video' = "start" /\ triedAt' = None /\ UNCHANGED lastReconnect
     \/ ConnectFailed /\ video' = "idle" /\ triedAt' = now /\ lastReconnect' = now
  /\ VideoQuiet /\ UNCHANGED refused

ReconnectStart ==
  /\ video = "start"
  /\ StreamStart /\ video' = "send"
  /\ VideoQuiet /\ UNCHANGED <<lastReconnect, hist>>

(* tcp_sender_send_video: refused without a connection, or for its size,   *)
(* and otherwise sent whole or torn.  An empty unit is not sent at all.    *)
SendVideo ==
  /\ video = "send" /\ senderState = "connected"
  /\ \/ wire[sock].video < MaxFrames /\ SentVideo /\ video' = "idle"
        /\ UNCHANGED <<senderState, refused>>
     \/ Torn /\ video' = "report" /\ senderState' = "error" /\ UNCHANGED refused
     \/ video' = "report" /\ refused' = TRUE /\ UNCHANGED <<senderState, wire>>
     \/ video' = "idle" /\ UNCHANGED <<senderState, wire, refused>>
  /\ VideoQuiet /\ UNCHANGED <<sock, lastHeartbeat, lastReconnect, opened, open, triedAt>>

SendVideoBroken ==
  /\ video = "send" /\ senderState # "connected"
  /\ video' \in {"report", "idle"}
  /\ VideoQuiet /\ UNCHANGED <<sender, lastReconnect, net, hist>>

(* set_fatal_once of video_callbacks.c: the test and the assignment. *)
ReportTest ==
  /\ video = "report"
  /\ video' = IF fatalCode = None THEN "reportSet" ELSE "idle"
  /\ VideoQuiet /\ UNCHANGED <<sender, lastReconnect, net, hist>>

ReportSet ==
  /\ video = "reportSet"
  /\ fatalCode' = "tcpSend" /\ video' = "idle"
  /\ UNCHANGED <<main, term, sender, lastReconnect, fatalPtr, exitCode, now, net, hist>>

-----------------------------------------------------------------------------
(* Moonlight's AsyncTerm thread (connection_terminated).                   *)

TermQuiet == UNCHANGED <<video, sender, lastReconnect, fatalPtr, exitCode, now, hist>>

(* Moonlight starts it once, before LiStopConnection. *)
Terminated ==
  /\ term = "none" /\ main \notin {"join", "stop", "close", "judge"}
  /\ term' = "test"
  /\ UNCHANGED <<main, fatalCode, net>> /\ TermQuiet

TerminatedTest ==
  /\ term = "test"
  /\ term' = IF fatalPtr /\ fatalCode = None THEN "set" ELSE "done"
  /\ UNCHANGED <<main, fatalCode, net>> /\ TermQuiet

(* The pointer, which is not volatile, may be read again: then it may be   *)
(* NULL by now, and the process dies with its descriptors.                 *)
TerminatedSet ==
  /\ term = "set" /\ term' = "done"
  /\ \/ fatalCode' = "terminated" /\ UNCHANGED <<main, open>>
     \/ ~fatalPtr /\ main' = "crashed" /\ open' = {} /\ UNCHANGED fatalCode
  /\ UNCHANGED <<opened, wire>> /\ TermQuiet

-----------------------------------------------------------------------------
(* The main loop and what follows it.                                      *)

(* The loop.  Faulty: only a failed send ends it. *)
SeeSendFailure ==
  /\ main = "run" /\ fatalCode = "tcpSend"
  /\ exitCode' = fatalCode /\ main' = "clear"
  /\ UNCHANGED <<video, term, sender, lastReconnect, fatalCode, fatalPtr, net>> /\ Quiet

SeeFatal ==
  /\ main = "run" /\ fatalCode # None
  /\ exitCode' = fatalCode /\ main' = "clear"
  /\ UNCHANGED <<video, term, sender, lastReconnect, fatalCode, fatalPtr, net>> /\ Quiet

(* SIGINT or SIGTERM clears g_running. *)
Signalled ==
  /\ main = "run" /\ main' = "clear"
  /\ UNCHANGED <<video, term, sender, lastReconnect, fatal, net>> /\ Quiet

ClearPointer ==
  /\ main = "clear" /\ fatalPtr' = FALSE /\ main' = "join"
  /\ UNCHANGED <<video, term, sender, lastReconnect, fatalCode, exitCode, net>> /\ Quiet

(* LiStopConnection joins the video thread, then calls worker_cleanup.     *)
JoinVideo ==
  /\ main = "join" /\ video \in {"none", "idle"}
  /\ video' = "ended" /\ main' = "stop"
  /\ UNCHANGED <<term, sender, lastReconnect, fatal, net>> /\ Quiet

(* tcp_sender_destroy: tcp_sender_disconnect with a STREAM_STOP if the     *)
(* sender is connected, whatever becomes of it.                            *)
StreamStop ==
  /\ main = "stop" /\ main' = "close"
  /\ IF senderState = "connected" THEN SentStop \/ Torn ELSE UNCHANGED wire
  /\ UNCHANGED <<video, term, sender, lastReconnect, fatal, opened, open>> /\ Quiet

Close ==
  /\ main = "close" /\ main' = IF exitCode = "start" THEN "judge" ELSE "exit"
  /\ CloseSock /\ senderState' = "disconnected"
  /\ UNCHANGED <<video, term, lastHeartbeat, lastReconnect, fatal, opened, wire>> /\ Quiet

(* LiStartConnection failed: the fatal code, if there is one, says why.    *)
Judge ==
  /\ main = "judge" /\ main' = "exit"
  /\ fatalPtr' = FALSE
  /\ exitCode' = IF fatalCode # None THEN fatalCode ELSE "start"
  /\ UNCHANGED <<video, term, sender, lastReconnect, fatalCode, net>> /\ Quiet

-----------------------------------------------------------------------------
Setup == Negotiated \/ SetupTest \/ SetupSet \/ SetupConnect \/ SetupStart
         \/ StartVideo \/ StartDone
Stop  == ClearPointer \/ JoinVideo \/ StreamStop \/ Close \/ Judge
Main  == Setup \/ SeeFatal \/ Signalled \/ Stop

Submit == SubmitConnected \/ SubmitBroken
Video  == Heartbeat \/ Reconnect \/ ReconnectStart \/ SendVideo \/ SendVideoBroken
          \/ ReportTest \/ ReportSet

Term == Terminated \/ TerminatedTest \/ TerminatedSet

Next == ~Ended /\ (Tick \/ Main \/ Submit \/ Video \/ Term)

(* The threads run on once they are in a call (a connect ends within       *)
(* CONNECT_TIMEOUT_SEC, a send within its retries); whether a frame or a   *)
(* termination comes is up to the host.                                    *)
Spec ==
  /\ Init /\ [][Next]_vars
  /\ WF_vars(~Ended /\ (Setup \/ SeeFatal \/ Stop))
  /\ WF_vars(~Ended /\ Video)
  /\ WF_vars(~Ended /\ (TerminatedTest \/ TerminatedSet))

-----------------------------------------------------------------------------
(* Properties.                                                             *)

Traffic == [start : Nat, video : Nat, stop : Nat, torn : BOOLEAN]

(* The type invariant. *)
TypeOK ==
  /\ main \in {"setup", "mismatch", "mismatchSet", "noSender", "noSenderSet", "connect",
               "start", "started", "run", "clear", "join", "stop", "close", "judge", "exit",
               "crashed"}
  /\ video \in {"none", "idle", "heartbeat", "connect", "start", "send", "report",
                "reportSet", "ended"}
  /\ term \in {"none", "test", "set", "done"}
  /\ senderState \in {"disconnected", "connected", "error"}
  /\ sock \in 0..opened /\ opened \in 0..MaxConnects /\ open \subseteq 1..opened
  /\ lastHeartbeat \in 0..now /\ lastReconnect \in 0..now /\ now \in Nat
  /\ fatalCode \in {None, "terminated", "tcpSend", "tcpConnect", "mismatch"}
  /\ exitCode \in {None, "terminated", "tcpSend", "tcpConnect", "mismatch", "start", "control"}
  /\ fatalPtr \in BOOLEAN /\ refused \in BOOLEAN /\ triedAt \in Nat \cup {None}
  /\ wire \in [Conns -> Traffic]

(* A connection as its other end sees it. *)
StateOf(c) ==
  LET w == wire[c] IN
  IF c > opened THEN "away"
  ELSE IF c \notin open \/ w.torn THEN "gone"
  ELSE IF w.stop > 0 THEN "stopped"
  ELSE IF w.start = 1 THEN "streaming"
  ELSE IF w.start = 0 THEN "starting" ELSE "confused"

SessionOf == INSTANCE Session WITH
  state <- [c \in Conns |-> StateOf(c)],
  sent  <- [c \in Conns |-> wire[c].start + wire[c].video + wire[c].stop]

(* Every connection is a session: one STREAM_START before any frame, no    *)
(* frame after the STREAM_STOP, and nothing at all, on the same            *)
(* connection, behind a packet that was cut short, of which the server     *)
(* would take the next bytes for the rest (send_all gives up half way).    *)
SessionRefined == SessionOf!Spec

(* The sender has at most the one descriptor it knows of, through every    *)
(* failed connect, broken session and reconnect, and none in the end.      *)
OneDescriptor ==
  /\ ~Ended => open = {sock} \ {0}
  /\ main = "exit" => open = {}

(* A server that is not there, at the start or later, does not end the     *)
(* worker: only a packet torn or refused does (worker_setup, submit).      *)
OutageIsNotFatal ==
  fatalCode = "tcpSend" => refused \/ \E c \in Conns : wire[c].torn

(* Between two attempts of the video thread to connect, of which the first *)
(* failed, lies the interval, whatever else happened in between.           *)
RetriesSpaced ==
  [][ video # "connect" /\ video' = "connect" =>
        triedAt = None \/ now - triedAt >= ReconnectInterval ]_vars

(* A fatal code ends the process, whichever thread set it and whenever.    *)
FatalEndsWorker == (fatalCode # None) ~> Ended
=============================================================================
