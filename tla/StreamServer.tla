---------------------------- MODULE StreamServer ----------------------------
(***************************************************************************)
(* The TCP side of stream_server (server.c, stream.c, main.c).  An accept  *)
(* thread admits connections up to a limit, links each into the list of    *)
(* clients and starts a detached handler thread for it; a handler reads    *)
(* packets and works on the stream they name, one lock section at a time;  *)
(* the main thread stops the server: it joins the accept thread, closes    *)
(* the descriptors of the linked clients, polls the list until it is empty *)
(* or its patience ends, and destroys what the handlers work on.           *)
(*                                                                         *)
(* A connection is one session of a worker: STREAM_START, packets and      *)
(* perhaps STREAM_STOP.  It may break off at any moment, and nothing keeps *)
(* two sessions of one stream from overlapping.                            *)
(***************************************************************************)
EXTENDS Integers, Sequences, FiniteSets

CONSTANTS
  Conns,           (* Connections.                                           *)
  Sids,            (* Stream ids the manager holds (1..max_streams).         *)
  WorkerSids,      (* Stream ids the workers use, some unknown perhaps.      *)
  Codecs,          (* What a STREAM_START may announce.                      *)
  None,            (* No codec, no connection, no message.                   *)
  MaxConnections,  (* config.max_connections.                                *)
  MaxSent,         (* Bound: packets a worker sends in one session.          *)
  MaxFaults        (* Bound: failed threads, decoders, accepts and headers.  *)

(* STREAM_START, VIDEO_DATA and STREAM_STOP.                               *)
Messages == [type : {"start", "video", "stop"}, sid : WorkerSids, codec : Codecs]

ASSUME ServerAssumption ==
  /\ Sids \subseteq WorkerSids
  /\ None \notin Conns \cup Codecs /\ None \notin Messages
  /\ MaxConnections \in Nat /\ MaxSent \in Nat /\ MaxFaults \in Nat
  /\ IsFiniteSet(Conns)

VARIABLES
  running,      (* server->running.                                          *)
  acceptor,     (* Accept thread: where it is and the connection in hand.    *)
  clients,      (* server->clients: the linked connections.                  *)
  clientCount,  (* server->client_count.                                     *)
  fd,           (* client->fd: "none" before accept, "open", "closed" (-1).  *)
  closes,       (* History: how often close() was called on the descriptor.  *)
  handler,      (* Handler threads: where each is.                           *)
  msg,          (* The packet each handler works on.                         *)
  stream,       (* StreamContexts: state, info (its codec) and decoder.      *)
  recorded,     (* The connection whose STREAM_START the recorder saw last   *)
                (* on a stream, None after a STREAM_STOP.                    *)
  main,         (* Main thread: how far the shutdown is.                     *)
  peer, inbox,  (* The workers' ends and the packets under way.              *)
  sent,         (* How many packets each worker sent.                        *)
  apart,        (* History: the sessions of a stream came one after another. *)
  faults        (* Counter for the bound MaxFaults.                          *)

serverVars == <<running, acceptor, clients, clientCount, fd, closes, main>>
streamVars == <<stream, recorded, apart>>
workerVars == <<peer, sent>>
vars == <<serverVars, handler, msg, streamVars, workerVars, inbox, faults>>

Fault == faults < MaxFaults /\ faults' = faults + 1

IdleStream == [state |-> "idle", info |-> None, decoder |-> None]
NoWorker   == [state |-> "away", sid |-> None, codec |-> None]

Init ==
  /\ running = TRUE
  /\ acceptor = [at |-> "loop", conn |-> None]
  /\ clients = {} /\ clientCount = 0
  /\ fd = [c \in Conns |-> "none"]
  /\ closes = [c \in Conns |-> 0]
  /\ handler = [c \in Conns |-> "none"]
  /\ msg = [c \in Conns |-> None]
  /\ stream = [s \in Sids |-> IdleStream]
  /\ recorded = [s \in Sids |-> None]
  /\ main = "run"
  /\ peer = [c \in Conns |-> NoWorker]
  /\ inbox = [c \in Conns |-> <<>>]
  /\ sent = [c \in Conns |-> 0]
  /\ apart = [s \in Sids |-> TRUE]
  /\ faults = 0

-----------------------------------------------------------------------------
(* Workers (tcp_sender.c): connect, STREAM_START, then VIDEO, and either    *)
(* STREAM_STOP and close, or just silence or a close.                      *)

Connect(c) ==
  /\ peer[c].state = "away" /\ main = "run"
  /\ \E sid \in WorkerSids, codec \in Codecs :
       peer' = [peer EXCEPT ![c] = [state |-> "starting", sid |-> sid, codec |-> codec]]
  /\ UNCHANGED <<serverVars, handler, msg, streamVars, sent, inbox, faults>>

Send(c, from, type, to) ==
  /\ peer[c].state = from /\ sent[c] < MaxSent
  /\ peer' = [peer EXCEPT ![c].state = to]
  /\ inbox' = [inbox EXCEPT ![c] = Append(@, [type |-> type, sid |-> peer[c].sid,
                                              codec |-> peer[c].codec])]
  /\ sent' = [sent EXCEPT ![c] = @ + 1]
  /\ UNCHANGED <<serverVars, handler, msg, streamVars, faults>>

SendStart(c) == Send(c, "starting", "start", "streaming")
SendVideo(c) == Send(c, "streaming", "video", "streaming")
SendStop(c)  == Send(c, "streaming", "stop", "stopped")

(* The worker closes its end, crashes or is cut off. *)
Hangup(c) ==
  /\ peer[c].state \in {"starting", "streaming", "stopped"}
  /\ peer' = [peer EXCEPT ![c].state = "gone"]
  /\ UNCHANGED <<serverVars, handler, msg, streamVars, inbox, sent, faults>>

-----------------------------------------------------------------------------
(* The accept thread.                                                      *)

AcceptorQuiet == UNCHANGED <<running, main, msg, streamVars, workerVars, inbox>>

CloseFd(c) ==
  /\ fd' = [fd EXCEPT ![c] = "closed"]
  /\ closes' = [closes EXCEPT ![c] = @ + 1]

(* accept and the test of the limit. *)
Accept ==
  /\ acceptor.at = "loop" /\ running
  /\ \E c \in Conns :
       /\ peer[c].state # "away" /\ fd[c] = "none"
       /\ \/ /\ clientCount >= MaxConnections
             /\ CloseFd(c) /\ UNCHANGED acceptor
          \/ /\ clientCount < MaxConnections
             /\ fd' = [fd EXCEPT ![c] = "open"]
             /\ acceptor' = [at |-> "admitted", conn |-> c]
             /\ UNCHANGED closes
  /\ AcceptorQuiet /\ UNCHANGED <<clients, clientCount, handler, faults>>

Link ==
  /\ acceptor.at = "admitted"
  /\ clients' = clients \cup {acceptor.conn}
  /\ clientCount' = clientCount + 1
  /\ acceptor' = [acceptor EXCEPT !.at = "linked"]
  /\ AcceptorQuiet /\ UNCHANGED <<fd, closes, handler, faults>>

StartHandler ==
  /\ acceptor.at = "linked"
  /\ handler' = [handler EXCEPT ![acceptor.conn] = "begin"]
  /\ acceptor' = [at |-> "loop", conn |-> None]
  /\ AcceptorQuiet /\ UNCHANGED <<clients, clientCount, fd, closes, faults>>

(* pthread_create fails: the client is unlinked and destroyed.  Faulty:    *)
(* it stays counted.                                                       *)
StartFailsCounted ==
  /\ acceptor.at = "linked" /\ Fault
  /\ clients' = clients \ {acceptor.conn}
  /\ CloseFd(acceptor.conn)
  /\ acceptor' = [at |-> "loop", conn |-> None]
  /\ AcceptorQuiet /\ UNCHANGED <<clientCount, handler>>

StartFails ==
  /\ acceptor.at = "linked" /\ Fault
  /\ clients' = clients \ {acceptor.conn}
  /\ clientCount' = clientCount - 1
  /\ CloseFd(acceptor.conn)
  /\ acceptor' = [at |-> "loop", conn |-> None]
  /\ AcceptorQuiet /\ UNCHANGED handler

(* The loop ends: running was cleared, or accept fails on the closed       *)
(* listening socket.                                                       *)
AcceptorDone ==
  /\ acceptor' = [acceptor EXCEPT !.at = "done"]
  /\ AcceptorQuiet /\ UNCHANGED <<clients, clientCount, fd, closes, handler>>

AcceptorEnds == acceptor.at = "loop" /\ ~running /\ AcceptorDone /\ UNCHANGED faults

(* Any error of accept but EAGAIN ends the loop for good, while the server *)
(* runs on for the connections it has.                                     *)
AcceptFails == acceptor.at = "loop" /\ running /\ AcceptorDone /\ Fault

-----------------------------------------------------------------------------
(* A handler thread (client_handler).                                      *)

Goto(c, to) == handler' = [handler EXCEPT ![c] = to]
HandlerQuiet == UNCHANGED <<running, acceptor, main, workerVars>>
ListQuiet    == UNCHANGED <<clients, clientCount, fd, closes>>

(* A thread that finds its descriptor closed already returns at once.      *)
HandlerBegins(c) ==
  /\ handler[c] = "begin"
  /\ Goto(c, IF fd[c] = "closed" THEN "ended" ELSE "loop")
  /\ HandlerQuiet /\ ListQuiet /\ UNCHANGED <<msg, streamVars, inbox, faults>>

LoopTest(c) ==
  /\ handler[c] = "loop"
  /\ Goto(c, IF running /\ fd[c] = "open" THEN "recv" ELSE "leave")
  /\ HandlerQuiet /\ ListQuiet /\ UNCHANGED <<msg, streamVars, inbox, faults>>

FirstStep == [start |-> "setInfo", video |-> "record", stop |-> "recordStop"]

(* The packet continues a session that no other one has cut into.          *)
InOrder(c, m) ==
  /\ m.type = "start" \/ recorded[m.sid] = c
  /\ \A d \in Conns \ {c} : msg[d] # None => msg[d].sid # m.sid

(* recv_exact and handle_packet's look at the stream id.  A recv that      *)
(* began before server_stop closed the descriptor may still deliver.       *)
Receive(c) ==
  /\ handler[c] = "recv" /\ inbox[c] # <<>>
  /\ LET m == Head(inbox[c]) IN
     /\ inbox' = [inbox EXCEPT ![c] = Tail(@)]
     /\ IF m.sid \in Sids
        THEN /\ msg' = [msg EXCEPT ![c] = m]
             /\ Goto(c, FirstStep[m.type])
             /\ apart' = [apart EXCEPT ![m.sid] = @ /\ InOrder(c, m)]
        ELSE Goto(c, "loop") /\ UNCHANGED <<msg, apart>>
  /\ HandlerQuiet /\ ListQuiet /\ UNCHANGED <<stream, recorded, faults>>

(* The peer is gone, silent for RECV_TIMEOUT_SEC, or the descriptor is     *)
(* closed.  Faulty: the handler tries again.                               *)
ReceiveAgain(c) ==
  /\ handler[c] = "recv"
  /\ inbox[c] = <<>> \/ fd[c] = "closed"
  /\ Goto(c, "loop")
  /\ HandlerQuiet /\ ListQuiet /\ UNCHANGED <<msg, streamVars, inbox, faults>>

ReceiveFails(c) ==
  /\ handler[c] = "recv"
  /\ inbox[c] = <<>> \/ fd[c] = "closed"
  /\ Goto(c, "leave")
  /\ HandlerQuiet /\ ListQuiet /\ UNCHANGED <<msg, streamVars, inbox, faults>>

(* An invalid header, a packet that is too large or has no memory: the     *)
(* handler leaves what is still to be read.                                *)
HeaderRefused(c) ==
  /\ handler[c] = "recv" /\ inbox[c] # <<>> /\ Fault
  /\ Goto(c, "leave")
  /\ HandlerQuiet /\ ListQuiet /\ UNCHANGED <<msg, streamVars, inbox>>

(* The way out: unlink under clients_lock, then client_destroy.            *)
Unlink(c) ==
  /\ handler[c] = "leave"
  /\ clients' = clients \ {c}
  /\ clientCount' = clientCount - 1
  /\ Goto(c, "destroy")
  /\ HandlerQuiet /\ UNCHANGED <<fd, closes, msg, streamVars, inbox, faults>>

(* Faulty: the descriptor is closed whoever closed it before.              *)
DestroyAlways(c) ==
  /\ handler[c] = "destroy"
  /\ CloseFd(c)
  /\ Goto(c, "ended")
  /\ HandlerQuiet /\ UNCHANGED <<clients, clientCount, msg, streamVars, inbox, faults>>

Destroy(c) ==
  /\ handler[c] = "destroy"
  /\ IF fd[c] = "open" THEN CloseFd(c) ELSE UNCHANGED <<fd, closes>>
  /\ Goto(c, "ended")
  /\ HandlerQuiet /\ UNCHANGED <<clients, clientCount, msg, streamVars, inbox, faults>>

-----------------------------------------------------------------------------
(* handle_packet, one lock section of the stream at a time.                *)

Sid(c) == msg[c].sid

(* The packet is done with.  Faulty: it is kept. *)
PacketKept(c) == Goto(c, "loop") /\ UNCHANGED msg
PacketDone(c) == msg' = [msg EXCEPT ![c] = None] /\ Goto(c, "loop")
Section(c, at, s) ==
  /\ handler[c] = at
  /\ stream' = [stream EXCEPT ![Sid(c)] = s]
  /\ HandlerQuiet /\ ListQuiet /\ UNCHANGED <<apart, inbox>>

(* STREAM_START: stream_set_info, stream_set_state and the reset of the    *)
(* watchdog fields, stream_init_decoder, the recorder.                     *)
SetInfo(c) ==
  /\ Section(c, "setInfo", [stream[Sid(c)] EXCEPT !.info = msg[c].codec])
  /\ Goto(c, "activate") /\ UNCHANGED <<msg, recorded, faults>>

Activate(c) ==
  /\ Section(c, "activate", [stream[Sid(c)] EXCEPT !.state = "active"])
  /\ Goto(c, "initDecoder") /\ UNCHANGED <<msg, recorded, faults>>

(* A decoder that is there already stays, whatever the new info says. *)
InitDecoder(c) ==
  /\ Section(c, "initDecoder",
       [stream[Sid(c)] EXCEPT !.decoder = IF @ = None THEN stream[Sid(c)].info ELSE @])
  /\ Goto(c, "recordStart") /\ UNCHANGED <<msg, recorded, faults>>

InitDecoderFails(c) ==
  /\ handler[c] = "initDecoder" /\ stream[Sid(c)].decoder = None /\ Fault
  /\ Section(c, "initDecoder", stream[Sid(c)])
  /\ Goto(c, "recordStart") /\ UNCHANGED <<msg, recorded>>

Tell(c, at, what) ==
  /\ handler[c] = at
  /\ recorded' = [recorded EXCEPT ![Sid(c)] = what]
  /\ HandlerQuiet /\ ListQuiet /\ UNCHANGED <<stream, apart, inbox, faults>>

RecordStart(c) == Tell(c, "recordStart", c) /\ PacketDone(c)

(* VIDEO_DATA: the recorder, an unlocked look at decoder_initialized, and  *)
(* the decoding under the lock.                                            *)
RecordVideo(c) ==
  /\ handler[c] = "record"
  /\ Goto(c, "look")
  /\ HandlerQuiet /\ ListQuiet /\ UNCHANGED <<msg, streamVars, inbox, faults>>

LookForDecoder(c) ==
  /\ handler[c] = "look"
  /\ \/ stream[Sid(c)].decoder = None /\ PacketDone(c)
     \/ stream[Sid(c)].decoder # None /\ Goto(c, "decode") /\ UNCHANGED msg
  /\ HandlerQuiet /\ ListQuiet /\ UNCHANGED <<streamVars, inbox, faults>>

Decode(c) == Section(c, "decode", stream[Sid(c)]) /\ PacketDone(c) /\ UNCHANGED <<recorded, faults>>

(* STREAM_STOP.  Faulty: the recorder is not told. *)
ForgetStop(c) ==
  Tell(c, "recordStop", recorded[Sid(c)]) /\ Goto(c, "closeDecoder") /\ UNCHANGED msg

RecordStop(c) == Tell(c, "recordStop", None) /\ Goto(c, "closeDecoder") /\ UNCHANGED msg

CloseDecoder(c) ==
  /\ Section(c, "closeDecoder", [stream[Sid(c)] EXCEPT !.decoder = None])
  /\ Goto(c, "deactivate") /\ UNCHANGED <<msg, recorded, faults>>

Deactivate(c) ==
  /\ Section(c, "deactivate", [stream[Sid(c)] EXCEPT !.state = "idle"])
  /\ PacketDone(c) /\ UNCHANGED <<recorded, faults>>

-----------------------------------------------------------------------------
(* The main thread: server_stop, compressed_recorder_stop,                 *)
(* stream_manager_destroy.                                                 *)

MainQuiet == UNCHANGED <<acceptor, clients, clientCount, handler, msg, streamVars, workerVars,
                         inbox, faults>>

RequestStop ==
  /\ main = "run"
  /\ running' = FALSE /\ main' = "join"
  /\ MainQuiet /\ UNCHANGED <<fd, closes>>

JoinAcceptor ==
  /\ main = "join" /\ acceptor.at = "done"
  /\ main' = "close"
  /\ MainQuiet /\ UNCHANGED <<running, fd, closes>>

CloseClients ==
  /\ main = "close"
  /\ LET open == {c \in clients : fd[c] = "open"} IN
     /\ fd' = [c \in Conns |-> IF c \in open THEN "closed" ELSE fd[c]]
     /\ closes' = [c \in Conns |-> IF c \in open THEN closes[c] + 1 ELSE closes[c]]
  /\ main' = "wait"
  /\ MainQuiet /\ UNCHANGED running

(* The poll.  Faulty: one look. *)
WaitOnce ==
  /\ main = "wait" /\ main' = "stopped"
  /\ MainQuiet /\ UNCHANGED <<running, fd, closes>>

WaitForClients ==
  /\ main = "wait" /\ clients = {}
  /\ main' = "stopped"
  /\ MainQuiet /\ UNCHANGED <<running, fd, closes>>

(* After max_wait_ms the main thread goes on regardless.                   *)
GiveUp ==
  /\ main = "wait" /\ clients # {}
  /\ main' = "impatient"
  /\ MainQuiet /\ UNCHANGED <<running, fd, closes>>

(* The stream manager and its locks are destroyed and main returns. *)
DestroyStreams ==
  /\ main \in {"stopped", "impatient"}
  /\ main' = IF main = "stopped" THEN "exit" ELSE "rash exit"
  /\ stream' = [s \in Sids |-> [stream[s] EXCEPT !.decoder = None]]
  /\ UNCHANGED <<running, acceptor, clients, clientCount, fd, closes, handler, msg, recorded,
                 apart, workerVars, inbox, faults>>

-----------------------------------------------------------------------------
Exited == main \in {"exit", "rash exit"}

AcceptThread ==
  Accept \/ Link \/ StartHandler \/ StartFails \/ AcceptorEnds \/ AcceptFails

HandlePacket(c) ==
  \/ SetInfo(c) \/ Activate(c) \/ InitDecoder(c) \/ InitDecoderFails(c) \/ RecordStart(c)
  \/ RecordVideo(c) \/ LookForDecoder(c) \/ Decode(c)
  \/ RecordStop(c) \/ CloseDecoder(c) \/ Deactivate(c)

Handler(c) ==
  \/ HandlerBegins(c) \/ LoopTest(c) \/ Receive(c) \/ ReceiveFails(c) \/ HeaderRefused(c)
  \/ HandlePacket(c) \/ Unlink(c) \/ Destroy(c)

MainThread ==
  RequestStop \/ JoinAcceptor \/ CloseClients \/ WaitForClients \/ GiveUp \/ DestroyStreams

Worker(c) == Connect(c) \/ SendStart(c) \/ SendVideo(c) \/ SendStop(c) \/ Hangup(c)

Next ==
  \/ ~Exited /\ (AcceptThread \/ MainThread)
  \/ \E c \in Conns : ~Exited /\ (Handler(c) \/ Worker(c))

(* Threads run; a handler in recv returns, by a packet or by the timeout.  *)
Spec ==
  /\ Init /\ [][Next]_vars
  /\ WF_vars(~Exited /\ (Link \/ StartHandler \/ AcceptorEnds))
  /\ \A c \in Conns : WF_vars(~Exited /\ Handler(c))

-----------------------------------------------------------------------------
(* Properties.                                                             *)

HandlerSteps ==
  {"none", "begin", "loop", "recv", "setInfo", "activate", "initDecoder", "recordStart",
   "record", "look", "decode", "recordStop", "closeDecoder", "deactivate",
   "leave", "destroy", "ended"}
PacketSteps == HandlerSteps \ {"none", "begin", "loop", "recv", "leave", "destroy", "ended"}

ListTypes ==
  /\ running \in BOOLEAN
  /\ \/ acceptor \in [at : {"loop", "done"}, conn : {None}]
     \/ acceptor \in [at : {"admitted", "linked"}, conn : Conns]
  /\ clients \subseteq Conns /\ clientCount \in Int
  /\ main \in {"run", "join", "close", "wait", "stopped", "impatient", "exit", "rash exit"}

DescriptorTypes ==
  fd \in [Conns -> {"none", "open", "closed"}] /\ closes \in [Conns -> Nat]

HandlerTypes ==
  /\ handler \in [Conns -> HandlerSteps] /\ msg \in [Conns -> Messages \cup {None}]
  /\ \A c \in Conns : IF handler[c] \in PacketSteps
                       THEN msg[c] \in Messages /\ msg[c].sid \in Sids
                       ELSE msg[c] = None

StreamContexts == [state : {"idle", "active"}, info : Codecs \cup {None},
                   decoder : Codecs \cup {None}]

StreamTypes ==
  /\ stream \in [Sids -> StreamContexts]
  /\ recorded \in [Sids -> Conns \cup {None}] /\ apart \in [Sids -> BOOLEAN]

(* The type invariant: in particular a handler holds a packet, of a known  *)
(* stream, exactly while handle_packet works on it.                        *)
TypeOK ==
  /\ ListTypes /\ DescriptorTypes /\ HandlerTypes /\ StreamTypes
  /\ inbox \in [Conns -> Seq(Messages)]
  /\ faults \in Nat

(* client_count, which the accept thread and every handler adjust, is the  *)
(* length of the client list and never exceeds the limit it is tested      *)
(* against outside the section that raises it (accept_loop).               *)
ClientsAccounted ==
  clientCount = Cardinality(clients) /\ clientCount <= MaxConnections

(* Nobody closes a descriptor twice - the number may be someone else's by  *)
(* then - although the accept thread, the handler and server_stop all      *)
(* close descriptors; and after an orderly stop none is left open.         *)
DescriptorsClosedOnce ==
  /\ \A c \in Conns : closes[c] <= 1
  /\ main = "exit" => \A c \in Conns : fd[c] = "open" => handler[c] = "destroy"

(* When server_stop has seen the client list empty, no handler works on    *)
(* the streams any more: they may be destroyed (main, server_stop).        *)
StreamsOutliveHandlers ==
  main = "exit" => \A c \in Conns : handler[c] \in {"none", "destroy", "ended"}

(* As long as the sessions of a stream follow one another, then between    *)
(* two packets the stream is active exactly while the recorder has a       *)
(* session, an idle stream has no decoder, and an active one has a decoder *)
(* unless one could not be made (STREAM_START and STREAM_STOP update them  *)
(* in separate lock sections).                                             *)
SessionState ==
  \A s \in Sids :
    apart[s] /\ ~Exited /\ (\A c \in Conns : msg[c] # None => msg[c].sid # s) =>
      /\ stream[s].state = "active" <=> recorded[s] # None
      /\ stream[s].state = "idle" => stream[s].decoder = None
      /\ stream[s].state = "active" => stream[s].decoder # None \/ faults > 0

(* A worker that ended its session, went away or fell silent does not keep *)
(* its place in the client list: the handler ends by itself (recv_exact,   *)
(* SO_RCVTIMEO).                                                           *)
ClientsReaped ==
  \A c \in Conns :
    peer[c].state \in {"stopped", "gone"} ~> (c \notin clients \/ main # "run")
=============================================================================
