----------------------------- MODULE ZmqBridge ------------------------------
(***************************************************************************)
(* The ZMQ bridge of stream_server (zmq_bridge.c): one thread that answers *)
(* requests for the last picture of a stream, converted to BGR24, beside   *)
(* the handlers that decode (stream.c) and the main thread that starts and *)
(* stops it (main.c).                                                      *)
(*                                                                         *)
(* A converted picture is shared by reference count between the cache, the *)
(* bridge thread and the ZMQ messages in flight, whose references libzmq's *)
(* I/O thread gives back.  Memory for pictures is the set Buffers, so that *)
(* a buffer freed too early is one that is handed out again.               *)
(***************************************************************************)
EXTENDS Integers, FiniteSets

CONSTANTS
  Clients,     (* Peers of the ROUTER socket.                                *)
  Requests,    (* What they may ask, once parsed: [cmd, sid, timeout, roi].  *)
  Sids,        (* Streams 1..max_streams.                                    *)
  Colours,     (* color_space and color_range of a StreamInfo.               *)
  Shapes,      (* Dimensions, format and key flag of a decoded frame.        *)
  Buffers,     (* Pictures there is memory for.                              *)
  Places,      (* Replies a client's pipe holds: ZMQ_SNDHWM.                 *)
  None, Text,  (* Nothing; a reply without a picture.                        *)
  MaxDecoders, (* Bound: decoders made per stream.                           *)
  MaxPts       (* Bound: frames per decoder.                                 *)

Timeouts == {"zero", "positive", "negative"}

(* What a picture in memory was made from; the last frame of a stream. *)
Pictures == [sid : Sids, decoder : Nat, pts : Nat, shape : Shapes, colour : Colours]
Frames   == [decoder : Nat, pts : Nat, shape : Shapes]

ASSUME BridgeAssumption ==
  /\ Requests \subseteq [cmd : {"PING", "GET_LATEST_BGR", "other"}, sid : Nat \ {0},
                         timeout : Timeouts, roi : {"none", "part", "outside", "bad"}]
  /\ Sids \subseteq 1..65535
  /\ MaxDecoders \in Nat /\ MaxPts \in Nat
  /\ IsFiniteSet(Clients) /\ IsFiniteSet(Sids) /\ IsFiniteSet(Places)
  /\ None \notin Clients /\ None \notin Buffers /\ None \notin Places
  /\ None \notin Requests /\ None \notin Pictures /\ Text \notin Buffers /\ Text # None

VARIABLES
  running, (* g_running of main.c, cleared by a signal.                      *)
  main,    (* Main thread: "boot", "await", "run", "take", "context",        *)
           (* "join", "destroy", "exit", or "crashed".                       *)
  global,  (* g_zmq_bridge_started, with g_zmq_bridge_arg set.               *)
  arg,     (* The ZmqBridgeArg: "none", "live" or "freed".                   *)
  ctx,     (* The ZMQ context: "none", "open", "shut" or "gone".             *)
  bridge,  (* Bridge thread: where it is, and the request it works on.       *)
  cache,   (* arg->cache_entries: the buffer of each stream's last picture.  *)
  memory,  (* Buffers: [refs, picture].                                      *)
  pipe,    (* Replies in flight to each client.                              *)
  stream   (* Stream contexts: [colour, made, open, pts, frame].             *)

memoryVars == <<cache, memory>>
mainVars   == <<running, main, global>>
vars == <<mainVars, arg, ctx, bridge, memoryVars, pipe, stream>>

Blank == [refs |-> 0, picture |-> None]
Idle  == [at |-> "none", client |-> None, req |-> None, place |-> None,
          late |-> FALSE, snap |-> None, frame |-> None]
NoStream(colour) ==
  [colour |-> colour, made |-> 0, open |-> FALSE, pts |-> 0, frame |-> None]

Init ==
  /\ running = TRUE /\ main = "boot" /\ global = FALSE
  /\ arg = "none" /\ ctx = "none"
  /\ bridge = Idle
  /\ cache = [s \in Sids |-> None]
  /\ memory = [b \in Buffers |-> Blank]
  /\ pipe = [c \in Clients |-> [i \in Places |-> None]]
  /\ \E colour \in Colours : stream = [s \in Sids |-> NoStream(colour)]

-----------------------------------------------------------------------------
(* Reference counts.                                                       *)

Filled(m, b, picture, refs) == [m EXCEPT ![b] = [refs |-> refs, picture |-> picture]]

Retained(m, b) == [m EXCEPT ![b].refs = @ + 1]

(* calloc and malloc: which free buffer they return makes no difference.   *)
HasMemory == \E b \in Buffers : memory[b].refs = 0
NewBuffer == CHOOSE b \in Buffers : memory[b].refs = 0

(* free_bgr_frame: the last reference frees the picture. *)
Released(m, b) ==
  IF m[b].refs = 1 THEN [m EXCEPT ![b] = Blank] ELSE [m EXCEPT ![b].refs = @ - 1]

ReleasedOld(m, b) == IF b = None THEN m ELSE Released(m, b)

-----------------------------------------------------------------------------
(* The handlers of the server, each step under the stream's lock, until    *)
(* server_stop has waited for them.                                        *)

ServerStep == main = "run" /\ UNCHANGED <<mainVars, arg, ctx, bridge, memoryVars, pipe>>

(* STREAM_START announces the format; a decoder that is still there stays. *)
StreamSetInfo(s) ==
  /\ ServerStep
  /\ \E colour \in Colours : stream' = [stream EXCEPT ![s].colour = colour]

(* Every decoder counts its frames from 0. *)
StreamInitDecoder(s) ==
  /\ ServerStep
  /\ ~stream[s].open /\ stream[s].made < MaxDecoders
  /\ stream' = [stream EXCEPT ![s].made = @ + 1, ![s].open = TRUE, ![s].pts = 0]

StreamDecodeVideo(s) ==
  /\ ServerStep
  /\ stream[s].open /\ stream[s].pts < MaxPts
  /\ \E shape \in Shapes :
       stream' = [stream EXCEPT
                    ![s].pts = @ + 1,
                    ![s].frame = [decoder |-> stream[s].made, pts |-> stream[s].pts,
                                  shape |-> shape]]

StreamCloseDecoder(s) ==
  /\ ServerStep
  /\ stream[s].open \/ stream[s].frame # None
  /\ stream' = [stream EXCEPT ![s].open = FALSE, ![s].frame = None]

-----------------------------------------------------------------------------
(* libzmq's I/O thread.                                                    *)

(* A message was transmitted, or dropped with its connection: libzmq calls *)
(* free_bgr_frame_msg for the picture in it.                               *)
MessageDone(c, i) ==
  /\ pipe[c][i] # None
  /\ pipe' = [pipe EXCEPT ![c][i] = None]
  /\ memory' = IF pipe[c][i] = Text THEN memory ELSE Released(memory, pipe[c][i])
  /\ UNCHANGED <<mainVars, arg, ctx, bridge, cache, stream>>

-----------------------------------------------------------------------------
(* The bridge thread: start and loop.                                      *)

At(step)   == bridge.at = step
Goto(step) == bridge' = [bridge EXCEPT !.at = step]
Mine       == UNCHANGED <<mainVars, stream>>

(* zmq_bridge_thread up to start_done. *)
Open ==
  /\ At("setup") /\ Goto("loop")
  /\ ctx' = "open"
  /\ Mine /\ UNCHANGED <<arg, memoryVars, pipe>>

OpenFails ==
  /\ At("setup") /\ Goto("failed")
  /\ Mine /\ UNCHANGED <<arg, ctx, memoryVars, pipe>>

TestRunning ==
  /\ At("loop")
  /\ Goto(IF running THEN "recv" ELSE "close")
  /\ Mine /\ UNCHANGED <<arg, ctx, memoryVars, pipe>>

Uint16(n) == n % 2^16

(* What a request needs: a text at once, or the picture of a stream. *)
FirstStep(r) ==
  IF r.cmd = "GET_LATEST_BGR" /\ r.roi # "bad" /\ Uint16(r.sid) \in Sids
  THEN "look" ELSE "text"

(* A client asks and its request is taken.  The identity part of the reply *)
(* goes out before the work.  It chooses the client's pipe, and libzmq     *)
(* drops the whole reply when that is full.                                *)
Receive(c) ==
  /\ At("recv") /\ ctx = "open"
  /\ \E r \in Requests, place \in Places \cup {None} :
       /\ IF place = None THEN \A i \in Places : pipe[c][i] # None
                          ELSE pipe[c][place] = None
       /\ bridge' = [Idle EXCEPT !.at = FirstStep(r), !.client = c, !.req = r,
                                 !.place = place]
  /\ Mine /\ UNCHANGED <<arg, ctx, memoryVars, pipe>>

(* ETERM behind zmq_ctx_shutdown. *)
ReceiveFails ==
  /\ At("recv") /\ ctx = "shut" /\ Goto("loop")
  /\ Mine /\ UNCHANGED <<arg, ctx, memoryVars, pipe>>

-----------------------------------------------------------------------------
(* convert_last_frame_to_bgr, and the wait for a frame around it.          *)

Sid == Uint16(bridge.req.sid)
Working(step) == At(step) /\ Mine /\ UNCHANGED <<arg, ctx, pipe>>

(* No frame yet: a timeout of zero asks for no retry. *)
Missed == Goto(IF bridge.req.timeout = "zero" THEN "giveUp" ELSE "wait")

(* A snapshot of the frame with the stream's present format, both under    *)
(* the stream's lock.                                                      *)
Snapshot ==
  LET f == stream[Sid].frame
  IN  [sid |-> Sid, decoder |-> f.decoder, pts |-> f.pts, shape |-> f.shape,
       colour |-> stream[Sid].colour]

(* Whether a picture serves a frame.  Faulty: in whatever colour space. *)
MatchesAnyColour(picture, snap) ==
  /\ picture.sid = snap.sid /\ picture.pts = snap.pts /\ picture.shape = snap.shape

(* cached_bgr_frame_matches knows nothing of decoders. *)
Matches(picture, snap) ==
  /\ picture.sid = snap.sid /\ picture.pts = snap.pts
  /\ picture.shape = snap.shape /\ picture.colour = snap.colour

FindCached ==
  /\ Working("look") /\ stream[Sid].frame # None
  /\ LET b == cache[Sid]
     IN  IF b # None /\ Matches(memory[b].picture, Snapshot)
         THEN /\ memory' = Retained(memory, b)
              /\ bridge' = [bridge EXCEPT !.at = "crop", !.snap = Snapshot, !.frame = b]
         ELSE /\ bridge' = [bridge EXCEPT !.at = "convert", !.snap = Snapshot]
              /\ UNCHANGED memory
  /\ UNCHANGED cache

(* There is no frame, or no reference to it is to be had. *)
FindNothing ==
  /\ Working("look") /\ Missed
  /\ UNCHANGED memoryVars

(* The new picture belongs to the thread and to the cache, which lets go   *)
(* of its predecessor.                                                     *)
Convert ==
  /\ Working("convert") /\ HasMemory
  /\ memory' = ReleasedOld(Filled(memory, NewBuffer, bridge.snap, 2), cache[Sid])
  /\ cache' = [cache EXCEPT ![Sid] = NewBuffer]
  /\ bridge' = [bridge EXCEPT !.at = "crop", !.frame = NewBuffer]

(* The conversion failed or there was no memory. *)
ConvertFails ==
  /\ Working("convert") /\ Missed
  /\ UNCHANGED memoryVars

(* The retries.  Faulty: every wait is endless. *)
RetryForEver == Working("wait") /\ Goto("look") /\ UNCHANGED memoryVars

(* 1 ms later, unless the deadline has passed. *)
Retry ==
  /\ Working("wait")
  /\ Goto(IF bridge.late /\ bridge.req.timeout = "positive" THEN "giveUp" ELSE "look")
  /\ UNCHANGED memoryVars

(* The monotonic clock reaches the deadline of the request. *)
DeadlinePasses ==
  /\ bridge.at \in {"look", "convert", "wait"}
  /\ bridge.req.timeout = "positive" /\ ~bridge.late
  /\ bridge' = [bridge EXCEPT !.late = TRUE]
  /\ Mine /\ UNCHANGED <<arg, ctx, memoryVars, pipe>>

-----------------------------------------------------------------------------
(* Region of interest and reply.                                           *)

(* resolve_bgr_roi: all of the picture is asked for. *)
Whole ==
  /\ Working("crop") /\ bridge.req.roi = "none"
  /\ Goto("send")
  /\ UNCHANGED memoryVars

(* A region outside the picture is refused; so is one there is no memory   *)
(* for.                                                                    *)
CropFails ==
  /\ Working("crop") /\ bridge.req.roi # "none"
  /\ memory' = Released(memory, bridge.frame)
  /\ bridge' = [bridge EXCEPT !.at = "text", !.frame = None]
  /\ UNCHANGED cache

Crop ==
  /\ Working("crop") /\ bridge.req.roi = "part" /\ HasMemory
  /\ LET whole == bridge.frame
     IN  memory' = Released(Filled(memory, NewBuffer, memory[whole].picture, 1), whole)
  /\ bridge' = [bridge EXCEPT !.at = "send", !.frame = NewBuffer]
  /\ UNCHANGED cache

Sent(reply) ==
  pipe' = IF bridge.place # None /\ ctx = "open"
          THEN [pipe EXCEPT ![bridge.client][bridge.place] = reply] ELSE pipe

Answered == bridge' = [Idle EXCEPT !.at = "loop"]

(* The reply.  Faulty: the reference of a dropped message is lost. *)
SendFrameLosing ==
  /\ At("send") /\ Answered
  /\ Sent(bridge.frame)
  /\ Mine /\ UNCHANGED <<arg, ctx, memoryVars>>

(* send_bgr_frame_owned: the message takes the thread's reference, and     *)
(* gives it back when it is dropped.                                       *)
SendFrame ==
  /\ At("send") /\ Answered
  /\ Sent(bridge.frame)
  /\ memory' = IF bridge.place # None /\ ctx = "open"
               THEN memory ELSE Released(memory, bridge.frame)
  /\ Mine /\ UNCHANGED <<arg, ctx, cache>>

(* "OK", or "ERR" with "no frame yet" or another reason. *)
SendText ==
  /\ bridge.at \in {"text", "giveUp"} /\ Answered
  /\ Sent(Text)
  /\ Mine /\ UNCHANGED <<arg, ctx, memoryVars>>

-----------------------------------------------------------------------------
(* The end of the thread.                                                  *)

(* zmq_ctx_term returns when every message has left, as no linger is set. *)
Terminate ==
  /\ At("close") /\ \A c \in Clients, i \in Places : pipe[c][i] = None
  /\ ctx' = "gone" /\ Goto("clear")
  /\ Mine /\ UNCHANGED <<arg, memoryVars, pipe>>

ClearCache ==
  /\ At("clear")
  /\ memory' = [b \in Buffers |-> IF \E s \in Sids : cache[s] = b
                                  THEN Released(memory, b)[b] ELSE memory[b]]
  /\ cache' = [s \in Sids |-> None]
  /\ arg' = "freed"
  /\ bridge' = [Idle EXCEPT !.at = "ended"]
  /\ Mine /\ UNCHANGED <<ctx, pipe>>

-----------------------------------------------------------------------------
(* The main thread.                                                        *)

MainQuiet == UNCHANGED <<bridge, memoryVars, pipe, stream>>

Signal ==
  /\ running /\ running' = FALSE
  /\ MainQuiet /\ UNCHANGED <<main, global, arg, ctx>>

(* No address is configured, or something cannot be allocated. *)
NoBridge ==
  /\ main = "boot" /\ main' = "run"
  /\ MainQuiet /\ UNCHANGED <<running, global, arg, ctx>>

StartBridge ==
  /\ main = "boot" /\ main' = "await"
  /\ arg' = "live" /\ bridge' = [Idle EXCEPT !.at = "setup"]
  /\ UNCHANGED <<running, global, ctx, memoryVars, pipe, stream>>

(* start_done: a failed thread is joined and the argument freed.  A thread *)
(* that saw no reason to run has freed it before, with the mutex and the   *)
(* condition that main waits on.                                           *)
AwaitStart ==
  /\ main = "await" /\ bridge.at # "setup"
  /\ main' \in IF bridge.at = "ended" THEN {"run", "crashed"} ELSE {"run"}
  /\ global' = (bridge.at # "failed")
  /\ arg' = IF bridge.at = "failed" THEN "freed" ELSE arg
  /\ MainQuiet /\ UNCHANGED <<running, ctx>>

(* The main loop ends; server_stop waits for the handlers. *)
StopServer ==
  /\ main = "run" /\ ~running /\ main' = "take"
  /\ MainQuiet /\ UNCHANGED <<running, global, arg, ctx>>

(* zmq_bridge_shutdown. *)
TakeArg ==
  /\ main = "take"
  /\ main' = IF global THEN "context" ELSE "destroy"
  /\ global' = FALSE
  /\ MainQuiet /\ UNCHANGED <<running, arg, ctx>>

(* Reads arg->zmq_ctx; undefined when the thread has freed either. *)
ShutContext ==
  /\ main = "context"
  /\ main' \in IF arg = "live" /\ ctx # "gone" THEN {"join"} ELSE {"join", "crashed"}
  /\ ctx' = IF ctx = "open" THEN "shut" ELSE ctx
  /\ MainQuiet /\ UNCHANGED <<running, global, arg>>

(* The end of zmq_bridge_shutdown. *)
JoinBridge ==
  /\ main = "join" /\ bridge.at = "ended" /\ main' = "destroy"
  /\ MainQuiet /\ UNCHANGED <<running, global, arg, ctx>>

(* stream_manager_destroy, and the process ends. *)
DestroyStreams ==
  /\ main = "destroy" /\ main' = "exit"
  /\ stream' = [s \in Sids |-> [stream[s] EXCEPT !.open = FALSE, !.frame = None]]
  /\ UNCHANGED <<running, global, arg, ctx, bridge, memoryVars, pipe>>

-----------------------------------------------------------------------------
Handlers ==
  \E s \in Sids :
    StreamSetInfo(s) \/ StreamInitDecoder(s) \/ StreamDecodeVideo(s) \/ StreamCloseDecoder(s)

Peers == \E c \in Clients : Receive(c) \/ \E i \in Places : MessageDone(c, i)

BridgeThread ==
  \/ Open \/ OpenFails \/ TestRunning \/ ReceiveFails
  \/ FindCached \/ FindNothing \/ Convert \/ ConvertFails \/ Retry
  \/ Whole \/ CropFails \/ Crop \/ SendFrame \/ SendText
  \/ Terminate \/ ClearCache

MainThread ==
  \/ Signal \/ NoBridge \/ StartBridge \/ AwaitStart \/ StopServer
  \/ TakeArg \/ ShutContext \/ JoinBridge \/ DestroyStreams

Next ==
  /\ main \notin {"exit", "crashed"}
  /\ Handlers \/ Peers \/ BridgeThread \/ DeadlinePasses \/ MainThread

Spec == Init /\ [][Next]_vars

(* The thread is scheduled, and the clock goes on. *)
FairSpec == Spec /\ WF_vars(main # "crashed" /\ BridgeThread) /\ WF_vars(DeadlinePasses)

-----------------------------------------------------------------------------
(* Properties.                                                             *)

RequestSteps == {"look", "convert", "wait", "crop", "send", "text", "giveUp"}

(* The type invariant: in particular a buffer holds a picture exactly while  *)
(* it has references, and the bridge thread has a picture in hand exactly  *)
(* between the conversion and the reply.                                   *)
TypeOK ==
  /\ running \in BOOLEAN /\ global \in BOOLEAN
  /\ main \in {"boot", "await", "run", "take", "context", "join", "destroy", "exit", "crashed"}
  /\ arg \in {"none", "live", "freed"} /\ ctx \in {"none", "open", "shut", "gone"}
  /\ bridge \in [at : {"none", "setup", "failed", "loop", "recv", "close", "clear", "ended"}
                       \cup RequestSteps,
                  client : Clients \cup {None}, req : Requests \cup {None},
                  place : Places \cup {None}, late : BOOLEAN,
                  snap : Pictures \cup {None}, frame : Buffers \cup {None}]
  /\ bridge.at \in RequestSteps <=> bridge.req # None
  /\ bridge.at \in {"crop", "send"} <=> bridge.frame # None
  /\ cache \in [Sids -> Buffers \cup {None}]
  /\ memory \in [Buffers -> [refs : Nat, picture : Pictures \cup {None}]]
  /\ \A b \in Buffers : memory[b].refs = 0 <=> memory[b].picture = None
  /\ pipe \in [Clients -> [Places -> Buffers \cup {None, Text}]]
  /\ stream \in [Sids -> [colour : Colours, made : Nat, open : BOOLEAN, pts : Nat,
                          frame : Frames \cup {None}]]

(* The reference count of a picture is the number of those who hold it: a  *)
(* cache entry, the bridge thread, messages in flight.  So it is freed     *)
(* when and only when the last of them lets go, and the end of the thread  *)
(* leaves no picture behind (retain_bgr_frame, free_bgr_frame).            *)
ReferencesExact ==
  /\ TypeOK
  /\ \A b \in Buffers :
       memory[b].refs = Cardinality({s \in Sids : cache[s] = b})
                        + (IF bridge.frame = b THEN 1 ELSE 0)
                        + Cardinality({m \in Clients \X Places : pipe[m[1]][m[2]] = b})

(* What is about to be sent is the frame that was the stream's last one    *)
(* while the request was being worked on, converted for the format of that *)
(* time; a cached picture may at most be of an earlier decoder whose frame *)
(* had the same time stamp (convert_last_frame_to_bgr).  And the streams   *)
(* it is taken from are not destroyed meanwhile (zmq_bridge_shutdown).     *)
AnswersCurrent ==
  bridge.at \in RequestSteps =>
    /\ main \notin {"destroy", "exit"}
    /\ bridge.at \in {"crop", "send"} =>
         LET picture == memory[bridge.frame].picture
         IN  /\ [picture EXCEPT !.decoder = bridge.snap.decoder] = bridge.snap
             /\ picture.decoder <= bridge.snap.decoder

(* A request that sets a limit to its waiting does not block the others    *)
(* for ever, whatever the stream does and whoever reads the replies        *)
(* (zmq_bridge_thread).                                                    *)
RequestsEnd ==
  (bridge.at \in RequestSteps /\ bridge.req.timeout # "negative")
    ~> (bridge.at \notin RequestSteps \/ main = "crashed")
=============================================================================
