----------------------------- MODULE IdrWatchdog ----------------------------
(***************************************************************************)
(* When stream_server asks a worker for an IDR (server.c), for one stream. *)
(* A request is made at the start of a session, for every packet as long   *)
(* as nothing can be decoded (no_decode), when decoding has come to a halt *)
(* (decode_stall), and by the writer of the compressed recorder; all go    *)
(* through one limit per stream, whose time stamp is taken before the      *)
(* datagram is sent.  Every look at the stream is under its lock, but the  *)
(* clock is read before the lock is taken: another thread may meanwhile    *)
(* have stored a later time, and the difference, which is unsigned, is     *)
(* then a very long time.                                                  *)
(*                                                                         *)
(* Time stamps are kept as their age, Horizon for any greater one, and     *)
(* counters up to the value that is tested; so time has no end.            *)
(***************************************************************************)
EXTENDS Integers, Sequences

CONSTANTS
  Handlers,       (* Connections that bring packets of the stream.           *)
  Writer,         (* The writer thread of the compressed recorder.           *)
  Sid,            (* The stream's id.                                        *)
  MaxStreams,     (* server_runtime_max_streams().                           *)
  MapItems,       (* ML_WORKER_CTRL_MAP: [sid, port] in turn.                *)
  MapLines,       (* ML_WORKER_CTRL_MAP_FILE: [sid, port] in turn.           *)
  MinReceived,    (* The 30 packets of both watchdogs.                       *)
  RequestInterval,(* request_interval_ns.                                    *)
  StallIdle,      (* stall_idle_ns.                                          *)
  Backoff,        (* backoff_ns for a stall count of 0, 1 and more.          *)
  Horizon,        (* Bound: ages that are told apart.                        *)
  MaxLag,         (* Bound: time from reading the clock to taking the lock.  *)
  MaxDecoded      (* Bound: pictures of a decoder.                           *)

ASSUME WatchdogAssumption ==
  /\ Writer \notin Handlers
  /\ {MinReceived, RequestInterval, StallIdle, Horizon, MaxLag, MaxDecoded} \subseteq Nat
  /\ Backoff \in [1 .. 3 -> Nat]
  /\ \A d \in {RequestInterval, StallIdle, Backoff[1], Backoff[2], Backoff[3]} :
       d + MaxLag <= Horizon

VARIABLES
  stream,  (* StreamContext: [active, decoder, received, decoded].           *)
  watch,   (* Its watchdog: [delta, decoded, change, stall, count], delta    *)
           (* frames_received - watchdog_last_received.                      *)
  request, (* The age of last_idr_request_ns.                                *)
  asked,   (* History: how long ago the limit let a request of the session   *)
           (* through, by the clock on the wall.                             *)
  thread,  (* [at, lag, next]: lag the age of the time it has read, next     *)
           (* where it goes on behind a request.                             *)
  worker,  (* g_worker_ctrl_map[Sid]; Unread before pthread_once.            *)
  picture  (* History: [age, packets, renewed], the packets since the last   *)
           (* picture, and whether the decoder is another one since the      *)
           (* watchdog has seen a picture.                                   *)

vars == <<stream, watch, request, asked, thread, worker, picture>>

Threads  == Handlers \cup {Writer}
Never    == -1
Unread   == -1
Least(a, b) == IF a < b THEN a ELSE b
Counted(n)  == Least(n + 1, MinReceived)

Init ==
  /\ stream = [active |-> FALSE, decoder |-> FALSE, received |-> 0, decoded |-> 0]
  /\ watch = [delta |-> 0, decoded |-> 0, change |-> Never, stall |-> Never, count |-> 0]
  /\ request = Never /\ asked = Never
  /\ thread = [t \in Threads |-> [at |-> "idle", lag |-> 0, next |-> "idle"]]
  /\ worker = Unread
  /\ picture = [age |-> Horizon, packets |-> 0, renewed |-> FALSE]

At(t, a)    == thread[t].at = a
Goto(t, a)  == thread' = [thread EXCEPT ![t].at = a, ![t].lag = 0]
Ask(t, on)  == thread' = [thread EXCEPT ![t] = [at |-> "ask", lag |-> 0, next |-> on]]

(* Time passes, for time stamps and for times that were read. *)
Later(age) == IF age = Never THEN Never ELSE Least(age + 1, Horizon)
HasRead(t) == thread[t].at \in {"limit", "lookNone", "lookStall"}
Tick ==
  /\ \A t \in Threads : HasRead(t) => thread[t].lag < MaxLag
  /\ watch' = [watch EXCEPT !.change = Later(@), !.stall = Later(@)]
  /\ request' = Later(request) /\ asked' = Later(asked)
  /\ thread' = [t \in Threads |-> [thread[t] EXCEPT !.lag = IF HasRead(t) THEN @ + 1 ELSE @]]
  /\ picture' = [picture EXCEPT !.age = Later(@)]
  /\ UNCHANGED <<stream, worker>>

(* monotonic_ns_server before the lock is taken. *)
ReadClock(t) ==
  /\ \/ At(t, "ask") /\ Goto(t, "limit")
     \/ At(t, "none") /\ Goto(t, "lookNone")
     \/ At(t, "stall") /\ Goto(t, "lookStall")
  /\ UNCHANGED <<stream, watch, request, asked, worker, picture>>

(* Whether a time stamp of this age was never taken, or is so long ago to  *)
(* thread t: one later than the time t has read is ages ago.               *)
LongAgo(t, age, interval) ==
  age = Never \/ age < thread[t].lag \/ age - thread[t].lag >= interval

-----------------------------------------------------------------------------
(* request_idr_for_stream: the limit, then the datagram.                   *)

(* Faulty: the time stamp is not taken. *)
LimitUnstamped(t) ==
  /\ At(t, "limit")
  /\ IF LongAgo(t, request, RequestInterval)
     THEN asked' = 0 /\ Goto(t, "send")
     ELSE UNCHANGED asked /\ Goto(t, thread[t].next)
  /\ UNCHANGED <<stream, watch, request, worker, picture>>

(* Faulty: the time stamp is taken of requests that are refused, too. *)
LimitStamping(t) ==
  /\ At(t, "limit")
  /\ request' = thread[t].lag
  /\ IF LongAgo(t, request, RequestInterval)
     THEN asked' = 0 /\ Goto(t, "send")
     ELSE UNCHANGED asked /\ Goto(t, thread[t].next)
  /\ UNCHANGED <<stream, watch, worker, picture>>

Limit(t) ==
  /\ At(t, "limit")
  /\ IF LongAgo(t, request, RequestInterval)
     THEN request' = thread[t].lag /\ asked' = 0 /\ Goto(t, "send")
     ELSE UNCHANGED <<request, asked>> /\ Goto(t, thread[t].next)
  /\ UNCHANGED <<stream, watch, worker, picture>>

(* The map of the workers' control ports is read once, the string before   *)
(* the file: the last entry of a stream holds.  Without one, or when the   *)
(* datagram cannot be sent, the request is lost.                           *)
MaxPort == 65535
Entries == SelectSeq(MapItems \o MapLines, LAMBDA e : e.sid = Sid /\ e.port \in 1 .. MaxPort)
WorkerPort ==
  IF Entries = <<>> \/ Sid \notin 1 .. MaxStreams THEN 0 ELSE Entries[Len(Entries)].port

Send(t) ==
  /\ At(t, "send")
  /\ worker' = WorkerPort
  /\ Goto(t, thread[t].next)
  /\ UNCHANGED <<stream, watch, request, asked, picture>>

(* The recorder asks at its own times (RecorderIdr). *)
WriterAsks ==
  /\ At(Writer, "idle")
  /\ Ask(Writer, "idle")
  /\ UNCHANGED <<stream, watch, request, asked, worker, picture>>

-----------------------------------------------------------------------------
(* STREAM_START and STREAM_STOP (handle_packet).                           *)

(* Faulty: the packets are counted from 0 in every session. *)
StartStreamCounting(h) ==
  /\ At(h, "idle")
  /\ stream' = [stream EXCEPT !.active = TRUE, !.received = 0]
  /\ Goto(h, "reset")
  /\ UNCHANGED <<watch, request, asked, worker, picture>>

StartStream(h) ==
  /\ At(h, "idle")
  /\ stream' = [stream EXCEPT !.active = TRUE]
  /\ Goto(h, "reset")
  /\ UNCHANGED <<watch, request, asked, worker, picture>>

(* Faulty: the limit of the session before goes on. *)
ResetWatchOnly(h) ==
  /\ At(h, "reset")
  /\ asked' = Never
  /\ watch' = [delta |-> stream.received, decoded |-> 0, change |-> 0, stall |-> Never, count |-> 0]
  /\ Goto(h, "init")
  /\ UNCHANGED <<stream, request, worker, picture>>

(* watchdog_last_received becomes 0, frames_received stays. *)
ResetWatch(h) ==
  /\ At(h, "reset")
  /\ request' = Never /\ asked' = Never
  /\ watch' = [delta |-> stream.received, decoded |-> 0, change |-> 0, stall |-> Never, count |-> 0]
  /\ Goto(h, "init")
  /\ UNCHANGED <<stream, worker, picture>>

(* A decoder that is there stays; a new one may not be had. *)
InitDecoder(h) ==
  /\ At(h, "init")
  /\ \/ /\ ~stream.decoder
        /\ stream' = [stream EXCEPT !.decoder = TRUE, !.decoded = 0]
        /\ picture' = [picture EXCEPT !.renewed = TRUE]
     \/ UNCHANGED <<stream, picture>>
  /\ Ask(h, "idle")
  /\ UNCHANGED <<watch, request, asked, worker>>

CloseDecoder(h) ==
  /\ At(h, "idle")
  /\ stream' = [stream EXCEPT !.decoder = FALSE]
  /\ Goto(h, "stop")
  /\ UNCHANGED <<watch, request, asked, worker, picture>>

StopStream(h) ==
  /\ At(h, "stop")
  /\ stream' = [stream EXCEPT !.active = FALSE]
  /\ Goto(h, "idle")
  /\ UNCHANGED <<watch, request, asked, worker, picture>>

-----------------------------------------------------------------------------
(* VIDEO: the packet is counted and decoded, then both watchdogs look.     *)

Packet(h) ==
  /\ At(h, "idle")
  /\ stream' = [stream EXCEPT !.received = Counted(@)]
  /\ watch' = [watch EXCEPT !.delta = Counted(@)]
  /\ picture' = [picture EXCEPT !.packets = Counted(@)]
  /\ Goto(h, "decode")
  /\ UNCHANGED <<request, asked, worker>>

Decode(h) ==
  /\ At(h, "decode")
  /\ \/ /\ stream.decoder /\ stream.decoded < MaxDecoded
        /\ stream' = [stream EXCEPT !.decoded = @ + 1]
        /\ picture' = [picture EXCEPT !.age = 0, !.packets = 0]
     \/ UNCHANGED <<stream, picture>>
  /\ Goto(h, "none")
  /\ UNCHANGED <<watch, request, asked, worker>>

(* maybe_request_idr_for_no_decode. *)
LookNone(h) ==
  /\ At(h, "lookNone")
  /\ IF /\ stream.active /\ stream.decoder /\ stream.decoded = 0
        /\ stream.received = MinReceived /\ LongAgo(h, request, RequestInterval)
     THEN Ask(h, "stall") ELSE Goto(h, "stall")
  /\ UNCHANGED <<stream, watch, request, asked, worker, picture>>

(* maybe_request_idr_for_decode_stall. *)
Watching == stream.active /\ stream.decoder /\ stream.decoded # 0 /\ watch.change # Never
Halted(h) ==
  /\ watch.delta = MinReceived
  /\ LongAgo(h, watch.change, StallIdle)
  /\ LongAgo(h, watch.stall, Backoff[watch.count + 1])

(* There is nothing to watch, or this is the first look. *)
LookIdle(h) ==
  /\ At(h, "lookStall") /\ ~Watching
  /\ watch' = [watch EXCEPT !.delta = 0, !.decoded = stream.decoded, !.change = thread[h].lag]
  /\ picture' = [picture EXCEPT !.renewed = FALSE]
  /\ Goto(h, "idle")
  /\ UNCHANGED <<stream, request, asked, worker>>

(* Faulty: the time of the picture is not kept. *)
LookProgressUntimed(h) ==
  /\ At(h, "lookStall") /\ Watching /\ stream.decoded # watch.decoded
  /\ watch' = [watch EXCEPT !.decoded = stream.decoded, !.count = 0]
  /\ picture' = [picture EXCEPT !.renewed = FALSE]
  /\ Goto(h, "idle")
  /\ UNCHANGED <<stream, request, asked, worker>>

LookProgress(h) ==
  /\ At(h, "lookStall") /\ Watching /\ stream.decoded # watch.decoded
  /\ watch' = [watch EXCEPT !.delta = 0, !.decoded = stream.decoded, !.change = thread[h].lag,
                            !.count = 0]
  /\ picture' = [picture EXCEPT !.renewed = FALSE]
  /\ Goto(h, "idle")
  /\ UNCHANGED <<stream, request, asked, worker>>

(* The time stamp of the stall and its count are raised before the limit   *)
(* lets the request through or not.                                        *)
LookHalt(h) ==
  /\ At(h, "lookStall") /\ Watching /\ stream.decoded = watch.decoded
  /\ IF Halted(h)
     THEN /\ watch' = [watch EXCEPT !.stall = thread[h].lag, !.count = Least(@ + 1, 2)]
          /\ Ask(h, "idle")
     ELSE UNCHANGED watch /\ Goto(h, "idle")
  /\ UNCHANGED <<stream, request, asked, worker, picture>>

-----------------------------------------------------------------------------
Step(t) == ReadClock(t) \/ Limit(t) \/ Send(t)
Work(h) ==
  \/ ResetWatch(h) \/ InitDecoder(h) \/ StopStream(h) \/ Decode(h)
  \/ LookNone(h) \/ LookIdle(h) \/ LookProgress(h) \/ LookHalt(h)

Next ==
  \/ Tick \/ WriterAsks
  \/ \E t \in Threads : Step(t)
  \/ \E h \in Handlers : StartStream(h) \/ CloseDecoder(h) \/ Packet(h) \/ Work(h)

(* Threads get on, and time passes. *)
Fairness ==
  /\ WF_vars(Tick)
  /\ \A t \in Threads : WF_vars(Step(t))
  /\ \A h \in Handlers : WF_vars(Work(h))

Spec == Init /\ [][Next]_vars /\ Fairness

-----------------------------------------------------------------------------
(* Properties.                                                             *)

Ages == Never .. Horizon

(* The type invariant.  frames_received - watchdog_last_received is        *)
(* unsigned: it must never be greater than frames_received.                *)
TypeOK ==
  /\ stream \in [active : BOOLEAN, decoder : BOOLEAN, received : 0 .. MinReceived,
                 decoded : 0 .. MaxDecoded]
  /\ watch \in [delta : 0 .. MinReceived, decoded : 0 .. MaxDecoded, change : Ages,
                stall : Ages, count : 0 .. 2]
  /\ watch.delta <= stream.received
  /\ request \in Ages /\ asked \in Ages
  /\ thread \in [Threads -> [at : {"idle", "reset", "init", "stop", "decode", "none", "lookNone",
                                   "stall", "lookStall", "ask", "limit", "send"},
                             lag : 0 .. MaxLag, next : {"idle", "stall"}]]
  /\ worker \in {Unread, WorkerPort}
  /\ picture \in [age : 0 .. Horizon, packets : 0 .. MinReceived, renewed : BOOLEAN]

(* Between two requests that the limit lets through in one session, of     *)
(* whatever threads and for whatever reasons, there really passes          *)
(* RequestInterval, less the time from reading the clock to the lock; only *)
(* a thread that was overtaken by another request in that time may ask at  *)
(* once (request_idr_for_stream; CHAIN_ml_worker_stream_server.md:         *)
(* "会限频向 `ml_worker` 发一次 `REQ_IDR`").                                     *)
Granted(t) == At(t, "limit") /\ thread'[t].at = "send"
RequestsSpaced ==
  [][\A t \in Threads :
       Granted(t) => \/ asked = Never \/ asked >= RequestInterval - MaxLag
                     \/ asked < thread[t].lag]_vars

(* The stall watchdog reports a halt only when there was one: no picture   *)
(* for StallIdle - less what passed between the clock and the lock of the  *)
(* look before - while MinReceived packets came ("这个 watchdog               *)
(* 正常情况下不触发", PLAN_compressed_recording_tap.md), whatever other         *)
(* threads do meanwhile.  It may be wrong about a decoder whose count of   *)
(* pictures is by chance that of the one before, and in a thread that was  *)
(* overtaken by the look of another.                                       *)
StallIsReal ==
  [][\A h \in Handlers :
       At(h, "lookStall") /\ thread'[h].at = "ask" =>
         \/ picture.age >= StallIdle - MaxLag /\ picture.packets = MinReceived
         \/ picture.renewed \/ watch.change < thread[h].lag]_vars

(* A session begins with a request of its own, which is not refused        *)
(* because of an earlier session: as long as the limit has let none        *)
(* through, a handler is on its way to it ("Request one immediately so the *)
(* decoder can lock", handle_packet).                                      *)
Starting(h) == thread[h].at \in {"reset", "init", "ask", "limit"}
StartAsked ==
  stream.active /\ asked = Never => \E h \in Handlers : Starting(h)

(* As long as a session has a decoder, packets arrive and there is no      *)
(* picture, requests are made again and again: neither the backoff nor the *)
(* limit, used up by whomever, silences the watchdogs.                     *)
Starving == stream.active /\ stream.decoder /\ picture.age = Horizon
StallAnswered ==
  (<>[]Starving /\ []<><<\E h \in Handlers : Packet(h)>>_vars)
    => []<><<\E t \in Threads : Granted(t)>>_vars
=============================================================================
