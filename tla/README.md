# A TLA+ model of the video streaming workspace

The repository carries video of remote desktops and games from Moonlight hosts
through one worker per stream (`src/src`, "ml_worker") to one
`stream_server` (`src/stream_server`), which decodes, records and hands the
streams on to an agent server (`src/strem_agent_server`), to Python services
(`src/python_dir`, `src/strem_agent_client`) and to a browser front end
(`src/web_webrtc`). This directory models the parts of it whose correctness
depends on the order of things: threads, broken connections, failing files,
shutdown. TLC checks the modules on small instances, TLAPS proves part of the
properties for every value of the constants.

    Moonlight host ==> worker --TCP 9000--> stream_server --TCP tap--> viewers
                       (Worker)             (StreamServer)  (H264Tap)
                           \________________/    |
                             (Session)           +--> decoders (Decoder)
                                                 +--> segments on disk (CompressedRecorder)
                                                 +--> pictures on request (ZmqBridge)
                                                 +--UDP--> worker: REQ_IDR
                                                           (IdrWatchdog, RecorderIdr)

    worker --TCP ingest--> agent server --TCP tap--> viewers
                           (AgentTap)
    controllers --TCP--> agent server --UDP--> worker ==> Moonlight host
                         (ControlPath)

## 1. Inventory

Line counts are of the C, Python or JavaScript source.

| Component | Source | State | Operations | What is hard in it |
|---|---|---|---|---|
| Compressed recorder | `stream_server/src/compressed_recorder.c` (1184) | event queue with a byte limit, one `RecorderStream` per id, NFS status, files `<name>.tmp` and `<name>` | start/stop, STREAM_START / VIDEO / STREAM_STOP callbacks, the writer thread | every file operation may fail, the mount comes and goes, the wall clock names files, the process may crash, queue limit, IDR request schedule |
| Stream server core | `stream_server/src/server.c` (957) | client list and count, descriptors, `g_running`, per-stream watchdog state | accept loop, a handler thread per client, packet dispatch, `server_stop` | handlers outliving `server_stop`, descriptors closed by two threads, two workers on one stream, silent workers |
| Stream contexts | `stream_server/src/stream.c` (904) | one context per stream id: state, codec, decoder | set info / state, decoder open / decode / close, destroy | decoder used while another handler closes it, decoder that survives its session |
| H.264 tap | `stream_server/src/h264_tap.c` (468) | subscriber slots with output buffers, cached parameter sets, started flag | start, stop, accept loop, publish, flush | slots shared by accept thread and publisher, slow readers, resynchronisation behind a torn unit |
| ZMQ bridge | `stream_server/src/zmq_bridge.c` (969) | cached pictures with reference counts, request socket, thread argument | start, answer requests from the streams' last frames, shutdown | pictures freed while in use, stale cache entries, who frees the argument, waits without a limit |
| Decoder back ends | `stream_server/src/decoder.c` (1914) | FFmpeg / CUDA contexts, the CUDA device all decoders share, reference-counted transfer statistics | create, init, decode, reference and convert pictures, destroy | a device made outside its lock, pictures that outlive their decoder, fall-backs between back ends |
| Wire protocol | `stream_server/src/protocol.c` (107) | none | parse and format headers | byte order, lengths |
| stream_server main | `stream_server/src/main.c` (456) | options, signal flag | start bridge, server, recorder, tap; stop them in order | order of the shutdown |
| Worker process | `src/main.c` (1100), `video_callbacks.c` (478), `connection_callbacks.c` (59) | sender, fatal code, last heartbeat and reconnect, streaming flag | setup, decode unit, stop, termination, reconnect, exit | three threads around one sender pointer, an unreachable server, which failure ends the process |
| TCP sender | `src/tcp_sender.c` (555) | socket, connected and started flags | connect, start, video, heartbeat, stop, destroy | packets cut short, descriptors over reconnects |
| Control socket | `src/control_socket.c` (240) | UDP socket of the worker's main thread | open, read until nothing is left, dispatch input events and IDR requests, close | commands without end before a signal or a fatal code is seen |
| Agent server | `strem_agent_server/src` (1206) | ingest thread, tap slots, authenticated controllers, UDP forwards | handshake, subscribe, publish, recover, forward commands | handshakes on the accept thread, recovery to an IDR, lines that TCP cuts into pieces |
| Agent clients, Python services | `strem_agent_client`, `python_dir` (about 4900) | viewers and gateways | relay, decode, display | reconnects, queues that drop |
| Web bridge | `web_webrtc/ws_ctrl_bridge/server.js` (866) and a republisher (132) | WebSocket sessions, child processes | relay input, start and stop `ffmpeg` | child process life cycle |
| Deployment scripts | `deploy/*.sh` | processes, segment files | start/stop workers, transcode, prune, health | what reads the closed segments |
| Third party | `third_party` | - | vendored Moonlight, ENet, nanors | not this project's code |

How they interact. The **worker** calls Moonlight, which calls back on its own
threads: decode units on the video thread, termination on another. Each decode
unit becomes one VIDEO packet on the worker's TCP connection; a heartbeat is
sent only along with a decode unit. In **stream_server** each connection has a
handler thread that reads packets in a loop and calls, in this order and in
its own thread, the stream context, the decoder, the tap and the recorder
callbacks. The **recorder** has a thread of its own behind a queue; it asks for
IDR frames by a UDP command to the worker's control socket, and so do the
watchdogs of the handlers, through one rate limit per stream. The **tap** has an
accept thread, and its publications run on the handlers. The **agent server** takes
the same packets from workers on a thread of its own and publishes them to
viewers; it reads commands of controllers, a thread for each, and forwards them as
datagrams to the workers' control sockets, where the worker's main thread reads
them between its looks for a signal and a fatal code. The **bridge** has its own thread and
reads the last frame of a stream, under the stream's lock, when a client asks. At exit `main.c` calls
`server_stop` (which stops the tap), then stops the recorder, the bridge, and
at last destroys the streams.

What makes each part correct:

* recorder: a closed segment is playable from its first frame, nothing is
  skipped in the middle of a segment, IDR requests are spaced, stop drains the
  queue and returns, no file is left open;
* server: the count of clients is exact, every descriptor is closed once,
  streams are not destroyed below a running handler, a silent or vanished
  worker gives its place up, stream, decoder and recorder agree on whether a
  session runs;
* tap: no descriptor is lost, a subscriber gets units in order and, after a gap,
  from an IDR on;
* worker: what it sends on a connection is a session, no descriptor is lost in
  reconnects, an unreachable server does not end it, a fatal error does;
* IDR requests: spaced, never silenced while nothing can be decoded, and a
  stall is reported only when there was one;
* decoder: the shared device has exactly its users, pictures and statistics are
  freed by their last holder, the picture shown is the newest;
* agent: a viewer starts and resumes at an IDR and its recovery ends, no peer
  holds up the others, a button of the host is as its controller left it;
* bridge: a picture is freed by its last holder, an answer is the frame the
  stream had while the request was worked on, streams outlive the bridge, a request with a
  time limit does not block the others.

`PROJECT.json` lists all components with their status, and under `hazards`
every place of the code that is hard to test, with the properties that cover it
or the reason none does yet.

## 2. The modules

| Module | Models | EXTENDS / INSTANCE |
|---|---|---|
| `RecorderIdr` | the IDR request schedule of a recorded stream: spacing, back-off, periodic requests | - |
| `CompressedRecorder` | the recorder, one writer step per file operation | `RecorderIdr` |
| `CompressedRecorderProofs` | theorems about it, the request schedule included | `CompressedRecorder`, `TLAPS` |
| `StreamServer` | server core, stream contexts, the order of shutdown in `main.c`; the workers at the other end | - |
| `StreamServerProofs` | theorems about it | `StreamServer`, `TLAPS` |
| `IdrWatchdog` | requests for an IDR: start of a session, the two watchdogs, the rate limit, the map of control ports | - |
| `Decoder` | decoders, the CUDA device they share, pictures and their statistics, in `decoder.c` and `stream.c` | - |
| `DecoderProofs` | theorems about it | `Decoder`, `FiniteSetTheorems`, `TLAPS` |
| `H264Tap` | the tap, its handlers (publishers), accept thread and subscribers | - |
| `HandlerProofs` | theorems about `IdrWatchdog` and `H264Tap` | these two, `SequenceTheorems`, `WellFoundedInduction`, `TLAPS` |
| `ZmqBridge` | the bridge thread, its pictures and their references, the contexts it reads, start and stop by `main.c` | - |
| `ZmqBridgeProofs` | theorems about it | `ZmqBridge`, `FiniteSetTheorems`, `TLAPS` |
| `Session` | abstract: what one connection of a worker may carry | - |
| `Worker` | TCP sender, video and termination callbacks, main loop | `SessionOf == INSTANCE Session WITH ...` |
| `WorkerProofs` | theorems about it | `Worker`, `TLAPS` |
| `AgentTap` | the agent's ingest thread and tap: handshake, slots, buffers, recovery | - |
| `AgentTapProofs` | theorems about it | `AgentTap`, `WellFoundedInduction`, `TLAPS` |
| `ControlPath` | a command's way: controller, agent, datagram, worker's main thread, host; the worker from its first ping to its exit code | - |
| `ControlProofs` | theorems about it | `ControlPath`, `TLAPS` |
| `MC...` | values of the constants for TLC, symmetry | the module they instantiate |

`RecorderIdr` and `IdrWatchdog` meet in `WriterAsks`: the recorder's schedule is
one more thread that asks at any time. `Session` is what `Worker` implements and
what the workers of `StreamServer` follow. `Decoder` refines the decoder of
`StreamServer`, there one value, into its parts, and takes over from `ZmqBridge`
what becomes of a picture behind the lock. `ControlPath` has the main thread of
the worker that `Worker` reduces to setup, loop and stop.

Definitions carry the names of the code where that is possible; `map` in
`PROJECT.json` gives for each one the lines it translates.

### CompressedRecorder

`queue`, `queuedBytes` are the list between `head` and `tail` and
`queued_bytes`; `stream` is `streams[]`; `nfs` is `nfs_mounted` with the time of
its last check; `phase` is `accepting` / `running`. The callbacks
(`OnStreamStart`, `OnVideo`, `OnStreamStop`) are atomic from the lock of the
queue's mutex on. Their clocks are read before it, in front of the copying of the
packet: `readings` are the times the clocks have shown, and an event bears any one of
them, so that handlers may overtake one another; `order` is a history of whether
the events of a stream came in the order of their stamps. The writer thread is a program counter `pc` and the event in hand
`cur`: `Dequeue` takes an event, and the handling of a VIDEO event is one action
per file operation (mount check, close and rename, open, write the parameter
sets, append), so that callbacks, clocks, faults and a stop fall between any two
of them. `tmp` and `final` are the files, which survive a crash; `leaked` counts
FILE objects nobody points to.

Abstractions. A payload is the set of parameter sets it holds, whether it is a
key frame, and a length. A file is the sequence of the packets in it. The code
ignores a failed `fclose` and renames the file; what stdio had not written is
missing, so the file is then "cut" at any byte and its last piece may be torn
(`CutShort`). The queue's condition variable is not modelled: a lost
wakeup would not be seen.
The wall clock is one tick per second and may be stepped; the monotonic clock
only advances. Unsigned differences of clocks keep their wrap (`Elapsed`).
After a crash the process is started again, with the files as they are.
Statistics and log throttling are left out.

### StreamServer

The accept thread goes through `accept`, the count check, the allocation, the
list insertion and the creation of the thread as separate steps, since the code
takes the lock twice. A handler reads a packet, then performs the calls of its
type one after the other: stream info and state, decoder, recorder. `server_stop`
clears `g_running`, closes the listener and the clients' descriptors, waits for
the list to become empty and gives up after 6 seconds (`GiveUp`, which may
happen at any time while the list is not empty, since a model has no seconds).
`recv` returns a packet, end of file, or the timeout of `SO_RCVTIMEO`; a `recv`
that began before the descriptor was closed may still deliver. `main.c` then
stops the recorder and destroys the streams.
An error of `accept` other than EAGAIN ends the accept loop while the server
runs (`AcceptFails`); a header that is invalid, or a packet that is too large, ends
the handler with data unread (`HeaderRefused`).

The workers at the other ends follow `Session`: START, VIDEO, at most one STOP,
and a hang-up at any moment; `MaxSent` bounds their length.

HEARTBEAT, statistics, further allocation failures and the stress test of `stream.c` are
not in the model.

### IdrWatchdog

One stream, its handlers and the recorder's writer. Every look at the stream is
one action, as it is under the lock; the clock is read in a step before
(`ReadClock`), so that `lag` is the time from there to the lock and a thread may
find a stamp later than its own time. Stamps are kept as ages, `Horizon` for any
greater one, so time goes on for ever in a finite model and the liveness
property is about real time. `Counted` stops at `MinReceived`, the value that is tested.
`LongAgo` is the unsigned difference of the code: a negative one is very long.
`request` is the stamp the code stores, `asked` a history of when the
limit really let a request through: the properties speak of `asked`.
`delta` is `frames_received - watchdog_last_received`. `WorkerPort` is the result
of reading `ML_WORKER_CTRL_MAP` and its file once.

### Decoder

`init[s].at` is where `stream_init_decoder`, or `decoder_decode`, is in stream
s, under the stream's lock; streams run side by side. `AttemptedBackends`,
`InitVaapi` and `NoShare` are the fall-backs; a decoder on the CPU is what
`decoder_init` makes of one whose device is not to be had.
`AcquireCuda`, `NoCudaYet`, `MakeCuda` and `InstallCuda` are
`acquire_shared_cuda_device` with its creation outside the lock. `devRefs` and
`stats` are the reference counts of AVBufferRef and of `DecoderTransferStats`;
numbers are used again as soon as nothing refers to them. References to a device
inside FFmpeg's own objects (`hw_device_ctx` of the codec context, frames) are not
counted: FFmpeg drops them with these objects. Of FFmpeg the model
keeps that a packet gives one picture, in order and perhaps later, and that a
codec which is full takes a packet when a picture was drained from it, which is
lost. A reader is a
thread of the bridge that holds a picture without the lock.

### H264Tap

Slots with `fd`, stream id, `out` buffer and `needIdr`; the publishers are
handler threads of the server. A publication is one action, as it runs under the
tap's lock: it flushes what is left of each subscriber's last unit, then offers
the new one. A unit is a sequence of chunks and a socket takes what it has room
for (`Room`). Whether a subscriber has been stalled for longer than the limit is
a free choice at each publication. `accept_loop` and `h264_tap_start` are
separate steps with their early returns. The parsing of the `SUB` line, the NAL
scan and allocation failures are left out.

### ZmqBridge

`memory` is the set of picture buffers with their reference counts and `NewBuffer` is
`malloc`; a buffer that is freed too early is handed out again. Holders are
`cache`, the picture in the bridge thread's hand (`bridge.frame`) and the messages in `pipe`, whose references
libzmq's I/O thread gives back at its own time (`MessageDone`). The bridge thread's
`at` goes from `recv` over `look` (snapshot and cache look-up under the stream's
lock), `convert`, the retries in `wait`, `crop` and `send`. The request is what the
parser made of the JSON; stream ids keep the cast to 16 bits (`Uint16`). The
deadline is an event (`DeadlinePasses`) that may come at any time. The
handlers' side is `stream[s]` with the four functions of `stream.c` that touch
it, in any order the code's guards allow.

`zmq_bridge_shutdown` reads `arg->zmq_ctx`, and `zmq_bridge_start` waits on a
mutex in `arg`, although the thread frees `arg` by itself when it sees the
running flag cleared; there the model's process may die (`crashed`).

Left out: the JSON parser, region arithmetic, conversion of pixels, the
endpoints and their files.

### AgentTap

The accept thread (`acceptor`) takes a viewer through accept, the handshake of
one or two lines with its deadline, the look for a slot and the request for an
IDR. The ingest thread goes through the slots with the lock held, one slot's
step after another (`ingest.i`), since sockets of viewers may fail in between. A
slot's `buf` holds the numbers of the units that are to be sent, the cached
parameter sets in front; `begun` says that the first has gone in part.
`needIdr`, `pendingIdr` and `params` are the code's fields; the two allocations of
`copy_global_param_sets_to_client` are taken to succeed. Whether a buffer has
waited too long is a free choice, as for the tap of stream_server.

The parameter sets the agent keeps are whole packets, by their first NAL: a
worker puts SPS, PPS and the IDR into one packet, and the sets are kept before
the buffer is filled, so what is sent in front of such an IDR in a recovery is
that IDR itself, once more. `copy` marks the units sent for parameter sets, and
`InOrder` is strict for the others.

### ControlPath

A connection is a queue of lines and frames of which the last may have come in
part: fewer than 4 bytes of it ("few"), more ("most"), or all. The agent's
thread of a connection is `conn[c].at`: authentication, the look at 4 bytes
that finds out about a SUB line, the line, the frames. Each frame becomes a
datagram that may be lost. A controller presses and releases a button of its
own in turn, or clicks another; `held` is what the host takes for pressed, and
`lost` marks controllers of whom something was lost, refused or closed with
data unread. Since a button is down or up, and not counted, traffic has no end in a finite
model.

`main` is the worker's main thread from `wait_for_host_online` to the exit code.
Code 3 stands for 3 to 5, and `Terminated` for every fatal code but the
mismatch, 108.

### Session and Worker

`Worker` has three threads, each with a program counter: **main** (setup, main
loop, `LiStopConnection`, exit), **video** (the decode callback, from the test of
the sender over reconnect, START, VIDEO to the heartbeat) and **term** (the
termination callback, which stores a fatal code). `sock` is the sender's
descriptor, `wire` is what was sent on every connection so far. A send puts a
whole packet on the wire or a torn one; a connect may fail for any reason,
timeout included. The setup may find another format than was asked for, or no
memory for the sender (fatal codes for a mismatch and for the connect), or never
be called since `LiStartConnection` failed. The clock is in ticks, and the two intervals of the code
(`ReconnectInterval`, `HeartbeatInterval`) are constants. The termination
callback runs at most once, and only before the connection is stopped. Where
the termination thread and main race for the sender pointer the process may
die (`crashed`).

`SessionOf` maps each connection of the worker to `Session`: `SessionRefined`
says every step of the worker is, for every connection, a step of the abstract
session or none. This is the interface that `StreamServer` assumes of its
workers.

Left out: pairing, option parsing, allocation failures in
`tcp_sender_send_start`; the start of the application, the control socket and the sleep
before an exit with code 108 are in `ControlPath`.

## 3. The runs

The type invariant of a module is a property of its own, or the first conjunct
of another one (`DescriptorsAccounted` of both taps, `ReferencesExact` of bridge
and decoder, `HeldMatches`); that of `Worker` is a theorem.

| Run | Question | Bounds | Result |
|---|---|---|---|
| `recorder` | types; `QueueAccounting` (the byte count is the running total of the queue); `SegmentsPlayable` (a renamed segment starts with parameter sets and a key frame, has whole packets of one session in order, and breaks off only if its `fclose` failed); `CleanStop`; `NothingSkipped` (a packet is dropped only while the stream waits for a key frame); `IdrSpaced` (as long as a stream's events come in the order of their stamps); `StopCompletes` (liveness: a stop drains the queue and ends) | 1 stream, 4 events with any stamps, 2 ticks, periodic requests every tick, backlog 2, 1 fault of any kind | holds |
| `server` | types; `StreamsOutliveHandlers`; `SessionState` (between sessions stream, decoder and recorder agree) | 2 workers, 2 ids of which 1 is valid, 3 packets each, 1 fault | holds |
| `server_clients` | `ClientsAccounted`, `DescriptorsClosedOnce`, `ClientsReaped` (liveness) | 2 workers for 1 place, 2 packets each | holds |
| `tap` | `DescriptorsAccounted`; `ResumesAtIdr`; `InOrder` | 2 subscribers, 1 slot, 4 units, room for 3 chunks | holds |
| `tap_slot` | `OnlyOwnStream` | 2 streams, 1 slot | **violated** |
| `worker` | `OneDescriptor`; `OutageIsNotFatal`; `SessionRefined`; `RetriesSpaced`; `FatalEndsWorker` (liveness) | 2 connections, 2 frames, 5 ticks, both intervals 2 | holds |
| `bridge` | `ReferencesExact`; `AnswersCurrent` (an answer is the frame the stream had while the request was worked on, streams outlive the bridge); `RequestsEnd` (liveness) | 1 client with 1 reply in flight, 1 stream, 2 decoders of 2 frames, 2 colour spaces, 2 buffers, 4 kinds of request | holds |
| `agent_tap` | `DescriptorsAccounted`; `Playable` (a viewer has the current parameter sets, starts and resumes at an IDR, gets units in order); `RecoveryEnds`; `ViewersAnswered` (liveness) | 2 viewers for 1 slot, 4 ways to shake hands, 3 units | holds |
| `decoder` | `DeviceShared`; `ReferencesExact` (devices and statistics); `NewestShown` | 2 streams, 1 reader, 2 back ends asked for, 2 packets per decoder, 1 fault | holds |
| `decoder_rescue` | `NvidiaRescues` | as `decoder` | **violated** |
| `watchdog` | types (an unsigned counter never wraps); `StartAsked`; `RequestsSpaced` (in real time); `StallIsReal`; `StallAnswered` (liveness) | 1 handler and the writer, rate limit 3 ticks, other intervals 2 to 4, 5 ages, lag 1, 2 pictures | holds |
| `control` | `HeldMatches` (a button on the host is as its controller left it); `ExitTells` (the exit code says why); `AuthAnswered`, `WorkerEnds` (liveness) | 2 controllers, 1 of which may fall silent, 2 lines or frames under way each, 1 datagram in the socket | holds |

Why the bounds are enough to be of interest. In the recorder four events are a
session with a rollover, or a START, a frame, STOP and the next START, and one
fault may hit each of the file operations of each of them; two ticks with all intervals
1 let each timer expire and let handlers overtake one another; more faults only repeat a branch
that returns to the states it came from. In the server two workers
are enough for one to be replaced, refused, or to be in the list while the
other is being closed; the code compares a client only with "the others". In the tap two subscribers for one slot give every
reuse of a slot, and three chunks of room with units of two let a unit be cut
in the middle. In the bridge two buffers let
the cache and a reply hold different pictures or the same one, and memory run
out; two decoders repeat a time stamp. In the worker two connections give a reconnect, and five ticks
with intervals of two let each timer expire twice. In the agent's tap three
units are a join, a unit that stalls and the IDR that ends the recovery, and two
viewers for one slot give refusal, pruning and reuse. Two streams are enough to
race for the CUDA device, as the code knows only "the device" and "mine". The watchdog has
no bound on time or on packets: its ages and counters stop at the greatest value
the code distinguishes, and one writer beside one handler is enough for each
race between a clock and a lock; the proofs are for any number of handlers. In
`control` traffic is not bounded, only what is under way; two lines or frames on a
connection are all the code looks at.
The proofs of section 5 have no bounds.

What the violated runs show (the quoted documents are under `findings` in
`PROJECT.json`):

* `tap_slot`: a slot closed in the middle of a publication keeps the unit in its
  buffer, for the next subscriber that gets the slot.
* `decoder_rescue`: a decoder for VA-API that gets no device turns itself into
  one for the CPU and reports success, so that NVIDIA is never tried.

All runs but `watchdog` say `CHECK_DEADLOCK FALSE`: a server that has stopped, a
worker that has exited and an instance whose bounds are used up have no next
step.

### What else the models show

The models follow the code, and so they have behaviours of which no property
claims the contrary. Those met while modelling:

* Recorder: a rename that fails at a rollover clears `nfs_mounted`, but the next
  segment is opened all the same; the next packet puts the stream into waiting
  with its file open, and the segment after it overwrites the pointer
  (`compressed_recorder.c:674`). A failing `fclose` is logged and the file, torn
  perhaps in the middle of a packet, renamed as if
  complete (lines 529-535); two segments begun in the same second share a name.
  The handlers read their clocks before they take the queue's lock (1121-1144
  against 1082). If one handler of a stream overtakes another, the older
  stamp comes behind the newer one, the unsigned difference of line 584 wraps and
  the request passes without a gap.
* Server: a handler that runs for the first time after `server_stop` closed its
  descriptor returns without unlinking its client, for which `server_stop` then
  waits 6 seconds (`server.c:615`); behind that wait it goes on although
  handlers live. An error of `accept`, as for
  want of descriptors, ends the accept thread for good while the server runs on
  (`server.c:715`). A STREAM_STOP read late from a connection that has
  been replaced ends the session of its successor (`server.c:584`). A decoder
  survives a broken connection and is used for the next session of the id,
  whatever codec that one announces (`stream.c:369`). Two handlers that start
  the tap together leave it marked as started and not running (`server.c:425`).
* Watchdogs: the clock is read before the lock, so that a thread which is
  overtaken sees a huge unsigned difference: it makes one request too many and puts the stamp
  back. A request whose datagram fails or is lost uses up the interval. `frames_received` is
  not set back by a session, so the first packet of the second one already makes
  the no-decode watchdog look. Stamp and count of a stall are raised for
  requests that the limit refuses. A stall may be reported falsely when a new
  decoder has given as many pictures as the one before.
* Agent's tap: in a recovery the cached "SPS" is a whole IDR access unit, so a
  viewer gets the same IDR twice; units that come while a buffer waits for less than the
  limit are skipped without a recovery; no IDR is asked for after a stall; a
  viewer that has gone but left bytes unread is not pruned; as in
  `tap_slot`, a slot closed during a publication keeps its buffer. The ingest
  thread serves one worker at a time, without a timeout.
* Control path: a SUB line is found only if its first 4 bytes come at once,
  while the comment in `main.c:55` is content with one byte; otherwise the line
  is read as a frame of an impossible length and the connection closed. An incomplete AUTH line is looked at again
  and again without pause or limit. Nothing releases the buttons of a
  controller that leaves. A signal that comes after a fatal code may lead to exit
  code 0.

## 4. Fairness

* `recorder`: weak fairness of the writer thread. It is blocked only by an
  empty queue, on a condition variable that both the callbacks and the stop
  signal under the mutex; that no wakeup is lost is assumed here, so `StopCompletes` is
  about the writer's loop and its file work. A file operation that never returns (a hung hard NFS mount) is outside
  the model.
* `server_clients`: weak fairness of each step of the accept thread behind
  `accept`, and of each handler. A handler in `recv` returns after at most 5
  seconds because the code sets `SO_RCVTIMEO`, which is why a silent worker does
  not hold its place for ever. No fairness of the workers.
* `bridge`: weak fairness of the bridge thread and of the deadline, as the
  monotonic clock goes on. None of the clients, nor of the I/O thread. `RequestsEnd` excepts requests
  with a negative timeout, for which the code waits without limit.
* `worker`: weak fairness of main, of the termination thread, and of the video thread once it
  is in a callback: sockets have send timeouts, connects have a timeout, and the main loop polls. Frames, the
  termination by the host and the signal are never assumed to come.
* `agent_tap`: weak fairness of the accept thread and of a publication. The
  handshake has a deadline of three seconds, sockets of viewers do not block, and the lock is held
  only for one publication. None of workers and viewers.
* `watchdog`: weak fairness of time and of the threads inside a call. That
  packets arrive is an assumption of `StallAnswered` itself, and so is that the
  stream has a decoder and no pictures.
* `control`: weak fairness of the worker's main thread, which sleeps for bounded
  times, and of each of the agent's threads for steps that do not wait for the
  peer. It makes a host come up in the end, which no property needs. `WorkerEnds` assumes that
  the socket runs empty for good in the end, since the code reads as long as there are commands.

No strong fairness is used.

## 5. What is proved

| Theorem | Module | Statement |
|---|---|---|
| `RecorderTyped` | `CompressedRecorderProofs` | `Spec => []TypeOK` |
| `RecorderHasFile` | `CompressedRecorderProofs` | whenever the writer is at a step that writes, its segment has an open file |
| `RecorderSkipsNothing` | `CompressedRecorderProofs` | `Spec => NothingSkipped` |
| `RecorderAccounts` | `CompressedRecorderProofs` | `Spec => []QueueAccounting` |
| `RecorderPlayable` | `CompressedRecorderProofs` | `Spec => []SegmentsPlayable` |
| `RecorderIdrSpaced` | `CompressedRecorderProofs` | `Spec => IdrSpaced` |
| `RecorderStopsClean` | `CompressedRecorderProofs` | `Spec => []CleanStop` |
| `ServerTyped` | `StreamServerProofs` | `Spec => []TypeOK` |
| `ServerCountsClients` | `StreamServerProofs` | `Spec => []ClientsAccounted` |
| `ServerClosesOnce` | `StreamServerProofs` | `Spec => []DescriptorsClosedOnce` |
| `ServerStopsHandlers` | `StreamServerProofs` | `Spec => []StreamsOutliveHandlers` |
| `ServerKeepsSessions` | `StreamServerProofs` | `Spec => []SessionState` |
| `WorkerTyped` | `WorkerProofs` | `Spec => []TypeOK` |
| `WorkerOneDescriptor` | `WorkerProofs` | `Spec => []OneDescriptor` |
| `WorkerSurvivesOutage` | `WorkerProofs` | `Spec => []OutageIsNotFatal` |
| `WorkerSpacesRetries` | `WorkerProofs` | `Spec => RetriesSpaced` |
| `WorkerKeepsSession` | `WorkerProofs` | `Spec => SessionRefined`: the refinement, for any number of connections |
| `SharedExactly` | `DecoderProofs` | `Spec => []DeviceShared` |
| `ReferencesCounted` | `DecoderProofs` | `Spec => []ReferencesExact`, with the types |
| `ShowsNewest` | `DecoderProofs` | `Spec => []NewestShown` |
| `BridgeReferences` | `ZmqBridgeProofs` | `Spec => []ReferencesExact`, with the types |
| `BridgeAnswers` | `ZmqBridgeProofs` | `Spec => []AnswersCurrent` |
| `AgentDescriptors` | `AgentTapProofs` | `Spec => []DescriptorsAccounted`, with the types |
| `AgentPlayable` | `AgentTapProofs` | `Spec => []Playable` |
| `AgentRecovers` | `AgentTapProofs` | `Spec => []RecoveryEnds` |
| `WatchdogTyped` | `HandlerProofs` | `Spec => []TypeOK` |
| `StartsAreAsked` | `HandlerProofs` | `Spec => []StartAsked` |
| `RequestsAreSpaced` | `HandlerProofs` | `Spec => RequestsSpaced` |
| `StallsAreReal` | `HandlerProofs` | `Spec => StallIsReal` |
| `TapDescriptors` | `HandlerProofs` | `TapSpec /\ []OneStarter => []DescriptorsAccounted`, with the types |
| `TapResumes` | `HandlerProofs` | `TapSpec /\ []OneStarter => []ResumesAtIdr` |
| `TapKeepsOrder` | `HandlerProofs` | `IdrsWithSets => (TapSpec /\ []OneStarter => []InOrder)` |
| `ExitCodeTells` | `ControlProofs` | `Spec => []ExitTells` |
| `CommandsTakeEffect` | `ControlProofs` | `Spec => []HeldMatches`, with the types |

Assumptions: the named `ASSUME`s of the modules, which only give the constants
their types, and two things more: for the watchdog, that an age is told apart as
long as it is compared with an interval; for the recorder, that no step of the
backoff is shorter than the least gap between two requests, as in the code's table
(TLC evaluates them in every run).

**Recorder.** `Inv == TypeOK /\ WriterInv`. The types are not inductive alone:
most steps of the writer refer to the event in hand and to the file of the
segment. `WriterInv` says which `pc` has an event in hand and of what type, and
that the writing steps come with a file that is open. One lemma per action shows
that it preserves `Inv`; the lemmas about `SetStream`, `PacketCounted` and the
operators of `RecorderIdr` are stated once. `NothingSkipped` is then an action
property that follows from `Inv` and the actions.
The other four properties each have an invariant on top of `Inv`:

* `Accounted` for `QueueAccounting`. A sum over a sequence would need induction
  over data, so the property says that there is a running total which nowhere
  exceeds the limit. What the writer takes from the front is subtracted from every
  later total, which stays a total only because totals never fall: that is the
  part added.
* `PlayInv` for `SegmentsPlayable`. What a segment will hold is decided when its
  packets are queued. `QueueOrder` numbers what is pending, in the queue and in the
  writer's hand; `SessionOrder` says that between pending events of two sessions of
  a stream there is a STREAM_START, which closes the segment; `OpenFile` says that an open
  file is playable so far, bears its stream's codec and is older than everything
  pending (`Continues`), but for the steps in which its head or a torn packet is
  dealt with, and holds at least a key frame when it is closed; a file cut by its `fclose`
  is a prefix of such a one, its last piece torn perhaps (`CutPlayable`); `ParamsCached` that a segment is begun with a key frame and all sets.
* `IdrsPast` for `IdrSpaced`: while a stream's events came in the order of their
  stamps (`order`), no request is younger than a pending event, and those pending
  are in order. The
  schedule subtracts the time of a request from the event's, unsigned; without it
  the difference could wrap and two requests pile up. The gap between two
  requests is then that of `IdrRecent` and of the backoff's steps.
* `CleanInv` for `CleanStop`: as long as nothing has gone wrong, every `.tmp` file
  with content is the file of its stream, its packets are those counted, and the
  mount is as the writer believes.

**Server.** `IInv` is `TypeOK` with five parts. `PeerInv`: a worker that has
connected has a stream id and a codec. `AcceptInv`: the connection in the accept
thread's hand has no handler and its descriptor is open; between the test of the
limit and the insertion it is not in the list and there is room for it.
`ListInv`: a handler that works is in the list, and the count is the list's
length. `FdInv`: a descriptor was closed once exactly if it is closed, and if it
is open, the list, a handler at its end or the accept thread will close it.
`StopInv`: behind its join the accept thread is gone, behind the orderly wait
the list is empty. None of the three properties is inductive alone: the code takes the lock twice
for each connection, and only `AcceptInv` says that handlers cannot fill the
list, nor close the descriptor, in between. The path on which `server_stop`
loses patience after 6 seconds (`rash exit`) is in the model; nothing is claimed
behind it.
`SessionState` speaks of moments without a packet in hand; `SessionInv` of those
in between. As long as its sessions follow one another, a stream is in the hand of
one handler at most, and `Under` says for each step of a packet which of
stream, decoder and recorder it has brought up to date.

**Worker.** `IInv` is the conjunction of `TypeOK`, `ThreadsInv` (where the threads can
be at the same time: no video thread during the setup nor behind its join, no
descriptor before a connect), `SockInv` (the descriptor the sender knows is the
one that is open), `WireInv` (a connection just made carries nothing yet; one the
sender holds to be connected carried one START, no STOP and nothing torn) and
`ReportInv` (what made the video thread report). Without `SockInv` and `WireInv`
the types would allow a second START, or a frame behind a torn one. The
refinement is proved by showing that every action changes at most one
connection, and that one as a step of `Session`. `RetryInv` carries the interval
from a failed attempt to the next: until then the sender stays broken and the time
of the failure stored.

**Decoder.** `SharingInv` is `DeviceShared` with the types of what it is about and three facts
about the way to a decoder: there is an attempt left while one is made
(`TriesLeft`), a decoder shares the device only from `avcodec_open2` on
(`SharedWhenOpen`), so that no step before it can overwrite one that is counted,
and the device a thread has made is one (`MadeWhenInstalled`). `DeviceShared` is
a statement about a cardinality; lemmas say what joining and leaving do to the
set of those that share, with the theorems about finite sets of the library.
`ReferencesInv` counts references. `Sound` says for each stage of a stream how its decoder,
the picture it holds back and the one it shows go together: pictures are of the
decoder there is, and without a decoder there are none. Each action is then put as an
`Effect`, the values it leaves in these places and the references it takes and
gives back, so that the counts are proved once for all actions. `NewestShown` follows
from the same `Sound`.

**Bridge.** `BridgeInv`. A count equals its holders (`Exact`) only with what the
bridge thread has in hand at each stage of a request (`InHand`: its free place in a
pipe is free still when the reply is sent) and with the fact that a buffer without
holders holds no picture. `Decoders` says that a cached picture is never of a
later decoder than the stream's frame, so an answer can only be taken for one of
an earlier decoder, as `AnswersCurrent` allows; `Order` that the streams are destroyed
when there is no thread. That a picture in hand cannot be freed under it follows.

**Agent's tap.** `TapInv` has the types and the descriptors: one is open exactly as long
as it is in one slot or in the accept thread's hand (`Descriptors`), which needs
what the two threads rely on from one step to the next (`Stages`) and
that everything kept of units are numbers of units (`Numbered`).
`SendInv` sets the buffer of each slot against what its viewer was sent.
`ContentInv` says that a buffer is either `Inherited` (a slot was closed in the
middle of a publication and its next viewer found the unit) or younger than all
that was sent before it and, in a recovery, made of parameter sets and an IDR
(`Recovering`); and that a viewer who is not waiting can decode what comes next
(`Follows`). `Reached` is the last unit that may have come to a slot, as a
publication goes through the slots one by one, and `ParamsInv` accounts in the same
way for the parameter sets, which the stream has before its slots do. `SentWell`
has the property's own parts about what was sent, `Fresh` says that a viewer without a slot
was sent nothing.

**Watchdogs.** `IInv == TypeOK /\ StartAsked /\ HaltInv /\ SpacingInv`. `SpacingInv`
ties the stored stamp to the real history: there is a stamp exactly if a
request of the session was let through, and it is as old as that
request, at most the lag older. `RequestsSpaced`, which is about
real time, follows from it and the limit's comparison; a limit that forgot the stamp,
or stored it elsewhere, would break it. `HaltInv` says of the
watchdog's stored count of pictures and its stored time that, while the decoder
is the one it has looked at, the count is not ahead of the decoder's, and when
they agree the last picture is no younger than the stored time, less the lag,
and every packet counted came behind it. `StallIsReal` had first been stated
without the lag: TLC found with two handlers that a thread which reads the
clock, is overtaken by a picture and then looks stores a time older than that
picture.

**Tap of stream_server.** The three theorems are about behaviours in which no two
handlers start the tap at the same time (`OneStarter`). The code does not exclude
that two do (section 3), and then `h264_tap_start` clears a table that may have subscribers, whose
descriptors are lost: no property holds behind it. With one handler, as in the run
`tap`, the condition holds of itself (`OneHandlerStarts`); with several it does
unless their first packets meet.
`TapIInv == TapInv /\ SentWell`. `TapInv` has the types, what is true around the
start (`TapStartInv`: as long as there is no accept thread no slot is in use, and once
there is one, a handler is about to say so or has said so, so that no other
starts again), and `Descriptors`. `SentWell` is about the contents. What a
subscriber was sent and what waits in its slot are one sequence (`Sound`): flushing
only moves the border between them, and giving up a buffer cuts it off behind what
was sent. `Fit` says what this sequence must be: units up to the last one published
(`UpTo`), `Joined` and `Ordered` as the properties have it and, unless the slot
waits for an IDR, `Settled`, which is the part added: every torn unit is
followed by a picture already, so the next picture need not be an IDR. A new unit may
then go behind a settled sequence, or behind any if all its pictures, with
those of the cached parameter sets in front (`Sets`), are of an IDR. A slot that was closed
in the middle of a publication keeps an `out` buffer, which its next subscriber
finds; so `Sound` says of a free slot that it is the cleared one but for `out`,
and of this that it can be sent first.
`IdrsWithSets`, that a packet with an IDR begins with the SPS, is needed only for
`InOrder`: `maybe_cache_param_sets` keeps the whole packet, so a PPS packet that held an IDR
would be repeated behind a younger one. Moonlight hands an IDR out as one decode
unit of SPS, PPS and picture, and the worker's `video_callbacks.c` sends a decode
unit as one packet.

**Control path.** `ExitInv` follows the worker's main thread: no code before
it leaves the loop or returns, a mismatch only where the exit is put off.
`HeldInv` carries `HeldMatches` through everything that is under way (`Ordered`):
the last command for the own button that is still on a controller's connection
says how the controller holds it; if there is none, the last one in the
worker's socket does; and if there is none either, the host does. `Shape` says of the
lines in front of the frames that an AUTH line is first and that a line taken
for a SUB line is one, so that no command is thrown away with them. The lemmas
about the sequences (`InTail`, `QueueAppend` and others) are stated once, and one lemma
(`OneController`) reduces a step of one connection to that connection.

**Model-checked only.** Liveness (`StopCompletes`, `ClientsReaped`,
`FatalEndsWorker`, `RequestsEnd`, `ViewersAnswered`, `StallAnswered`,
`AuthAnswered`, `WorkerEnds`), since fairness and ENABLED are out of the prover's reach.
Every safety property of a run that holds is a theorem.

## 6. Plan

Done: recorder, server, tap, session and worker, bridge; watchdogs, decoders,
the agent's tap, and the control path with the worker's main thread. What is left,
in this order:

1. A `Pipeline` of `Worker`'s heartbeats and reconnects against the receive
   timeout of `StreamServer`, with both clocks.
2. The Python gateways' queues and the web bridge's child processes, as far as
   they have state of their own.

## 7. Not modelled, and why

* Inside `decoder.c`: what FFmpeg does in a call, the choice of pixel formats
  and the conversion of pixels, `sws_getCachedContext` among it: pure functions
  of the data, half of the file.
* `start_stress_test` of `stream.c`, a debugging aid. (It holds `mgr->lock`
  when it calls a stop that takes the same lock, and stops without waiting for
  the handlers that are in it.)
* Byte layout of packets and of NAL units, `protocol.c`, `tlv_protocol.c`, option
  parsing: pure functions of bytes; the models
  keep what the control flow distinguishes (type, key frame, parameter sets).
  Texts of more than 2016 bytes, which the agent forwards and the worker cuts
  short and refuses, are one kind of loss in `ControlPath`.
* Agent clients and Python services, the web bridge, the operator scripts in
  `deploy`: programs around the same protocols, in the plan as far as they keep
  state.
* Third-party code, build files, assets.
* Worker: pairing, listing and quitting applications, run once by hand;
  `connection_callbacks.c:14` clears the pointer to the fatal code while the
  termination thread is between its test and its store, which in `Worker` ends
  in `crashed` and is claimed about by no property. Heartbeats are sent only
  along with frames, so a host that sends none for five seconds costs the worker its
  connection: the server's receive timeout closes it, and a later frame whose send
  fails is fatal (TCP_SEND): the worker ends, it does not connect again.

## Running

    tlc -workers 2 -config MCWorker.cfg MCWorker.tla
    tlapm WorkerProofs.tla

Each run takes between a few seconds and about two and a half minutes on two
cores; each proof module takes less than about seven minutes from nothing.
