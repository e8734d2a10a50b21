------------------------- MODULE CompressedRecorder -------------------------
(***************************************************************************)
(* The recorder of stream_server (compressed_recorder.c).  Handler threads *)
(* put STREAM_START, VIDEO and STREAM_STOP events into one bounded queue;  *)
(* a writer thread takes them out, cuts every stream into segments that    *)
(* start at a key frame, writes a segment to <name>.tmp and renames it to  *)
(* <name> when it is closed.  Every file operation may fail, the NFS mount *)
(* below the directory may go and come back, the wall clock may be stepped *)
(* and the process may crash; the files survive a crash.                   *)
(*                                                                         *)
(* The writer handles one event in several steps (pc), one per file        *)
(* operation, so that everything else may happen between two of them.      *)
(***************************************************************************)
EXTENDS RecorderIdr, Sequences, SequencesExt

CONSTANTS
  Streams,         (* The stream ids, within 1..max_streams.                 *)
  EnabledStreams,  (* enabled_streams: those the configuration records.      *)
  Codecs,          (* Codecs a STREAM_START names: 0 H264, 1 HEVC, or other. *)
  Payloads,        (* VIDEO payloads: the parameter sets and key frame they  *)
                   (* hold and their length.                                 *)
  QueueLimit,      (* queue_limit_bytes.                                     *)
  SegmentSpan,     (* segment_sec, in ticks.                                 *)
  MountCheck,      (* NFS_MOUNT_CHECK_INTERVAL_NS, in ticks.                 *)
  RequireNfs,      (* require_nfs_mount.                                     *)
  NoFile,          (* fp = NULL.                                             *)
  MaxEvents,       (* Bound: events the handlers produce.                    *)
  MaxTime,         (* Bound: ticks of the monotonic clock.                   *)
  MaxBacklog,      (* Bound: events that wait in the queue.                  *)
  UpsetKinds,      (* What may go wrong: "io" a file operation, "mount" the  *)
                   (* NFS mount, "clock" a step of the wall clock, "crash".  *)
  MaxUpsets        (* Bound: how often something goes wrong.                 *)

Supported == {0, 1}

(* A segment is named by its stream, the wall-clock second it was opened   *)
(* in and its codec (format_segment_paths).                                *)
Names == Streams \X (1 .. MaxTime) \X Supported

ASSUME RecorderAssumption ==
  /\ Streams \subseteq 1 .. MaxStreams
  /\ EnabledStreams \subseteq Streams
  /\ Codecs \subseteq Nat
  /\ Payloads \subseteq [params : SUBSET (0 .. 2), key : BOOLEAN, len : Nat \ {0}]
  /\ QueueLimit \in Nat
  /\ SegmentSpan \in Nat \ {0}
  /\ MountCheck \in Nat
  /\ RequireNfs \in BOOLEAN
  /\ NoFile \notin Names
  /\ MaxEvents \in Nat /\ MaxTime \in Nat \ {0} /\ MaxBacklog \in Nat /\ MaxUpsets \in Nat
  /\ UpsetKinds \subseteq {"io", "mount", "clock", "crash"}

VARIABLES
  queue,        (* The events between head and tail.                         *)
  queuedBytes,  (* queued_bytes.                                             *)
  phase,        (* "on", "stopping" (accepting and running cleared), "off".  *)
  stream,       (* streams[]: one RecorderStream per id.                     *)
  nfs,          (* nfs_mounted and last_mount_check_ns.                      *)
  pc, cur,      (* The writer: what it does next, and the event it handles.  *)
  tmp, final,   (* The files: bodies of <name>.tmp and of <name>.            *)
  leaked,       (* FILE objects no RecorderStream points to any more.        *)
  mounted,      (* Whether /proc/mounts lists an NFS mount for record_dir.   *)
  mono, wall,   (* The two clocks, in ticks.                                 *)
  readings,     (* What the clocks have shown since the process started: a   *)
                (* handler on its way to the queue has one of these.         *)
  order,        (* History: the newest time stamp among each stream's events *)
                (* since the process started, and whether they came into the *)
                (* queue in the order of their stamps.                       *)
  session,      (* History: the number of each stream's last STREAM_START.   *)
  made, upsets  (* Counters for the two bounds.                              *)

recVars   == <<queue, queuedBytes, phase, stream, nfs, pc, cur, leaked>>
fileVars  == <<tmp, final>>
envVars   == <<mounted, mono, wall, upsets>>
vars      == <<recVars, fileVars, envVars, readings, order, session, made>>

-----------------------------------------------------------------------------
(* Events, streams and files.                                              *)

Clocks  == [mono |-> mono, wall |-> wall]
NoOrder == [newest |-> 0, kept |-> TRUE]

Event(at, type, sid, codec, payload) ==
  [type |-> type, sid |-> sid, mono |-> at.mono, wall |-> at.wall, codec |-> codec,
   payload |-> payload, n |-> made + 1,
   session |-> IF type = "start" THEN made + 1 ELSE session[sid]]

NoPayload == [params |-> {}, key |-> FALSE, len |-> 0]
NoEvent   == [type |-> "none"]

(* A RecorderStream after memset.  "active" stands for active and enabled, *)
(* which are set and cleared together.                                     *)
ZeroStream ==
  [active |-> FALSE, codec |-> 0, waiting |-> FALSE, rollover |-> FALSE,
   fp |-> NoFile, startWall |-> 0, packets |-> 0, params |-> {}, idr |-> NoIdr]

Needed(codec) == IF codec = 1 THEN 0 .. 2 ELSE 0 .. 1

(* params_ready *)
ParamsReady(s) == s.codec \in Supported /\ Needed(s.codec) \subseteq s.params

ParamsChunk(s, e) == [kind |-> "params", codec |-> s.codec, sets |-> s.params,
                      key |-> FALSE, session |-> e.session, n |-> 0]
Packet(s, e) == [kind |-> "packet", codec |-> s.codec, sets |-> {},
                 key |-> e.payload.key, session |-> e.session, n |-> e.n]
Torn(s, e) == [Packet(s, e) EXCEPT !.kind = "torn"]

NoSegment == [state |-> "none", packets |-> 0, body |-> <<>>]

(* should_rollover *)
ShouldRollover(s, now) ==
  s.fp # NoFile /\ s.startWall # 0 /\ Elapsed(now, s.startWall, SegmentSpan)

Upset(kind) ==
  kind \in UpsetKinds /\ upsets < MaxUpsets /\ upsets' = upsets + 1

(* recorder_recheck_mount_after_error: the pause begins, whatever the      *)
(* mount table says.                                                       *)
AfterError(when) ==
  IF RequireNfs THEN [ok |-> FALSE, check |-> when] ELSE nfs

S == stream[cur.sid]
SetStream(s) == stream' = [stream EXCEPT ![cur.sid] = s]

(* What close_segment leaves of the stream's file state. *)
Closed(s) ==
  [s EXCEPT !.fp = NoFile, !.startWall = 0, !.packets = 0, !.idr = [@ EXCEPT !.next = 0]]

-----------------------------------------------------------------------------
(* The process starts: compressed_recorder_start on zeroed globals.        *)

Init ==
  /\ mounted \in BOOLEAN
  /\ mono = 1 /\ wall = 1
  /\ queue = <<>> /\ queuedBytes = 0
  /\ phase = "on"
  /\ stream = [sid \in Streams |-> ZeroStream]
  /\ nfs = [ok |-> ~RequireNfs \/ mounted, check |-> mono]
  /\ pc = "wait" /\ cur = NoEvent
  /\ leaked = 0
  /\ tmp = [f \in Names |-> <<>>]
  /\ final = [f \in Names |-> NoSegment]
  /\ readings = {Clocks}
  /\ order = [sid \in Streams |-> NoOrder]
  /\ session = [sid \in Streams |-> 0]
  /\ made = 0 /\ upsets = 0

Boot ==
  /\ queue' = <<>> /\ queuedBytes' = 0
  /\ phase' = "on"
  /\ stream' = [sid \in Streams |-> ZeroStream]
  /\ nfs' = [ok |-> ~RequireNfs \/ mounted, check |-> mono]
  /\ pc' = "wait" /\ cur' = NoEvent
  /\ leaked' = 0
  /\ readings' = {Clocks}
  /\ order' = [sid \in Streams |-> NoOrder]
  /\ UNCHANGED <<fileVars, mounted, mono, wall, session, made>>

-----------------------------------------------------------------------------
(* Handler threads: compressed_recorder_on_stream_start, _on_video and     *)
(* _on_stream_stop.  Each reads the clocks first; then it copies the       *)
(* packet, and only then enqueue_event takes the lock, so that the event   *)
(* of any other handler may overtake this one.  An event that comes when   *)
(* the recorder no longer accepts is freed: nothing changes.               *)

(* The history of the order in which stamps come into the queue. *)
Ordered(o, e) ==
  [newest |-> IF e.mono < o.newest THEN o.newest ELSE e.mono,
   kept   |-> o.kept /\ o.newest <= e.mono]

Enqueue(e) ==
  /\ phase = "on"
  /\ made < MaxEvents /\ made' = made + 1
  /\ Len(queue) < MaxBacklog
  /\ IF e.type = "video" /\ queuedBytes + e.payload.len > QueueLimit
     THEN UNCHANGED <<queue, queuedBytes, order>>
     ELSE /\ queue' = Append(queue, e)
          /\ queuedBytes' = queuedBytes + e.payload.len
          /\ order' = [order EXCEPT ![e.sid] = Ordered(@, e)]
  /\ UNCHANGED <<phase, stream, nfs, pc, cur, leaked, fileVars, envVars, readings>>

OnStreamStart(at, sid, codec) ==
  /\ Enqueue(Event(at, "start", sid, codec, NoPayload))
  /\ session' = [session EXCEPT ![sid] = made + 1]

OnVideo(at, sid, payload) ==
  Enqueue(Event(at, "video", sid, 0, payload)) /\ UNCHANGED session

OnStreamStop(at, sid) ==
  Enqueue(Event(at, "stop", sid, 0, NoPayload)) /\ UNCHANGED session

-----------------------------------------------------------------------------
(* The writer thread (recorder_thread_main).                               *)

(* Faulty: the bytes of a dequeued packet stay counted; a stopping writer *)
(* leaves its queue alone.                                                *)
DequeueKeepsBytes ==
  /\ pc = "wait" /\ queue # <<>>
  /\ cur' = Head(queue) /\ queue' = Tail(queue)
  /\ pc' = Head(queue).type
  /\ UNCHANGED <<queuedBytes, phase, stream, nfs, leaked, fileVars, envVars, readings, order,
                 session, made>>

DequeueWhileOn ==
  /\ phase = "on"
  /\ pc = "wait" /\ queue # <<>>
  /\ cur' = Head(queue) /\ queue' = Tail(queue)
  /\ queuedBytes' = queuedBytes - Head(queue).payload.len
  /\ pc' = Head(queue).type
  /\ UNCHANGED <<phase, stream, nfs, leaked, fileVars, envVars, readings, order,
                 session, made>>

Dequeue ==
  /\ pc = "wait" /\ queue # <<>>
  /\ cur' = Head(queue) /\ queue' = Tail(queue)
  /\ queuedBytes' = queuedBytes - Head(queue).payload.len
  /\ pc' = Head(queue).type
  /\ UNCHANGED <<phase, stream, nfs, leaked, fileVars, envVars, readings, order,
                 session, made>>

(* What a file may hold when it is cut at any byte.                         *)
CutShort(body) ==
  {SubSeq(body, 1, k) : k \in 0 .. Len(body)}
    \cup {[SubSeq(body, 1, k) EXCEPT ![k].kind = "torn"] : k \in DOMAIN body}

(* close_segment(finalize = true): fclose, then rename.  A failed fclose   *)
(* loses what stdio still buffered, and the file is renamed all the same.  *)
Finalize(sid) ==
  LET s == stream[sid]
      f == s.fp
      RenameTo(state, body) ==
        /\ final' = [final EXCEPT ![f] = [state |-> state, packets |-> s.packets, body |-> body]]
        /\ tmp' = [tmp EXCEPT ![f] = <<>>]
        /\ UNCHANGED nfs
  IN  /\ f # NoFile
      /\ stream' = [stream EXCEPT ![sid] = Closed(s)]
      /\ \/ RenameTo("whole", tmp[f]) /\ UNCHANGED upsets
         \/ /\ Upset("io")
            /\ \E body \in CutShort(tmp[f]) : RenameTo("cut", body)
         \/ /\ Upset("io")
            /\ nfs' = AfterError(mono)
            /\ UNCHANGED fileVars
      /\ UNCHANGED <<queue, queuedBytes, phase, pc, cur, leaked, mounted, mono, wall,
                     readings, order, session, made>>

FinalizeCurrent == pc \in {"start", "stop", "roll"} /\ Finalize(cur.sid)

WriterQuiet ==
  UNCHANGED <<queue, queuedBytes, phase, readings, order, session, made, mounted, mono, wall>>
NoFileWork  == UNCHANGED <<leaked, fileVars, upsets>>

(* The next step of the handler; after the last one the event is freed.    *)
(* Faulty: it is kept.                                                     *)
DoneKeepingEvent(next) == pc' = next /\ UNCHANGED cur
Done(next) == pc' = next /\ cur' = IF next = "wait" THEN NoEvent ELSE cur

(* process_stream_start, once the old segment is closed. *)
HandleStart ==
  /\ pc = "start" /\ S.fp = NoFile
  /\ LET records == cur.sid \in EnabledStreams /\ cur.codec \in Supported
     IN  SetStream([ZeroStream EXCEPT
           !.active = records, !.codec = cur.codec, !.waiting = TRUE,
           !.idr = IF records THEN ForceIdr(NoIdr, cur.mono) ELSE NoIdr])
  /\ Done("wait") /\ UNCHANGED nfs /\ WriterQuiet /\ NoFileWork

(* process_stream_stop, once the segment is closed. *)
HandleStop ==
  /\ pc = "stop" /\ S.fp = NoFile
  /\ SetStream(ZeroStream)
  /\ Done("wait") /\ UNCHANGED nfs /\ WriterQuiet /\ NoFileWork

-----------------------------------------------------------------------------
(* process_video, up to its first file operation.                          *)

(* analyze_payload: the stream with the payload's parameter sets cached. *)
Analyzed == [S EXCEPT !.params = @ \cup (cur.payload.params \cap Needed(S.codec))]

(* A segment may start with this payload.  Faulty: the parameter sets are   *)
(* not awaited.                                                            *)
StartableByKey == cur.payload.key
Startable == cur.payload.key /\ ParamsReady(Analyzed)

(* recorder_storage_available: after an error the mount table is read      *)
(* again only when the check interval has passed since.                    *)
NfsNow ==
  IF ~nfs.ok /\ Elapsed(cur.mono, nfs.check, MountCheck)
  THEN [ok |-> mounted, check |-> cur.mono] ELSE nfs

InVideo(s, next) ==
  /\ pc = "video"
  /\ SetStream(s) /\ nfs' = NfsNow /\ Done(next) /\ WriterQuiet /\ NoFileWork

IgnoreVideo ==
  /\ pc = "video" /\ ~S.active
  /\ Done("wait") /\ UNCHANGED <<stream, nfs>> /\ WriterQuiet /\ NoFileWork

(* recorder_skip_unmounted *)
SkipUnmounted ==
  /\ pc = "video" /\ S.active /\ ~NfsNow.ok
  /\ InVideo([Analyzed EXCEPT !.waiting = TRUE, !.rollover = FALSE], "wait")

AwaitKeyframe ==
  /\ pc = "video" /\ S.active /\ NfsNow.ok /\ S.waiting /\ ~Startable
  /\ InVideo([Analyzed EXCEPT !.idr = RequestIdr(@, cur.mono)], "wait")

BeginSegment ==
  /\ pc = "video" /\ S.active /\ NfsNow.ok /\ S.waiting /\ Startable
  /\ InVideo(Analyzed, "open")

(* The rollover test: a segment that becomes due asks for an IDR unless    *)
(* this payload can start the next one or a request is recent.             *)
RolloverChecked ==
  LET a == Analyzed IN
  IF a.rollover \/ ~ShouldRollover(a, cur.wall) THEN a
  ELSE [a EXCEPT !.rollover = TRUE,
                 !.idr = IF Startable \/ IdrRecent(@, cur.mono) THEN @
                         ELSE ForceIdr(@, cur.mono)]

WriteOrRoll ==
  /\ pc = "video" /\ S.active /\ NfsNow.ok /\ ~S.waiting
  /\ LET s == RolloverChecked IN
     \/ /\ s.rollover /\ Startable
        /\ InVideo(s, "roll")
     \/ /\ s.rollover /\ ~Startable
        /\ InVideo([s EXCEPT !.idr = RequestIdr(@, cur.mono)], "append")
     \/ /\ ~s.rollover
        /\ InVideo([s EXCEPT !.idr = IF s.fp = NoFile THEN @
                                     ELSE PeriodicIdr(@, cur.sid, cur.mono)], "append")

-----------------------------------------------------------------------------
(* The file operations of process_video.                                   *)

OpenName == <<cur.sid, cur.wall, S.codec>>
Opening == pc = "open" \/ (pc = "roll" /\ S.fp = NoFile)

(* open_segment.  fp is overwritten: a FILE it still pointed to is lost. *)
OpenSegment ==
  /\ Opening
  /\ SetStream([S EXCEPT !.fp = OpenName, !.startWall = cur.wall, !.packets = 0,
                         !.waiting = FALSE, !.rollover = FALSE,
                         !.idr = [@ EXCEPT !.next = NextPeriodic(cur.sid, cur.mono),
                                           !.count = 0]])
  /\ tmp' = [tmp EXCEPT ![OpenName] = <<>>]
  /\ leaked' = leaked + (IF S.fp = NoFile THEN 0 ELSE 1)
  /\ Done("head") /\ WriterQuiet /\ UNCHANGED <<nfs, final, upsets>>

(* After a failed open the stream waits for a key frame.  Faulty: a        *)
(* failed rollover does not see to that.                                   *)
NotOpenedForgotten(s) == s
NotOpened(s) == [s EXCEPT !.waiting = TRUE]

(* mkdir fails and leaves fp alone, or fopen fails and clears it. *)
OpenFails ==
  /\ Opening /\ Upset("io")
  /\ \/ SetStream(NotOpened(S)) /\ UNCHANGED leaked
     \/ /\ SetStream([NotOpened(S) EXCEPT !.fp = NoFile])
        /\ leaked' = leaked + (IF S.fp = NoFile THEN 0 ELSE 1)
  /\ nfs' = AfterError(cur.mono)
  /\ Done("wait") /\ WriterQuiet /\ UNCHANGED fileVars

(* write_param_sets and the first write_segment_packet. *)
WriteHead ==
  /\ pc = "head"
  /\ tmp' = [tmp EXCEPT ![S.fp] = @ \o <<ParamsChunk(S, cur), Packet(S, cur)>>]
  /\ SetStream([S EXCEPT !.packets = @ + 1])
  /\ Done("wait") /\ WriterQuiet /\ UNCHANGED <<nfs, final, leaked, upsets>>

(* Only a failed packet write looks at the mount again. *)
WriteHeadFails ==
  /\ pc = "head" /\ Upset("io")
  /\ tmp' = [tmp EXCEPT ![S.fp] = Append(@, Torn(S, cur))]
  /\ nfs' \in {nfs, AfterError(mono)}
  /\ Done("discard") /\ WriterQuiet /\ UNCHANGED <<stream, final, leaked>>

(* write_segment_packet into the open segment.  The code tests fp first; a *)
(* stream that records has a file (FileWhileRecording), so there is no     *)
(* step for the other outcome of that test.                                *)
AppendPacket ==
  /\ pc = "append" /\ S.fp # NoFile
  /\ tmp' = [tmp EXCEPT ![S.fp] = Append(@, Packet(S, cur))]
  /\ SetStream([S EXCEPT !.packets = @ + 1])
  /\ Done("wait") /\ WriterQuiet /\ UNCHANGED <<nfs, final, leaked, upsets>>

AppendFails ==
  /\ pc = "append" /\ S.fp # NoFile /\ Upset("io")
  /\ tmp' = [tmp EXCEPT ![S.fp] = Append(@, Torn(S, cur))]
  /\ nfs' = AfterError(mono)
  /\ Done("discardAsk") /\ WriterQuiet /\ UNCHANGED <<stream, final, leaked>>

(* close_segment(finalize = false) and what follows it; unlink may fail. *)
Discard ==
  /\ pc \in {"discard", "discardAsk"}
  /\ \/ tmp' = [tmp EXCEPT ![S.fp] = <<>>] /\ UNCHANGED upsets
     \/ Upset("io") /\ UNCHANGED tmp
  /\ SetStream([Closed(S) EXCEPT
       !.waiting = TRUE,
       !.idr = IF pc = "discardAsk" THEN ForceIdr(@, cur.mono) ELSE @])
  /\ Done("wait") /\ WriterQuiet /\ UNCHANGED <<nfs, final, leaked>>

-----------------------------------------------------------------------------
(* Shutdown: compressed_recorder_stop and the end of recorder_thread_main. *)

Stop ==
  /\ phase = "on" /\ phase' = "stopping"
  /\ UNCHANGED <<queue, queuedBytes, stream, nfs, pc, cur, leaked, fileVars, envVars,
                 readings, order, session, made>>

LeaveLoop ==
  /\ pc = "wait" /\ queue = <<>> /\ phase = "stopping"
  /\ pc' = "drain"
  /\ UNCHANGED <<queue, queuedBytes, phase, stream, nfs, cur, leaked, fileVars, envVars,
                 readings, order, session, made>>

(* The final loop over streams[], in order. *)
FinalizeAtExit ==
  /\ pc = "drain"
  /\ \E sid \in Streams :
       /\ \A t \in Streams : t < sid => stream[t].fp = NoFile
       /\ Finalize(sid)

(* The thread ends, compressed_recorder_stop joins it and clears            *)
(* g_recorder.  Faulty: the segments are not closed first.                 *)
JoinAtOnce ==
  /\ pc = "drain"
  /\ phase' = "off" /\ pc' = "off"
  /\ stream' = [sid \in Streams |-> ZeroStream]
  /\ UNCHANGED <<queue, queuedBytes, nfs, cur, leaked, fileVars, envVars, readings, order,
                 session, made>>

Join ==
  /\ pc = "drain" /\ \A sid \in Streams : stream[sid].fp = NoFile
  /\ phase' = "off" /\ pc' = "off"
  /\ stream' = [sid \in Streams |-> ZeroStream]
  /\ UNCHANGED <<queue, queuedBytes, nfs, cur, leaked, fileVars, envVars, readings, order,
                 session, made>>

(* The service manager starts the process again, after a stop or a crash. *)
Restart == phase = "off" /\ made < MaxEvents /\ Boot /\ UNCHANGED upsets
Crash   == phase # "off" /\ Upset("crash") /\ Boot

-----------------------------------------------------------------------------
(* The environment.                                                        *)

Tick ==
  /\ mono < MaxTime /\ wall < MaxTime
  /\ mono' = mono + 1 /\ wall' = wall + 1
  /\ readings' = readings \cup {Clocks'}
  /\ UNCHANGED <<recVars, fileVars, mounted, upsets, order, session, made>>

(* The wall clock is stepped. *)
StepWall ==
  /\ Upset("clock")
  /\ wall' \in 1 .. MaxTime \ {wall}
  /\ readings' = readings \cup {[mono |-> mono, wall |-> wall']}
  /\ UNCHANGED <<recVars, fileVars, mounted, mono, order, session, made>>

MountChange ==
  /\ RequireNfs /\ Upset("mount")
  /\ mounted' = ~mounted
  /\ UNCHANGED <<recVars, fileVars, mono, wall, readings, order, session, made>>

-----------------------------------------------------------------------------
Video == IgnoreVideo \/ SkipUnmounted \/ AwaitKeyframe \/ BeginSegment \/ WriteOrRoll

FileWork ==
  \/ OpenSegment \/ OpenFails \/ WriteHead \/ WriteHeadFails
  \/ AppendPacket \/ AppendFails \/ Discard

Writer ==
  \/ Dequeue \/ FinalizeCurrent \/ HandleStart \/ HandleStop
  \/ Video \/ FileWork
  \/ LeaveLoop \/ FinalizeAtExit \/ Join

Handlers ==
  \E at \in readings, sid \in Streams :
    \/ \E codec \in Codecs : OnStreamStart(at, sid, codec)
    \/ \E payload \in Payloads : OnVideo(at, sid, payload)
    \/ OnStreamStop(at, sid)

Environment == Tick \/ StepWall \/ MountChange \/ Crash \/ Restart

Next == Writer \/ Handlers \/ Stop \/ Environment

(* The writer thread is never blocked by anything but an empty queue. *)
Spec == Init /\ [][Next]_vars /\ WF_vars(Writer)

-----------------------------------------------------------------------------
(* Properties.                                                             *)

Seconds == 1 .. MaxTime
Chunks == [kind : {"params", "packet", "torn"}, codec : Nat, sets : SUBSET (0 .. 2),
           key : BOOLEAN, session : Nat, n : Nat]
Events == [type : {"start", "video", "stop"}, sid : Streams, mono : Seconds,
           wall : Seconds, codec : Nat, payload : Payloads \cup {NoPayload},
           n : Nat, session : Nat]
Stamps == [mono : Seconds, wall : Seconds]
Orders == [newest : Nat, kept : BOOLEAN]
Segments == [state : {"none", "whole", "cut"}, packets : Nat, body : Seq(Chunks)]
RecorderStreams ==
  [active : BOOLEAN, codec : Nat, waiting : BOOLEAN, rollover : BOOLEAN,
   fp : Names \cup {NoFile}, startWall : Nat, packets : Nat,
   params : SUBSET (0 .. 2), idr : Idrs]

(* The type invariant: in particular the writer handles an event in every  *)
(* step of a handler and in no other.                                      *)
TypeOK ==
  /\ queue \in Seq(Events) /\ queuedBytes \in Int
  /\ phase \in {"on", "stopping", "off"}
  /\ stream \in [Streams -> RecorderStreams]
  /\ nfs \in [ok : BOOLEAN, check : Seconds]
  /\ \/ pc \in {"wait", "drain", "off"} /\ cur = NoEvent
     \/ pc \in {"start", "stop"} /\ cur \in Events
     \/ /\ pc \in {"video", "open", "roll", "head", "append", "discard", "discardAsk"}
        /\ cur \in Events
  /\ leaked \in Nat
  /\ tmp \in [Names -> Seq(Chunks)]
  /\ final \in [Names -> Segments]
  /\ mounted \in BOOLEAN /\ mono \in Seconds /\ wall \in Seconds
  /\ readings \subseteq Stamps
  /\ order \in [Streams -> Orders]
  /\ session \in [Streams -> Nat] /\ made \in Nat /\ upsets \in Nat

(* The queue's byte count, kept apart from the list and adjusted by two    *)
(* threads (enqueue_event, recorder_thread_main), is the running total of  *)
(* the packets in the list, which nowhere exceeds the limit.               *)
RunningTotal(total) ==
  total[0] = 0 /\ \A i \in DOMAIN queue : total[i] = total[i - 1] + queue[i].payload.len

QueueAccounting ==
  \E total \in [0 .. Len(queue) -> 0 .. QueueLimit] :
    RunningTotal(total) /\ queuedBytes = total[Len(queue)]

(* How a body that can be played begins: the parameter sets, a key frame,  *)
(* then packets of the same stream session and codec in their order.       *)
Begun(body, codec) ==
  /\ \A i \in DOMAIN body :
       /\ body[i].kind = (IF i = 1 THEN "params" ELSE "packet")
       /\ i = 1 => body[i].sets = Needed(codec)
       /\ body[i].codec = codec
       /\ body[i].session = body[1].session
  /\ Len(body) >= 2 => body[2].key
  /\ \A i, j \in DOMAIN body : 1 < i /\ i < j => body[i].n < body[j].n

Playable(body, codec) == Begun(body, codec) /\ Len(body) >= 2

(* The same, cut off somewhere: its last piece may be torn.                *)
PlayableToCut(body, codec) ==
  \/ Begun(body, codec)
  \/ /\ body # <<>>
     /\ \E kind \in {"params", "packet"} : Begun([body EXCEPT ![Len(body)].kind = kind], codec)

(* Every closed segment holds the parameter sets, the key frame and behind *)
(* it packets of that session and codec alone, in order and none of them   *)
(* torn, whatever failed on the way; only one whose fclose failed may end  *)
(* too early, in the middle of a packet perhaps (open_segment,             *)
(* write_segment_packet, close_segment).                                   *)
SegmentsPlayable ==
  \A f \in Names :
    /\ final[f].state = "whole" => Playable(final[f].body, f[3])
    /\ final[f].state = "cut" => PlayableToCut(final[f].body, f[3])

RecordingStream(sid) == stream[sid].active /\ ~stream[sid].waiting

LastWritten(e) ==
  LET s == stream[e.sid] IN
  /\ s.fp # NoFile
  /\ tmp[s.fp] # <<>>
  /\ Last(tmp[s.fp]).n = e.n

(* A stream that records has an open file, but for the moment between its  *)
(* file being closed and what comes next (process_video writes without     *)
(* another look at fp).                                                    *)
FileWhileRecording ==
  \A sid \in Streams :
    RecordingStream(sid) =>
      \/ stream[sid].fp # NoFile
      \/ pc = "drain"
      \/ pc \in {"start", "stop", "roll"} /\ cur.sid = sid

(* What the writer knows at each of its steps.                             *)
WriterInv ==
  /\ FileWhileRecording
  /\ pc \in {"start", "stop"} => cur.type = pc
  /\ pc \in {"video", "open", "roll", "head", "append", "discard", "discardAsk"}
       => cur.type = "video"
  /\ pc \in {"open", "roll", "head"} => S.codec \in Supported
  /\ pc \in {"head", "append", "discard", "discardAsk"} => S.fp # NoFile

(* A stream that records misses nothing: when process_video returns and    *)
(* the stream does not wait for a key frame, the packet it was given is    *)
(* the last one of the stream's open file - across rollovers, mount errors *)
(* and write errors.                                                       *)
NothingSkipped ==
  [][ \A e \in {cur} \ {NoEvent} :
        e.type = "video" /\ pc' = "wait" /\ RecordingStream(e.sid)'
          => LastWritten(e)' ]_vars

(* Two IDR requests of one stream session are at least MinIdrGap apart,    *)
(* save for the first request of a segment and the one after a write       *)
(* error: rollover, retry and periodic requests do not pile up.  This      *)
(* holds as long as the stream's handlers do not overtake one another on   *)
(* the way to the queue: an event with an older stamp makes the unsigned   *)
(* difference of the times wrap, and its request passes at once.           *)
IdrSpaced ==
  [][ \A sid \in Streams :
        LET before == stream[sid].idr
            after  == stream'[sid].idr
        IN  order[sid].kept /\ pc # "discardAsk" /\
            before.count > 0 /\ after.count = before.count + 1
              => after.last - before.last >= MinIdrGap ]_vars

(* When nothing failed and the process stopped in order, everything that   *)
(* was written is in closed segments: no .tmp file is left behind and      *)
(* every closed segment holds the packets the writer counted.              *)
CleanStop ==
  phase = "off" /\ upsets = 0 =>
    \A f \in Names : /\ tmp[f] = <<>>
                     /\ final[f].packets > 0 => Len(final[f].body) = final[f].packets + 1

(* compressed_recorder_stop returns: the writer empties the queue, closes  *)
(* the segments and ends.                                                  *)
StopCompletes == phase = "stopping" ~> phase # "stopping"
=============================================================================
