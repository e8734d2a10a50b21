---------------------- MODULE CompressedRecorderProofs ----------------------
(***************************************************************************)
(* Theorems about the recorder, for every set of streams and packets,      *)
(* every queue limit, interval and number of faults.                       *)
(*                                                                         *)
(* Each property has an invariant of its own on top of those before it:    *)
(*                                                                         *)
(*   Inv        types and what the writer knows at each step: TypeOK alone *)
(*              does not tell that a file is open when it is written to;   *)
(*   Accounted  the queue's running total;                                 *)
(*   PlayInv    the order of the queue against sessions and open files;    *)
(*   IdrsPast   no request is younger than what still waits;               *)
(*   CleanInv   files against counters until something goes wrong.         *)
(***************************************************************************)
EXTENDS CompressedRecorder, TLAPS

-----------------------------------------------------------------------------
(* The arithmetic of IDR requests (RecorderIdr).                           *)

(* Euclidean division, as the provers see it. *)
LEMMA DivMod ==
  ASSUME NEW a \in Int, NEW n \in Nat \ {0}
  PROVE  a % n \in 0 .. n - 1 /\ a \div n \in Int /\ a = n * (a \div n) + (a % n)
<1>1. a % n \in 0 .. n-1
  OBVIOUS
<1>2. a \div n \in Int
  OBVIOUS
<1>3. a = n * (a \div n) + (a % n)
  OBVIOUS
<1> QED BY <1>1, <1>2, <1>3

(* A positive multiple of n is at least n. *)
LEMMA PositiveMultiple == ASSUME NEW n \in Nat \ {0}, NEW j \in Int, j >= 1 PROVE n*j >= n
  BY SMT

(* A remainder within bounds is the remainder. *)
LEMMA ModUnique ==
  ASSUME NEW a \in Int, NEW n \in Nat \ {0}, NEW k \in Int, NEW r \in 0 .. n - 1, a = n * k + r
  PROVE  a % n = r
<1> DEFINE q == a \div n
           m == a % n
<1>1. m \in 0 .. n-1 /\ q \in Int /\ a = n*q + m
  BY DivMod
<1>2. n * (k - q) = m - r
  BY <1>1
<1>a. k - q \in Int
  BY <1>1
<1>3. ~(k - q >= 1)
  <2>1. ASSUME k - q >= 1 PROVE n*(k - q) >= n
    BY <2>1, <1>a, PositiveMultiple
  <2> QED BY <2>1, <1>2, <1>1
<1>4. ~(q - k >= 1)
  <2>1. ASSUME q - k >= 1 PROVE n*(q - k) >= n
    BY <2>1, <1>a, <1>1, PositiveMultiple
  <2>2. n * (q - k) = r - m
    BY <1>1
  <2> QED BY <2>1, <2>2, <1>1
<1>5. k = q
  BY <1>1, <1>3, <1>4
<1> QED BY <1>5, <1>1

(* The offset of a stream's periodic IDR lies inside the interval           *)
(* (recorder_periodic_idr_offset_ns).                                       *)
LEMMA OffsetInInterval ==
  ASSUME NEW sid \in 1 .. MaxStreams, IdrInterval > 0
  PROVE  PeriodicOffset(sid) \in 0 .. IdrInterval - 1
<1> DEFINE x == (sid - 1) * IdrInterval
           q == x \div MaxStreams
<1>1. MaxStreams \in Nat \ {0} /\ IdrInterval \in Nat
  BY IdrAssumption DEF IdrAssumption
<1>2. x \in Nat /\ x <= (MaxStreams - 1) * IdrInterval
  BY <1>1
<1>3. q \in Int /\ MaxStreams * q <= x /\ x < MaxStreams * q + MaxStreams
  BY <1>1, <1>2
<1>4. q >= 0
  BY <1>1, <1>2, <1>3
<1>5. q < IdrInterval
  BY <1>1, <1>2, <1>3
<1> QED
  BY <1>3, <1>4, <1>5, <1>1 DEF PeriodicOffset

(* The schedule of the next periodic IDR exists, keeps the minimum gap and  *)
(* hits the stream's phase (recorder_next_periodic_idr_ns).                 *)
LEMMA NextPeriodicPhase ==
  ASSUME NEW sid \in 1 .. MaxStreams, NEW now \in Nat, IdrInterval > 0
  PROVE  /\ NextPeriodic(sid, now) \in now + MinIdrGap .. now + MinIdrGap + IdrInterval - 1
         /\ NextPeriodic(sid, now) % IdrInterval = PeriodicOffset(sid)
<1> DEFINE a == now + MinIdrGap
           off == PeriodicOffset(sid)
           d == (off - a) % IdrInterval
           k == (off - a) \div IdrInterval
<1>1. IdrInterval \in Nat \ {0} /\ a \in Nat
  BY IdrAssumption DEF IdrAssumption
<1>2. off \in 0 .. IdrInterval - 1
  BY OffsetInInterval
<1>3. d \in 0 .. IdrInterval - 1 /\ k \in Int /\ off - a = IdrInterval * k + d
  <2>1. off - a \in Int
    BY <1>1, <1>2
  <2> HIDE DEF off, a
  <2> QED
    BY <2>1, <1>1, DivMod
<1>4. a + d = IdrInterval * (-k) + off
  BY <1>1, <1>2, <1>3
<1>5. (a + d) % IdrInterval = off
  <2>1. a + d \in Int /\ -k \in Int
    BY <1>1, <1>3
  <2> HIDE DEF off, a, d, k
  <2> QED
    BY <2>1, <1>1, <1>2, <1>4, ModUnique
<1>6. \E t \in a .. a + IdrInterval - 1 : t % IdrInterval = off
  BY <1>1, <1>3, <1>5
<1> QED
  BY <1>6, <1>1 DEF NextPeriodic

(* The IDR fields keep their type under every request.                      *)
LEMMA RequestsTyped ==
  ASSUME NEW idr \in Idrs, NEW now \in Nat
  PROVE  ForceIdr(idr, now) \in Idrs /\ RequestIdr(idr, now) \in Idrs
<1>1. Asked(idr, now) \in Idrs
  <2>1. idr.count + 1 \in Nat
    BY DEF Idrs
  <2> QED
    BY <2>1 DEF Idrs, Asked
<1>2. RequestIdr(idr, now) \in {idr, Asked(idr, now)}
  BY DEF RequestIdr
<1> QED
  BY <1>1, <1>2 DEF ForceIdr

(* The next periodic request is a point in time of the clock. *)
LEMMA NextPeriodicTyped ==
  ASSUME NEW sid \in 1 .. MaxStreams, NEW now \in Nat
  PROVE  NextPeriodic(sid, now) \in Nat
<1>1. IdrInterval \in Nat /\ MinIdrGap \in Nat
  BY IdrAssumption DEF IdrAssumption
<1>2. CASE IdrInterval = 0
  BY <1>2 DEF NextPeriodic
<1>3. CASE IdrInterval > 0
  BY <1>1, <1>3, NextPeriodicPhase
<1> QED
  BY <1>1, <1>2, <1>3

(* Moving past missed periods ends at a point in time. *)
LEMMA AdvancePastTyped ==
  ASSUME NEW next \in Nat, NEW now \in Nat, now >= next, IdrInterval > 0
  PROVE  AdvancePast(next, now) \in Nat
<1> DEFINE q == (now - next) \div IdrInterval
<1>1. IdrInterval \in Nat \ {0} /\ now - next \in Nat
  BY IdrAssumption DEF IdrAssumption
<1>2. q \in Nat
  BY <1>1
<1>3. next + IdrInterval * (q + 1) \in Nat
  <2> HIDE DEF q
  <2> QED
    BY <1>1, <1>2
<1> QED
  BY <1>3 DEF AdvancePast

(* A periodic request keeps the types. *)
LEMMA PeriodicTyped ==
  ASSUME NEW idr \in Idrs, NEW sid \in 1 .. MaxStreams, NEW now \in Nat
  PROVE  PeriodicIdr(idr, sid, now) \in Idrs
<1> DEFINE due == IF idr.next = 0 THEN NextPeriodic(sid, now) ELSE idr.next
<1>1. due \in Nat /\ NextPeriodic(sid, now) \in Nat
  BY NextPeriodicTyped DEF Idrs
<1>2. CASE IdrInterval = 0
  BY <1>2 DEF PeriodicIdr
<1>3. CASE IdrInterval # 0 /\ now < due
  BY <1>1, <1>3 DEF PeriodicIdr, Idrs
<1>4. CASE IdrInterval # 0 /\ now >= due /\ IdrRecent(idr, now)
  BY <1>1, <1>4 DEF PeriodicIdr, Idrs
<1>5. CASE IdrInterval # 0 /\ now >= due /\ ~IdrRecent(idr, now)
  <2>1. AdvancePast(due, now) \in Nat
    BY <1>1, <1>5, AdvancePastTyped, IdrAssumption DEF IdrAssumption
  <2>2. PeriodicIdr(idr, sid, now) = [ForceIdr(idr, now) EXCEPT !.next = AdvancePast(due, now)]
    BY <1>1, <1>5 DEF PeriodicIdr
  <2> QED
    BY <2>1, <2>2, RequestsTyped DEF Idrs
<1> QED
  BY <1>1, <1>2, <1>3, <1>4, <1>5

-----------------------------------------------------------------------------
(* Types and what the writer knows.                                        *)

Inv == TypeOK /\ WriterInv

(* The invariant contains the types. *)
LEMMA Typed == Inv => TypeOK
BY DEF Inv

(* The stream of the event in hand and its fields.                          *)
LEMMA CurrentStream ==
  ASSUME TypeOK, cur \in Events
  PROVE  /\ cur.sid \in Streams /\ cur.sid \in 1 .. MaxStreams
         /\ cur.mono \in Nat /\ cur.mono \in Seconds /\ cur.wall \in Seconds /\ cur.wall \in Nat
         /\ S \in RecorderStreams
         /\ S.idr \in Idrs
         /\ S.fp # NoFile => S.fp \in Names
<1>1. cur.sid \in Streams /\ cur.mono \in Seconds /\ cur.wall \in Seconds
  BY DEF Events
<1>2. cur.sid \in 1 .. MaxStreams /\ cur.mono \in Nat /\ cur.wall \in Nat
  <2>1. Seconds \subseteq Nat
    BY RecorderAssumption DEF RecorderAssumption, Seconds
  <2>2. Streams \subseteq 1 .. MaxStreams
    BY RecorderAssumption DEF RecorderAssumption
  <2> QED
    BY <1>1, <2>1, <2>2
<1>3. S \in RecorderStreams
  BY <1>1 DEF TypeOK, S
<1> QED
  BY <1>1, <1>2, <1>3 DEF RecorderStreams

(* Storing a stream disturbs no other.                                      *)
LEMMA StreamStored ==
  ASSUME TypeOK, cur \in Events, NEW s \in RecorderStreams, SetStream(s)
  PROVE  /\ stream' \in [Streams -> RecorderStreams]
         /\ stream'[cur.sid] = s
         /\ \A t \in Streams \ {cur.sid} : stream'[t] = stream[t]
BY CurrentStream DEF TypeOK, SetStream

(* The recorder starts in the invariant. *)
LEMMA InitInv == Init => Inv
<1> SUFFICES ASSUME Init PROVE Inv
  OBVIOUS
<1>1. NoIdr \in Idrs
  BY DEF NoIdr, Idrs
<1>2. ZeroStream \in RecorderStreams /\ ~ZeroStream.active
  BY <1>1 DEF ZeroStream, RecorderStreams
<1>3. TypeOK
  <2>1. stream \in [Streams -> RecorderStreams]
    BY <1>2 DEF Init
  <2>2. mono \in Seconds /\ wall \in Seconds
    BY RecorderAssumption DEF Init, Seconds, RecorderAssumption
  <2>3. nfs \in [ok : BOOLEAN, check : Seconds]
    BY <2>2, RecorderAssumption DEF Init, RecorderAssumption
  <2>4. tmp \in [Names -> Seq(Chunks)] /\ final \in [Names -> Segments]
    BY DEF Init, NoSegment, Segments
  <2>5. queue \in Seq(Events)
    BY DEF Init
  <2>6. readings \subseteq Stamps /\ order \in [Streams -> Orders]
    BY <2>2 DEF Init, Clocks, Stamps, NoOrder, Orders
  <2> QED
    BY <2>1, <2>2, <2>3, <2>4, <2>5, <2>6 DEF Init, TypeOK
<1>4. WriterInv
  BY <1>2 DEF Init, WriterInv, FileWhileRecording, RecordingStream
<1> QED
  BY <1>3, <1>4 DEF Inv

(* So does every start after a crash or a stop. *)
LEMMA BootInv == ASSUME Inv, Boot, upsets' \in Nat PROVE Inv'
<1>1. NoIdr \in Idrs
  BY DEF NoIdr, Idrs
<1>2. ZeroStream \in RecorderStreams /\ ~ZeroStream.active
  BY <1>1 DEF ZeroStream, RecorderStreams
<1>3. TypeOK'
  <2>1. stream' \in [Streams -> RecorderStreams] /\ queue' \in Seq(Events)
    BY <1>2 DEF Boot
  <2>2. nfs' \in [ok : BOOLEAN, check : Seconds]
    BY RecorderAssumption DEF Boot, RecorderAssumption, Inv, TypeOK
  <2>3. readings' \subseteq Stamps /\ order' \in [Streams -> Orders]
    BY DEF Boot, Clocks, Stamps, NoOrder, Orders, Inv, TypeOK
  <2> QED
    BY <2>1, <2>2, <2>3 DEF Boot, Inv, TypeOK, fileVars
<1>4. WriterInv'
  BY <1>2 DEF Boot, WriterInv, FileWhileRecording, RecordingStream
<1> QED
  BY <1>3, <1>4 DEF Inv

-----------------------------------------------------------------------------
(* The handlers.                                                           *)

(* What the callbacks put into the queue are events. *)
LEMMA EventTyped ==
  ASSUME TypeOK, NEW at \in readings, NEW sid \in Streams,
         NEW type \in {"start", "video", "stop"},
         NEW codec \in Nat, NEW payload \in Payloads \cup {NoPayload}
  PROVE  Event(at, type, sid, codec, payload) \in Events
<1>1. made + 1 \in Nat /\ session[sid] \in Nat /\ at.mono \in Seconds /\ at.wall \in Seconds
  BY DEF TypeOK, Stamps
<1> QED
  BY <1>1 DEF TypeOK, Event, Events

(* Each event of a stream is set against the newest stamp before it. *)
LEMMA OrderedTyped ==
  ASSUME TypeOK, NEW e \in Events, Enqueue(e) PROVE order' \in [Streams -> Orders]
<1>1. e.mono \in Nat /\ e.sid \in Streams
  BY RecorderAssumption DEF Events, Seconds, RecorderAssumption
<1>2. \A o \in Orders : Ordered(o, e) \in Orders
  BY <1>1 DEF Orders, Ordered
<1>3. order \in [Streams -> Orders]
  BY DEF TypeOK
<1>4. order' = order \/ order' = [order EXCEPT ![e.sid] = Ordered(@, e)]
  BY DEF Enqueue
<1> QED
  BY <1>1, <1>2, <1>3, <1>4

(* Queueing an event, or dropping it, keeps the invariant. *)
LEMMA EnqueueInv ==
  ASSUME Inv, NEW e \in Events, Enqueue(e), session' \in [Streams -> Nat]
  PROVE  Inv'
<1>1. e.payload.len \in Nat
  BY RecorderAssumption DEF Events, NoPayload, RecorderAssumption
<1>2. queuedBytes' \in Int /\ made' \in Nat
  BY <1>1 DEF Inv, TypeOK, Enqueue
<1>3. queue' \in Seq(Events)
  <2>1. queue' \in {queue, Append(queue, e)}
    BY DEF Enqueue
  <2>2. queue \in Seq(Events)
    BY DEF Inv, TypeOK
  <2>3. Append(queue, e) \in Seq(Events)
    BY <2>2
  <2> QED
    BY <2>1, <2>2, <2>3
<1>4. TypeOK'
  BY <1>2, <1>3, OrderedTyped DEF Inv, TypeOK, Enqueue, fileVars, envVars
<1>5. WriterInv'
  BY DEF Inv, Enqueue, WriterInv, FileWhileRecording, RecordingStream, S
<1> QED
  BY <1>4, <1>5 DEF Inv

(* The callbacks of the handler threads. *)
LEMMA HandlersInv == Inv /\ Handlers => Inv'
<1> SUFFICES ASSUME Inv, Handlers PROVE Inv'
  OBVIOUS
<1>1. TypeOK /\ session \in [Streams -> Nat] /\ made + 1 \in Nat /\ 0 \in Nat
  BY DEF Inv, TypeOK
<1>2. ASSUME NEW at \in readings, NEW sid \in Streams, NEW codec \in Codecs, OnStreamStart(at, sid, codec)
      PROVE  Inv'
  <2>1. codec \in Nat
    BY RecorderAssumption DEF RecorderAssumption
  <2>2. Event(at, "start", sid, codec, NoPayload) \in Events
    BY <1>1, <2>1, EventTyped
  <2>3. session' \in [Streams -> Nat]
    BY <1>1, <1>2 DEF OnStreamStart
  <2> QED
    BY <1>2, <2>2, <2>3, EnqueueInv DEF OnStreamStart
<1>3. ASSUME NEW at \in readings, NEW sid \in Streams, NEW payload \in Payloads, OnVideo(at, sid, payload)
      PROVE  Inv'
  <2>1. Event(at, "video", sid, 0, payload) \in Events
    BY <1>1, EventTyped
  <2> QED
    BY <1>1, <1>3, <2>1, EnqueueInv DEF OnVideo
<1>4. ASSUME NEW at \in readings, NEW sid \in Streams, OnStreamStop(at, sid) PROVE Inv'
  <2>1. Event(at, "stop", sid, 0, NoPayload) \in Events
    BY <1>1, EventTyped
  <2> QED
    BY <1>1, <1>4, <2>1, EnqueueInv DEF OnStreamStop
<1> QED
  BY <1>2, <1>3, <1>4 DEF Handlers

-----------------------------------------------------------------------------
(* The writer between two events.                                          *)

(* The writer takes an event. *)
LEMMA DequeueInv == Inv /\ Dequeue => Inv'
<1> SUFFICES ASSUME Inv, Dequeue PROVE Inv'
  OBVIOUS
<1>1. Head(queue) \in Events /\ Tail(queue) \in Seq(Events)
  BY DEF Inv, TypeOK, Dequeue
<1>2. Head(queue).payload.len \in Nat /\ Head(queue).type \in {"start", "video", "stop"}
  BY <1>1, RecorderAssumption DEF Events, NoPayload, RecorderAssumption
<1>3. queuedBytes' \in Int
  BY <1>2 DEF Inv, TypeOK, Dequeue
<1>4. cur' \in Events /\ pc' = cur'.type /\ pc' \in {"start", "video", "stop"}
  BY <1>1, <1>2 DEF Dequeue
<1>5. TypeOK'
  BY <1>1, <1>3, <1>4 DEF Inv, TypeOK, Dequeue, fileVars, envVars
<1>6. FileWhileRecording'
  BY DEF Inv, WriterInv, Dequeue, FileWhileRecording, RecordingStream
<1>7. WriterInv'
  BY <1>4, <1>6 DEF WriterInv
<1> QED
  BY <1>5, <1>7 DEF Inv

(* The writer leaves its loop. *)
LEMMA LeaveLoopInv == Inv /\ LeaveLoop => Inv'
<1> SUFFICES ASSUME Inv, LeaveLoop PROVE Inv'
  OBVIOUS
<1>1. TypeOK'
  BY DEF Inv, TypeOK, LeaveLoop, fileVars, envVars
<1>2. WriterInv'
  BY DEF LeaveLoop, WriterInv, FileWhileRecording
<1> QED
  BY <1>1, <1>2 DEF Inv

(* compressed_recorder_stop joins the writer. *)
LEMMA JoinInv == Inv /\ Join => Inv'
<1> SUFFICES ASSUME Inv, Join PROVE Inv'
  OBVIOUS
<1>1. ZeroStream \in RecorderStreams /\ ~ZeroStream.active
  BY DEF ZeroStream, RecorderStreams, NoIdr, Idrs
<1>2. TypeOK'
  BY <1>1 DEF Inv, TypeOK, Join, fileVars, envVars
<1>3. WriterInv'
  BY <1>1 DEF Join, WriterInv, FileWhileRecording, RecordingStream
<1> QED
  BY <1>2, <1>3 DEF Inv

-----------------------------------------------------------------------------
(* Closing a segment.                                                      *)

(* A file that is cut anywhere holds chunks still. *)
LEMMA CutTyped ==
  ASSUME NEW body \in Seq(Chunks), NEW part \in CutShort(body)
  PROVE  part \in Seq(Chunks)
<1>1. CASE \E k \in 0 .. Len(body) : part = SubSeq(body, 1, k)
  BY <1>1
<1>2. CASE \E k \in DOMAIN body : part = [SubSeq(body, 1, k) EXCEPT ![k].kind = "torn"]
  <2>0. DOMAIN body = 1 .. Len(body) /\ Len(body) \in Nat
    OBVIOUS
  <2>1. PICK k \in DOMAIN body : part = [SubSeq(body, 1, k) EXCEPT ![k].kind = "torn"]
    BY <1>2
  <2> DEFINE q == SubSeq(body, 1, k)
  <2>2. q \in Seq(Chunks) /\ Len(q) = k /\ k \in 1 .. Len(q) /\ q[k] \in Chunks
    BY <2>0, <2>1
  <2>3. [q[k] EXCEPT !.kind = "torn"] \in Chunks
    BY <2>2 DEF Chunks
  <2>4. part = [q EXCEPT ![k] = [q[k] EXCEPT !.kind = "torn"]]
    BY <2>1
  <2> HIDE DEF q
  <2> QED BY <2>2, <2>3, <2>4
<1> QED BY <1>1, <1>2 DEF CutShort

(* Closing and renaming a segment keeps the types. *)
LEMMA FinalizeTyped ==
  ASSUME TypeOK, NEW sid \in Streams, Finalize(sid)
  PROVE  TypeOK'
<1> DEFINE f == stream[sid].fp
           Body == Seq(Chunks)
<1>1. f \in Names /\ stream[sid] \in RecorderStreams
  BY DEF TypeOK, Finalize, RecorderStreams
<1>2. Closed(stream[sid]) \in RecorderStreams
  <2>1. [stream[sid].idr EXCEPT !.next = 0] \in Idrs
    BY <1>1 DEF RecorderStreams, Idrs
  <2> QED
    BY <1>1, <2>1 DEF RecorderStreams, Closed
<1>3. stream' \in [Streams -> RecorderStreams]
  BY <1>2 DEF Finalize, TypeOK
<1>4. /\ tmp' \in [Names -> Body]
      /\ final' \in [Names -> Segments]
      /\ nfs' \in [ok : BOOLEAN, check : Seconds]
  <2>1. \A state \in {"whole", "cut"}, body \in Body :
          [state |-> state, packets |-> stream[sid].packets, body |-> body] \in Segments
    BY <1>1 DEF RecorderStreams, Segments
  <2>2. tmp[f] \in Body /\ <<>> \in Body /\ \A body \in CutShort(tmp[f]) : body \in Body
    BY <1>1, CutTyped DEF TypeOK
  <2>3. AfterError(mono) \in [ok : BOOLEAN, check : Seconds]
    BY DEF TypeOK, AfterError
  <2>4. \/ \E state \in {"whole", "cut"}, body \in Body :
             /\ final' = [final EXCEPT ![f] =
                            [state |-> state, packets |-> stream[sid].packets, body |-> body]]
             /\ tmp' = [tmp EXCEPT ![f] = <<>>]
             /\ UNCHANGED nfs
        \/ nfs' = AfterError(mono) /\ UNCHANGED fileVars
    BY <2>2 DEF Finalize
  <2>5. CASE nfs' = AfterError(mono) /\ UNCHANGED fileVars
    BY <2>5, <2>3 DEF TypeOK, fileVars
  <2>6. ASSUME NEW state \in {"whole", "cut"}, NEW body \in Body,
               final' = [final EXCEPT ![f] =
                           [state |-> state, packets |-> stream[sid].packets, body |-> body]],
               tmp' = [tmp EXCEPT ![f] = <<>>],
               UNCHANGED nfs
        PROVE  <1>4!1 /\ <1>4!2 /\ <1>4!3
    BY <2>6, <2>1, <2>2 DEF TypeOK
  <2> QED
    BY <2>4, <2>5, <2>6
<1>5. upsets' \in Nat
  BY DEF TypeOK, Finalize, Upset
<1> QED
  BY <1>3, <1>4, <1>5 DEF TypeOK, Finalize

(* It touches the stream in hand only. *)
LEMMA FinalizeStream ==
  ASSUME TypeOK, NEW sid \in Streams, Finalize(sid)
  PROVE  /\ pc' = pc /\ cur' = cur
         /\ stream'[sid].codec = stream[sid].codec
         /\ \A t \in Streams \ {sid} : stream'[t] = stream[t]
BY DEF TypeOK, Finalize, Closed, RecorderStreams

(* A segment is closed in the loop. *)
LEMMA FinalizeCurrentInv == Inv /\ FinalizeCurrent => Inv'
<1> SUFFICES ASSUME Inv, FinalizeCurrent PROVE Inv'
  OBVIOUS
<1>1. TypeOK /\ cur \in Events /\ cur.sid \in Streams /\ pc \in {"start", "stop", "roll"}
  <2>1. TypeOK /\ cur \in Events
    BY DEF Inv, TypeOK, FinalizeCurrent
  <2> QED
    BY <2>1, CurrentStream DEF FinalizeCurrent
<1>2. TypeOK'
  BY <1>1, FinalizeTyped DEF FinalizeCurrent
<1>3. FileWhileRecording'
  BY <1>1, FinalizeStream DEF FinalizeCurrent, Inv, WriterInv, FileWhileRecording, RecordingStream
<1>4. WriterInv'
  BY <1>1, <1>3, FinalizeStream DEF FinalizeCurrent, Inv, WriterInv, S
<1> QED
  BY <1>2, <1>4 DEF Inv

(* The segments left are closed at the end of the thread. *)
LEMMA FinalizeAtExitInv == Inv /\ FinalizeAtExit => Inv'
<1> SUFFICES ASSUME Inv, FinalizeAtExit PROVE Inv'
  OBVIOUS
<1>1. PICK sid \in Streams : Finalize(sid)
  BY DEF FinalizeAtExit
<1>2. TypeOK' /\ pc' = "drain"
  BY <1>1, FinalizeTyped, FinalizeStream DEF FinalizeAtExit, Inv
<1>3. WriterInv'
  BY <1>2 DEF WriterInv, FileWhileRecording
<1> QED
  BY <1>2, <1>3 DEF Inv

-----------------------------------------------------------------------------
(* A step of the writer on the event in hand: it stores the stream s and    *)
(* goes to next.                                                           *)

WorkSteps == {"start", "stop", "video", "open", "roll", "head", "append", "discard", "discardAsk"}
VideoSteps == WorkSteps \ {"start", "stop"}

(* While the writer works it holds an event. *)
LEMMA EventInHand == Inv /\ pc \in WorkSteps => TypeOK /\ cur \in Events
BY DEF Inv, TypeOK, WorkSteps

(* A step of the writer that changes the stream in hand keeps the types. *)
LEMMA StepTyped ==
  ASSUME TypeOK, cur \in Events,
         NEW s \in RecorderStreams, SetStream(s),
         NEW next \in VideoSteps \cup {"wait"}, Done(next), WriterQuiet,
         nfs' \in [ok : BOOLEAN, check : Seconds],
         tmp' \in [Names -> Seq(Chunks)], final' = final,
         leaked' \in Nat, upsets' \in Nat
  PROVE  TypeOK'
<1>1. stream' \in [Streams -> RecorderStreams]
  BY StreamStored
<1>2. \/ pc' = "wait" /\ cur' = NoEvent
      \/ pc' \in VideoSteps /\ cur' \in Events
  BY DEF Done, VideoSteps, WorkSteps
<1> QED
  BY <1>1, <1>2 DEF TypeOK, WriterQuiet, VideoSteps, WorkSteps

(* And keeps what is known of the place it goes to. *)
LEMMA StepWriterInv ==
  ASSUME Inv, pc \in WorkSteps, cur \in Events,
         NEW s \in RecorderStreams, SetStream(s),
         NEW next \in VideoSteps \cup {"wait"}, Done(next),
         s.active /\ ~s.waiting => s.fp # NoFile \/ next = "roll",
         next \in VideoSteps => cur.type = "video",
         next \in {"open", "roll", "head"} => s.codec \in Supported,
         next \in {"head", "append", "discard", "discardAsk"} => s.fp # NoFile
  PROVE  WriterInv'
<1>1. TypeOK
  BY DEF Inv
<1>2. cur.sid \in Streams /\ stream'[cur.sid] = s
      /\ \A t \in Streams \ {cur.sid} : stream'[t] = stream[t]
  BY <1>1, CurrentStream, StreamStored
<1>3. pc' = next /\ (next # "wait" => cur' = cur)
  BY DEF Done
<1>4. FileWhileRecording'
  <2> SUFFICES ASSUME NEW t \in Streams, RecordingStream(t)'
               PROVE  stream'[t].fp # NoFile \/ (pc' = "roll" /\ cur'.sid = t)
    BY DEF FileWhileRecording
  <2>1. CASE t = cur.sid
    BY <2>1, <1>2, <1>3 DEF RecordingStream
  <2>2. CASE t # cur.sid
    <3>1. RecordingStream(t) /\ stream'[t] = stream[t]
      BY <2>2, <1>2 DEF RecordingStream
    <3>2. pc # "drain"
      BY DEF WorkSteps
    <3> QED
      BY <2>2, <3>1, <3>2 DEF Inv, WriterInv, FileWhileRecording
  <2> QED
    BY <2>1, <2>2
<1>5. next # "wait" => S' = s
  BY <1>2, <1>3 DEF S
<1> QED
  BY <1>3, <1>4, <1>5 DEF WriterInv, VideoSteps, WorkSteps

-----------------------------------------------------------------------------
(* STREAM_START and STREAM_STOP.                                           *)

(* A stream state wiped by memset is one of the states, and not active. *)
LEMMA ZeroTyped == ZeroStream \in RecorderStreams /\ ~ZeroStream.active
BY DEF ZeroStream, RecorderStreams, NoIdr, Idrs

(* process_stream_start. *)
LEMMA HandleStartInv == Inv /\ HandleStart => Inv'
<1> SUFFICES ASSUME Inv, HandleStart PROVE Inv'
  OBVIOUS
<1> DEFINE records == cur.sid \in EnabledStreams /\ cur.codec \in Supported
           s == [ZeroStream EXCEPT
                   !.active = records, !.codec = cur.codec, !.waiting = TRUE,
                   !.idr = IF records THEN ForceIdr(NoIdr, cur.mono) ELSE NoIdr]
<1>1. TypeOK /\ cur \in Events /\ pc \in WorkSteps
  BY EventInHand DEF HandleStart, WorkSteps
<1>2. s \in RecorderStreams /\ s.waiting
  <2>1. NoIdr \in Idrs /\ ForceIdr(NoIdr, cur.mono) \in Idrs
    BY <1>1, CurrentStream, RequestsTyped DEF NoIdr, Idrs
  <2>2. cur.codec \in Nat /\ records \in BOOLEAN
    BY <1>1 DEF Events
  <2> HIDE DEF records
  <2> QED
    BY <2>1, <2>2, ZeroTyped DEF RecorderStreams
<1>3. SetStream(s) /\ Done("wait") /\ WriterQuiet
  BY DEF HandleStart
<1>4. /\ nfs' \in [ok : BOOLEAN, check : Seconds]
      /\ tmp' \in [Names -> Seq(Chunks)]
      /\ final' = final /\ leaked' \in Nat /\ upsets' \in Nat
  BY <1>1 DEF HandleStart, NoFileWork, fileVars, TypeOK
<1> HIDE DEF s
<1>5. TypeOK'
  BY <1>1, <1>2, <1>3, <1>4, StepTyped
<1>6. WriterInv'
  BY <1>1, <1>2, <1>3, StepWriterInv DEF VideoSteps, WorkSteps
<1> QED
  BY <1>5, <1>6 DEF Inv

(* process_stream_stop. *)
LEMMA HandleStopInv == Inv /\ HandleStop => Inv'
<1> SUFFICES ASSUME Inv, HandleStop PROVE Inv'
  OBVIOUS
<1>1. TypeOK /\ cur \in Events /\ pc \in WorkSteps
  BY EventInHand DEF HandleStop, WorkSteps
<1>2. SetStream(ZeroStream) /\ Done("wait") /\ WriterQuiet
  BY DEF HandleStop
<1>3. /\ nfs' \in [ok : BOOLEAN, check : Seconds]
      /\ tmp' \in [Names -> Seq(Chunks)]
      /\ final' = final /\ leaked' \in Nat /\ upsets' \in Nat
  BY <1>1 DEF HandleStop, NoFileWork, fileVars, TypeOK
<1>4. TypeOK'
  BY <1>1, <1>2, <1>3, ZeroTyped, StepTyped
<1>5. WriterInv'
  BY <1>1, <1>2, ZeroTyped, StepWriterInv DEF VideoSteps, WorkSteps
<1> QED
  BY <1>4, <1>5 DEF Inv

-----------------------------------------------------------------------------
(* VIDEO, up to the first file operation.                                  *)

(* analyze_payload keeps a stream state a stream state. *)
LEMMA AnalyzedTyped ==
  ASSUME TypeOK, cur \in Events
  PROVE  /\ Analyzed \in RecorderStreams
         /\ Analyzed.active = S.active /\ Analyzed.waiting = S.waiting
         /\ Analyzed.codec = S.codec /\ Analyzed.fp = S.fp
<1>1. S \in RecorderStreams
  BY CurrentStream
<1>2. S.params \cup (cur.payload.params \cap Needed(S.codec)) \in SUBSET (0 .. 2)
  <2>1. S.params \in SUBSET (0 .. 2)
    BY <1>1 DEF RecorderStreams
  <2>2. Needed(S.codec) \in SUBSET (0 .. 2)
    BY DEF Needed
  <2> QED
    BY <2>1, <2>2
<1> QED
  BY <1>1, <1>2 DEF RecorderStreams, Analyzed

(* A stream whose IDR fields changed.                                       *)
LEMMA IdrStored ==
  ASSUME NEW s \in RecorderStreams, NEW idr \in Idrs
  PROVE  /\ [s EXCEPT !.idr = idr] \in RecorderStreams
         /\ [s EXCEPT !.idr = idr].active = s.active
         /\ [s EXCEPT !.idr = idr].waiting = s.waiting
         /\ [s EXCEPT !.idr = idr].codec = s.codec
         /\ [s EXCEPT !.idr = idr].fp = s.fp
         /\ [s EXCEPT !.idr = idr].rollover = s.rollover
BY DEF RecorderStreams

(* So does the test for a rollover. *)
LEMMA RolloverCheckedTyped ==
  ASSUME TypeOK, cur \in Events
  PROVE  /\ RolloverChecked \in RecorderStreams
         /\ RolloverChecked.active = S.active /\ RolloverChecked.waiting = S.waiting
         /\ RolloverChecked.codec = S.codec /\ RolloverChecked.fp = S.fp
<1> DEFINE a == Analyzed
           idr == IF Startable \/ IdrRecent(a.idr, cur.mono) THEN a.idr
                  ELSE ForceIdr(a.idr, cur.mono)
<1>1. a \in RecorderStreams /\ a.idr \in Idrs
  BY AnalyzedTyped DEF RecorderStreams
<1>2. idr \in Idrs
  BY <1>1, CurrentStream, RequestsTyped
<1>3. RolloverChecked \in {a, [a EXCEPT !.rollover = TRUE, !.idr = idr]}
  BY DEF RolloverChecked
<1> HIDE DEF idr
<1>4. /\ [a EXCEPT !.rollover = TRUE, !.idr = idr] \in RecorderStreams
      /\ [a EXCEPT !.rollover = TRUE, !.idr = idr].active = a.active
      /\ [a EXCEPT !.rollover = TRUE, !.idr = idr].waiting = a.waiting
      /\ [a EXCEPT !.rollover = TRUE, !.idr = idr].codec = a.codec
      /\ [a EXCEPT !.rollover = TRUE, !.idr = idr].fp = a.fp
  <2> HIDE DEF a
  <2> QED
    BY <1>1, <1>2 DEF RecorderStreams
<1>5. a.active = S.active /\ a.waiting = S.waiting /\ a.codec = S.codec /\ a.fp = S.fp
  BY AnalyzedTyped
<1> HIDE DEF a
<1> QED
  BY <1>1, <1>3, <1>4, <1>5

(* What all branches of process_video begin with. *)
LEMMA InVideoInv ==
  ASSUME Inv, NEW s \in RecorderStreams, NEW next \in VideoSteps \cup {"wait"},
         InVideo(s, next),
         s.active /\ ~s.waiting => s.fp # NoFile \/ next = "roll",
         next \in {"open", "roll", "head"} => s.codec \in Supported,
         next \in {"head", "append", "discard", "discardAsk"} => s.fp # NoFile
  PROVE  Inv'
<1>1. TypeOK /\ cur \in Events /\ pc \in WorkSteps /\ cur.type = "video"
  <2>1. pc = "video"
    BY DEF InVideo
  <2> QED
    BY <2>1, EventInHand DEF WorkSteps, Inv, WriterInv
<1>2. NfsNow \in [ok : BOOLEAN, check : Seconds]
  BY <1>1, CurrentStream DEF NfsNow, TypeOK
<1>3. SetStream(s) /\ Done(next) /\ WriterQuiet
  BY DEF InVideo
<1>4. /\ nfs' \in [ok : BOOLEAN, check : Seconds]
      /\ tmp' \in [Names -> Seq(Chunks)]
      /\ final' = final /\ leaked' \in Nat /\ upsets' \in Nat
  BY <1>1, <1>2 DEF InVideo, NoFileWork, fileVars, TypeOK
<1>5. TypeOK'
  BY <1>1, <1>3, <1>4, StepTyped
<1>6. WriterInv'
  BY <1>1, <1>3, StepWriterInv
<1> QED
  BY <1>5, <1>6 DEF Inv

(* process_video up to the file operations. *)
LEMMA VideoInv == Inv /\ Video => Inv'
<1> SUFFICES ASSUME Inv, Video PROVE Inv'
  OBVIOUS
<1>1. TypeOK /\ cur \in Events /\ pc = "video" /\ pc \in WorkSteps
  <2>1. pc = "video"
    BY DEF Video, IgnoreVideo, SkipUnmounted, AwaitKeyframe, BeginSegment, WriteOrRoll
  <2> QED
    BY <2>1, EventInHand DEF WorkSteps
<1>2. S \in RecorderStreams /\ S.idr \in Idrs /\ cur.mono \in Nat /\ cur.sid \in 1 .. MaxStreams
  BY <1>1, CurrentStream
<1>3. /\ Analyzed \in RecorderStreams /\ Analyzed.idr \in Idrs
      /\ Analyzed.active = S.active /\ Analyzed.waiting = S.waiting
      /\ Analyzed.codec = S.codec /\ Analyzed.fp = S.fp
  BY <1>1, AnalyzedTyped DEF RecorderStreams
<1>4. Startable => S.codec \in Supported
  BY <1>3 DEF Startable, ParamsReady
<1>5. S.active /\ ~S.waiting => S.fp # NoFile
  BY <1>1, CurrentStream DEF Inv, WriterInv, FileWhileRecording, RecordingStream, S
<1>6. {"wait", "open", "roll", "append"} \subseteq VideoSteps \cup {"wait"}
  BY DEF VideoSteps, WorkSteps
<1>7. CASE IgnoreVideo
  <2>1. SetStream(S) /\ Done("wait") /\ WriterQuiet
    BY <1>1, <1>7 DEF IgnoreVideo, SetStream, S, TypeOK
  <2>2. /\ nfs' \in [ok : BOOLEAN, check : Seconds]
        /\ tmp' \in [Names -> Seq(Chunks)]
        /\ final' = final /\ leaked' \in Nat /\ upsets' \in Nat
    BY <1>1, <1>7 DEF IgnoreVideo, NoFileWork, fileVars, TypeOK
  <2>3. TypeOK'
    BY <1>1, <1>2, <2>1, <2>2, StepTyped
  <2>4. WriterInv'
    BY <1>1, <1>2, <1>5, <2>1, StepWriterInv DEF VideoSteps, WorkSteps
  <2> QED
    BY <2>3, <2>4 DEF Inv
<1>8. CASE SkipUnmounted
  <2> DEFINE s == [Analyzed EXCEPT !.waiting = TRUE, !.rollover = FALSE]
  <2>1. s \in RecorderStreams /\ s.waiting
    BY <1>3 DEF RecorderStreams
  <2>2. InVideo(s, "wait")
    BY <1>8 DEF SkipUnmounted
  <2> HIDE DEF s
  <2> QED
    BY <1>6, <2>1, <2>2, InVideoInv
<1>9. CASE AwaitKeyframe
  <2> DEFINE idr == RequestIdr(Analyzed.idr, cur.mono)
             s == [Analyzed EXCEPT !.idr = idr]
  <2>1. idr \in Idrs
    BY <1>2, <1>3, RequestsTyped
  <2>2. InVideo(s, "wait") /\ S.waiting
    BY <1>9 DEF AwaitKeyframe
  <2> HIDE DEF idr
  <2>3. s \in RecorderStreams /\ s.waiting
    BY <1>3, <2>1, <2>2, IdrStored
  <2> HIDE DEF s
  <2> QED
    BY <1>6, <2>2, <2>3, InVideoInv
<1>10. CASE BeginSegment
  <2>1. InVideo(Analyzed, "open") /\ S.waiting /\ Startable
    BY <1>10 DEF BeginSegment
  <2> QED
    BY <1>3, <1>4, <1>6, <2>1, InVideoInv
<1>11. CASE WriteOrRoll
  <2> DEFINE r == RolloverChecked
  <2>1. /\ r \in RecorderStreams /\ r.idr \in Idrs
        /\ r.active = S.active /\ r.waiting = S.waiting
        /\ r.codec = S.codec /\ r.fp = S.fp
    BY <1>1, RolloverCheckedTyped DEF RecorderStreams
  <2>2. r.fp # NoFile
    BY <1>5, <1>11, <2>1 DEF WriteOrRoll
  <2>3. \/ InVideo(r, "roll") /\ Startable
        \/ InVideo([r EXCEPT !.idr = RequestIdr(r.idr, cur.mono)], "append")
        \/ InVideo([r EXCEPT !.idr = PeriodicIdr(r.idr, cur.sid, cur.mono)], "append")
    BY <1>11, <2>2 DEF WriteOrRoll
  <2> HIDE DEF r
  <2>4. CASE InVideo(r, "roll") /\ Startable
    BY <1>4, <1>6, <2>1, <2>2, <2>4, InVideoInv
  <2>5. ASSUME NEW idr \in Idrs, InVideo([r EXCEPT !.idr = idr], "append") PROVE Inv'
    BY <1>6, <2>1, <2>2, <2>5, IdrStored, InVideoInv
  <2>6. RequestIdr(r.idr, cur.mono) \in Idrs /\ PeriodicIdr(r.idr, cur.sid, cur.mono) \in Idrs
    BY <1>2, <2>1, RequestsTyped, PeriodicTyped
  <2> QED
    BY <2>3, <2>4, <2>5, <2>6
<1> QED
  BY <1>7, <1>8, <1>9, <1>10, <1>11 DEF Video

-----------------------------------------------------------------------------
(* The file operations of VIDEO.                                           *)

(* What the chunks written for a packet are.                                *)
LEMMA ChunksTyped ==
  ASSUME TypeOK, cur \in Events
  PROVE  /\ ParamsChunk(S, cur) \in Chunks
         /\ Packet(S, cur) \in Chunks /\ Torn(S, cur) \in Chunks
         /\ Packet(S, cur).n = cur.n
<1>1. S.codec \in Nat /\ S.params \in SUBSET (0 .. 2) /\ cur.session \in Nat /\ cur.n \in Nat
  BY CurrentStream DEF RecorderStreams, Events
<1>2. cur.payload.key \in BOOLEAN
  <2>1. cur.payload \in Payloads \cup {NoPayload}
    BY DEF Events
  <2>2. \A p \in Payloads \cup {NoPayload} : p.key \in BOOLEAN
    <3>1. Payloads \subseteq [params : SUBSET (0 .. 2), key : BOOLEAN, len : Nat \ {0}]
      BY RecorderAssumption DEF RecorderAssumption
    <3>2. \A p \in Payloads : p.key \in BOOLEAN
      BY <3>1
    <3>3. NoPayload.key \in BOOLEAN
      BY DEF NoPayload
    <3> QED
      BY <3>2, <3>3
  <2> QED
    BY <2>1, <2>2
<1>3. Packet(S, cur) \in Chunks /\ Packet(S, cur).n = cur.n
  BY <1>1, <1>2 DEF Packet, Chunks
<1>4. Torn(S, cur) \in Chunks
  BY <1>3 DEF Torn, Chunks
<1> QED
  BY <1>1, <1>3, <1>4 DEF ParamsChunk, Chunks

(* One body of the .tmp files replaced.                                     *)
LEMMA BodyStored ==
  ASSUME TypeOK, NEW f \in Names, NEW body \in Seq(Chunks), tmp' = [tmp EXCEPT ![f] = body]
  PROVE  tmp' \in [Names -> Seq(Chunks)] /\ tmp'[f] = body
BY DEF TypeOK

(* A packet written is one more chunk of the file. *)
LEMMA PacketCounted ==
  ASSUME TypeOK, cur \in Events
  PROVE  LET s == [S EXCEPT !.packets = @ + 1]
         IN  s \in RecorderStreams /\ s.fp = S.fp
<1>1. S \in RecorderStreams
  BY CurrentStream
<1>2. S.packets + 1 \in Nat
  BY <1>1 DEF RecorderStreams
<1> QED
  BY <1>1, <1>2 DEF RecorderStreams

(* The name of a new segment is that of a file. *)
LEMMA OpenNameTyped ==
  ASSUME Inv, Opening PROVE OpenName \in Names /\ OpenName # NoFile
<1>1. pc \in {"open", "roll"}
  BY DEF Opening
<1>2. TypeOK /\ cur \in Events
  BY <1>1, EventInHand DEF WorkSteps
<1>3. cur.sid \in Streams /\ cur.wall \in 1 .. MaxTime /\ S.codec \in Supported
  BY <1>1, <1>2, CurrentStream DEF Inv, WriterInv, Seconds
<1>4. OpenName \in Names
  BY <1>3 DEF OpenName, Names
<1> QED
  BY <1>4, RecorderAssumption DEF RecorderAssumption

(* open_segment succeeds. *)
LEMMA OpenSegmentInv == Inv /\ OpenSegment => Inv'
<1> SUFFICES ASSUME Inv, OpenSegment PROVE Inv'
  OBVIOUS
<1> DEFINE idr == [S.idr EXCEPT !.next = NextPeriodic(cur.sid, cur.mono), !.count = 0]
           s == [S EXCEPT !.fp = OpenName, !.startWall = cur.wall, !.packets = 0,
                          !.waiting = FALSE, !.rollover = FALSE, !.idr = idr]
<1>1. pc \in {"open", "roll"} /\ Opening
  BY DEF OpenSegment, Opening
<1>2. TypeOK /\ cur \in Events /\ pc \in WorkSteps /\ cur.type = "video"
  BY <1>1, EventInHand DEF WorkSteps, Inv, WriterInv
<1>3. /\ S \in RecorderStreams /\ S.idr \in Idrs /\ cur.wall \in Nat /\ cur.mono \in Nat
      /\ cur.sid \in 1 .. MaxStreams /\ S.codec \in Supported
  BY <1>1, <1>2, CurrentStream DEF Inv, WriterInv
<1>4. idr \in Idrs
  BY <1>3, NextPeriodicTyped DEF Idrs
<1>5. OpenName \in Names /\ OpenName # NoFile
  BY <1>1, OpenNameTyped
<1>6. SetStream(s) /\ Done("head") /\ WriterQuiet
  BY DEF OpenSegment
<1>7. /\ nfs' \in [ok : BOOLEAN, check : Seconds]
      /\ final' = final /\ leaked' \in Nat /\ upsets' \in Nat
  BY <1>2 DEF OpenSegment, TypeOK
<1>8. tmp' \in [Names -> Seq(Chunks)]
  <2>1. <<>> \in Seq(Chunks) /\ tmp' = [tmp EXCEPT ![OpenName] = <<>>]
    BY DEF OpenSegment
  <2> QED
    BY <1>2, <1>5, <2>1, BodyStored
<1> HIDE DEF idr
<1>9. s \in RecorderStreams /\ s.fp = OpenName /\ s.codec = S.codec
  BY <1>3, <1>4, <1>5 DEF RecorderStreams
<1> HIDE DEF s
<1>10. "head" \in VideoSteps
  BY DEF VideoSteps, WorkSteps
<1>11. TypeOK'
  BY <1>2, <1>6, <1>7, <1>8, <1>9, <1>10, StepTyped
<1>12. WriterInv'
  BY <1>2, <1>3, <1>5, <1>6, <1>9, <1>10, StepWriterInv
<1> QED
  BY <1>11, <1>12 DEF Inv

(* The mount is tested again after an error. *)
LEMMA AfterErrorTyped ==
  ASSUME TypeOK, NEW when \in Seconds
  PROVE  AfterError(when) \in [ok : BOOLEAN, check : Seconds]
BY DEF TypeOK, AfterError

(* open_segment fails. *)
LEMMA OpenFailsInv == Inv /\ OpenFails => Inv'
<1> SUFFICES ASSUME Inv, OpenFails PROVE Inv'
  OBVIOUS
<1>1. pc \in {"open", "roll"}
  BY DEF OpenFails, Opening
<1>2. TypeOK /\ cur \in Events /\ pc \in WorkSteps
  BY <1>1, EventInHand DEF WorkSteps
<1>3. S \in RecorderStreams /\ cur.mono \in Seconds
  BY <1>2, CurrentStream
<1>4. NotOpened(S) \in RecorderStreams /\ NotOpened(S).waiting
  BY <1>3 DEF NotOpened, RecorderStreams
<1>5. /\ [NotOpened(S) EXCEPT !.fp = NoFile] \in RecorderStreams
      /\ [NotOpened(S) EXCEPT !.fp = NoFile].waiting
  BY <1>4 DEF RecorderStreams
<1>6. Done("wait") /\ WriterQuiet
  BY DEF OpenFails
<1>7. /\ nfs' \in [ok : BOOLEAN, check : Seconds]
      /\ final' = final /\ leaked' \in Nat /\ upsets' \in Nat
      /\ tmp' \in [Names -> Seq(Chunks)]
  BY <1>2, <1>3, AfterErrorTyped DEF OpenFails, TypeOK, fileVars, Upset
<1>8. PICK s \in RecorderStreams : SetStream(s) /\ s.waiting
  BY <1>4, <1>5 DEF OpenFails
<1>9. TypeOK'
  BY <1>2, <1>6, <1>7, <1>8, StepTyped
<1>10. WriterInv'
  BY <1>2, <1>6, <1>8, StepWriterInv DEF VideoSteps, WorkSteps
<1> QED
  BY <1>9, <1>10 DEF Inv

(* A write at the end of the open segment.                                  *)
LEMMA WriteTyped ==
  ASSUME TypeOK, S.fp \in Names, NEW chunks \in Seq(Chunks),
         tmp' = [tmp EXCEPT ![S.fp] = @ \o chunks]
  PROVE  tmp' \in [Names -> Seq(Chunks)] /\ tmp'[S.fp] = tmp[S.fp] \o chunks
<1>1. tmp[S.fp] \in Seq(Chunks)
  BY DEF TypeOK
<1>2. tmp[S.fp] \o chunks \in Seq(Chunks)
  BY <1>1
<1> QED
  BY <1>2, BodyStored

(* The parameter sets are written. *)
LEMMA WriteHeadInv == Inv /\ WriteHead => Inv'
<1> SUFFICES ASSUME Inv, WriteHead PROVE Inv'
  OBVIOUS
<1> DEFINE s == [S EXCEPT !.packets = @ + 1]
<1>1. pc = "head" /\ pc \in WorkSteps
  BY DEF WriteHead, WorkSteps
<1>2. TypeOK /\ cur \in Events
  BY <1>1, EventInHand
<1>3. S.fp \in Names /\ S.fp # NoFile
  BY <1>1, <1>2, CurrentStream DEF Inv, WriterInv
<1>4. s \in RecorderStreams /\ s.fp = S.fp
  BY <1>2, PacketCounted
<1>5. tmp' \in [Names -> Seq(Chunks)]
  <2>1. <<ParamsChunk(S, cur), Packet(S, cur)>> \in Seq(Chunks)
    BY <1>2, ChunksTyped
  <2> QED
    BY <1>2, <1>3, <2>1, WriteTyped DEF WriteHead
<1>6. SetStream(s) /\ Done("wait") /\ WriterQuiet
  BY DEF WriteHead
<1>7. /\ nfs' \in [ok : BOOLEAN, check : Seconds]
      /\ final' = final /\ leaked' \in Nat /\ upsets' \in Nat
  BY <1>2 DEF WriteHead, TypeOK
<1> HIDE DEF s
<1>8. TypeOK'
  BY <1>2, <1>4, <1>5, <1>6, <1>7, StepTyped
<1>9. WriterInv'
  BY <1>1, <1>2, <1>3, <1>4, <1>6, StepWriterInv DEF VideoSteps, WorkSteps
<1> QED
  BY <1>8, <1>9 DEF Inv

(* The packet is written. *)
LEMMA AppendPacketInv == Inv /\ AppendPacket => Inv'
<1> SUFFICES ASSUME Inv, AppendPacket PROVE Inv'
  OBVIOUS
<1> DEFINE s == [S EXCEPT !.packets = @ + 1]
<1>1. pc = "append" /\ pc \in WorkSteps
  BY DEF AppendPacket, WorkSteps
<1>2. TypeOK /\ cur \in Events
  BY <1>1, EventInHand
<1>3. S.fp \in Names /\ S.fp # NoFile
  BY <1>2, CurrentStream DEF AppendPacket
<1>4. s \in RecorderStreams /\ s.fp = S.fp
  BY <1>2, PacketCounted
<1>5. tmp' \in [Names -> Seq(Chunks)]
  <2>1. tmp[S.fp] \in Seq(Chunks) /\ Packet(S, cur) \in Chunks
    BY <1>2, <1>3, ChunksTyped DEF TypeOK
  <2>2. Append(tmp[S.fp], Packet(S, cur)) \in Seq(Chunks)
    BY <2>1
  <2>3. tmp' = [tmp EXCEPT ![S.fp] = Append(tmp[S.fp], Packet(S, cur))]
    BY DEF AppendPacket
  <2> QED
    BY <1>2, <1>3, <2>2, <2>3, BodyStored
<1>6. SetStream(s) /\ Done("wait") /\ WriterQuiet
  BY DEF AppendPacket
<1>7. /\ nfs' \in [ok : BOOLEAN, check : Seconds]
      /\ final' = final /\ leaked' \in Nat /\ upsets' \in Nat
  BY <1>2 DEF AppendPacket, TypeOK
<1> HIDE DEF s
<1>8. TypeOK'
  BY <1>2, <1>4, <1>5, <1>6, <1>7, StepTyped
<1>9. WriterInv'
  BY <1>1, <1>2, <1>3, <1>4, <1>6, StepWriterInv DEF VideoSteps, WorkSteps
<1> QED
  BY <1>8, <1>9 DEF Inv

(* Either write fails. *)
LEMMA WriteFailsInv == Inv /\ (WriteHeadFails \/ AppendFails) => Inv'
<1> SUFFICES ASSUME Inv, WriteHeadFails \/ AppendFails PROVE Inv'
  OBVIOUS
<1>1. pc \in {"head", "append"} /\ pc \in WorkSteps
  BY DEF WriteHeadFails, AppendFails, WorkSteps
<1>2. TypeOK /\ cur \in Events /\ cur.type = "video"
  BY <1>1, EventInHand DEF Inv, WriterInv
<1>3. S \in RecorderStreams /\ S.fp \in Names /\ S.fp # NoFile
  BY <1>1, <1>2, CurrentStream DEF Inv, WriterInv
<1>4. tmp' \in [Names -> Seq(Chunks)]
  <2>1. tmp[S.fp] \in Seq(Chunks) /\ Torn(S, cur) \in Chunks
    BY <1>2, <1>3, ChunksTyped DEF TypeOK
  <2>2. Append(tmp[S.fp], Torn(S, cur)) \in Seq(Chunks)
    BY <2>1
  <2>3. tmp' = [tmp EXCEPT ![S.fp] = Append(tmp[S.fp], Torn(S, cur))]
    BY DEF WriteHeadFails, AppendFails
  <2> QED
    BY <1>2, <1>3, <2>2, <2>3, BodyStored
<1>5. SetStream(S) /\ WriterQuiet /\ \E next \in {"discard", "discardAsk"} : Done(next)
  BY <1>2 DEF WriteHeadFails, AppendFails, SetStream, S, TypeOK
<1>6. /\ nfs' \in [ok : BOOLEAN, check : Seconds]
      /\ final' = final /\ leaked' \in Nat /\ upsets' \in Nat
  <2>1. AfterError(mono) \in [ok : BOOLEAN, check : Seconds]
    BY <1>2, AfterErrorTyped DEF TypeOK
  <2> QED
    BY <1>2, <2>1 DEF WriteHeadFails, AppendFails, TypeOK, Upset
<1>7. PICK next \in {"discard", "discardAsk"} : Done(next)
  BY <1>5
<1>8. next \in VideoSteps \cup {"wait"} /\ next \notin {"open", "roll", "head"}
  BY DEF VideoSteps, WorkSteps
<1>9. TypeOK'
  BY <1>2, <1>3, <1>4, <1>5, <1>6, <1>7, <1>8, StepTyped
<1>10. WriterInv'
  BY <1>1, <1>2, <1>3, <1>5, <1>7, <1>8, StepWriterInv
<1> QED
  BY <1>9, <1>10 DEF Inv

(* The segment is closed after a failed write. *)
LEMMA DiscardInv == Inv /\ Discard => Inv'
<1> SUFFICES ASSUME Inv, Discard PROVE Inv'
  OBVIOUS
<1> DEFINE idr == IF pc = "discardAsk" THEN ForceIdr(Closed(S).idr, cur.mono) ELSE Closed(S).idr
           s == [Closed(S) EXCEPT !.waiting = TRUE, !.idr = idr]
<1>1. pc \in {"discard", "discardAsk"} /\ pc \in WorkSteps
  BY DEF Discard, WorkSteps
<1>2. TypeOK /\ cur \in Events
  BY <1>1, EventInHand
<1>3. S \in RecorderStreams /\ S.fp \in Names /\ cur.mono \in Nat
  BY <1>1, <1>2, CurrentStream DEF Inv, WriterInv
<1>4. Closed(S) \in RecorderStreams /\ Closed(S).idr \in Idrs
  <2>1. [S.idr EXCEPT !.next = 0] \in Idrs
    BY <1>3 DEF RecorderStreams, Idrs
  <2>2. Closed(S) \in RecorderStreams
    BY <1>3, <2>1 DEF RecorderStreams, Closed
  <2> QED
    BY <2>2 DEF RecorderStreams
<1>5. idr \in Idrs
  BY <1>3, <1>4, RequestsTyped
<1>6. tmp' \in [Names -> Seq(Chunks)]
  <2>1. <<>> \in Seq(Chunks)
    OBVIOUS
  <2>2. tmp' = [tmp EXCEPT ![S.fp] = <<>>] \/ tmp' = tmp
    BY DEF Discard
  <2> QED
    BY <1>2, <1>3, <2>1, <2>2, BodyStored DEF TypeOK
<1>7. SetStream(s) /\ Done("wait") /\ WriterQuiet
  BY DEF Discard
<1>8. /\ nfs' \in [ok : BOOLEAN, check : Seconds]
      /\ final' = final /\ leaked' \in Nat /\ upsets' \in Nat
  BY <1>2 DEF Discard, TypeOK, Upset
<1> HIDE DEF idr
<1>9. s \in RecorderStreams /\ s.waiting
  <2> DEFINE c == Closed(S)
  <2> HIDE DEF c
  <2>1. c \in RecorderStreams
    BY <1>4 DEF c
  <2>2. /\ [c EXCEPT !.waiting = TRUE, !.idr = idr] \in RecorderStreams
        /\ [c EXCEPT !.waiting = TRUE, !.idr = idr].waiting
    BY <2>1, <1>5 DEF RecorderStreams
  <2> QED
    BY <2>2 DEF c
<1> HIDE DEF s
<1>10. TypeOK'
  BY <1>2, <1>6, <1>7, <1>8, <1>9, StepTyped
<1>11. WriterInv'
  BY <1>1, <1>2, <1>7, <1>9, StepWriterInv DEF VideoSteps, WorkSteps
<1> QED
  BY <1>10, <1>11 DEF Inv

(* All file operations together. *)
LEMMA FileWorkInv == Inv /\ FileWork => Inv'
BY OpenSegmentInv, OpenFailsInv, WriteHeadInv, AppendPacketInv, WriteFailsInv, DiscardInv
   DEF FileWork

-----------------------------------------------------------------------------
(* Shutdown and environment.                                               *)

(* compressed_recorder_stop begins. *)
LEMMA StopInv == Inv /\ Stop => Inv'
<1> SUFFICES ASSUME Inv, Stop PROVE Inv'
  OBVIOUS
<1>1. TypeOK'
  BY DEF Inv, TypeOK, Stop, fileVars, envVars
<1>2. WriterInv'
  BY DEF Inv, Stop, WriterInv, FileWhileRecording, RecordingStream, S
<1> QED
  BY <1>1, <1>2 DEF Inv

(* Clock, mount, crash and restart. *)
LEMMA EnvironmentInv == Inv /\ Environment => Inv'
<1> SUFFICES ASSUME Inv, Environment PROVE Inv'
  OBVIOUS
<1>1. CASE Crash \/ Restart
  <2>1. Boot /\ upsets' \in Nat
    BY <1>1 DEF Crash, Restart, Upset, Inv, TypeOK
  <2> QED
    BY <2>1, BootInv
<1>2. CASE Tick \/ StepWall \/ MountChange
  <2>1. mono' \in Seconds /\ wall' \in Seconds /\ mounted' \in BOOLEAN /\ upsets' \in Nat
    <3>1. MaxTime \in Nat /\ mono \in 1 .. MaxTime /\ wall \in 1 .. MaxTime
          /\ mounted \in BOOLEAN /\ upsets \in Nat
      BY RecorderAssumption DEF RecorderAssumption, Inv, TypeOK, Seconds
    <3>2. CASE Tick
      BY <3>1, <3>2 DEF Tick, Seconds
    <3>3. CASE StepWall
      BY <3>1, <3>3 DEF StepWall, Upset, Seconds
    <3>4. CASE MountChange
      BY <3>1, <3>4 DEF MountChange, Upset, Seconds
    <3> QED
      BY <1>2, <3>2, <3>3, <3>4
  <2>2. UNCHANGED <<recVars, fileVars, order, session, made>>
    BY <1>2 DEF Tick, StepWall, MountChange
  <2>3. readings' \subseteq Stamps
    <3>1. readings \subseteq Stamps
      BY DEF Inv, TypeOK
    <3>2. readings' \subseteq readings \cup {[mono |-> mono', wall |-> wall']}
      BY <1>2 DEF Tick, StepWall, MountChange, Clocks
    <3> QED
      BY <2>1, <3>1, <3>2 DEF Stamps
  <2>4. TypeOK'
    BY <2>1, <2>2, <2>3 DEF Inv, TypeOK, recVars, fileVars
  <2>5. WriterInv'
    BY <2>2 DEF Inv, WriterInv, FileWhileRecording, RecordingStream, S, recVars
  <2> QED
    BY <2>4, <2>5 DEF Inv
<1> QED
  BY <1>1, <1>2 DEF Environment

-----------------------------------------------------------------------------
(* The theorems.                                                           *)

(* Every step keeps the invariant. *)
LEMMA NextInv == Inv /\ [Next]_vars => Inv'
<1> SUFFICES ASSUME Inv, [Next]_vars PROVE Inv'
  OBVIOUS
<1>1. CASE Writer
  BY <1>1, DequeueInv, FinalizeCurrentInv, HandleStartInv, HandleStopInv, VideoInv, FileWorkInv,
     LeaveLoopInv, FinalizeAtExitInv, JoinInv DEF Writer
<1>2. CASE UNCHANGED vars
  <2>1. TypeOK'
    BY <1>2 DEF Inv, TypeOK, vars, recVars, fileVars, envVars
  <2>2. WriterInv'
    BY <1>2 DEF Inv, WriterInv, FileWhileRecording, RecordingStream, S, vars, recVars
  <2> QED
    BY <2>1, <2>2 DEF Inv
<1> QED
  BY <1>1, <1>2, HandlersInv, StopInv, EnvironmentInv DEF Next

(* The recorder's state is well formed at every step, and the writer holds  *)
(* an event exactly while it handles one (recorder_thread_main).            *)
THEOREM RecorderTyped == Spec => []TypeOK
<1>1. Spec => []Inv
  BY InitInv, NextInv, PTL DEF Spec
<1>2. Inv => TypeOK
  BY Typed
<1> QED
  BY <1>1, <1>2, PTL

(* process_video never writes to a stream without an open file.             *)
THEOREM RecorderHasFile == Spec => []WriterInv
<1>1. Spec => []Inv
  BY InitInv, NextInv, PTL DEF Spec
<1>2. Inv => WriterInv
  BY DEF Inv
<1> QED
  BY <1>1, <1>2, PTL

-----------------------------------------------------------------------------
(* NothingSkipped: which steps end the handling of a VIDEO event, and what  *)
(* they leave behind.                                                      *)

(* The last chunk of a file is the one appended last. *)
LEMMA LastAppended ==
  ASSUME NEW T, NEW body \in Seq(T), NEW a \in T, NEW b \in T
  PROVE  /\ Last(Append(body, b)) = b /\ Append(body, b) # <<>>
         /\ Last(body \o <<a, b>>) = b /\ body \o <<a, b>> # <<>>
<1>1. Len(Append(body, b)) = Len(body) + 1 /\ Append(body, b)[Len(body) + 1] = b
  OBVIOUS
<1>2. Len(body \o <<a, b>>) = Len(body) + 2 /\ (body \o <<a, b>>)[Len(body) + 2] = b
  OBVIOUS
<1>3. Len(body) \in Nat /\ Len(<<>>) = 0
  OBVIOUS
<1> QED
  BY <1>1, <1>2, <1>3 DEF Last

(* The two steps that write the packet in hand.                             *)
LEMMA WriteRecords ==
  ASSUME Inv, WriteHead \/ AppendPacket, NEW e, e = cur
  PROVE  LastWritten(e)'
<1>1. pc \in {"head", "append"} /\ pc \in WorkSteps
  BY DEF WriteHead, AppendPacket, WorkSteps
<1>2. TypeOK /\ cur \in Events
  BY <1>1, EventInHand
<1>3. S.fp \in Names /\ S.fp # NoFile /\ cur.sid \in Streams
  BY <1>1, <1>2, CurrentStream DEF Inv, WriterInv
<1> DEFINE s == [S EXCEPT !.packets = @ + 1]
<1>4. s \in RecorderStreams /\ s.fp = S.fp /\ SetStream(s)
  BY <1>2, PacketCounted DEF WriteHead, AppendPacket
<1> HIDE DEF s
<1>5. stream'[cur.sid].fp = S.fp
  BY <1>2, <1>4, StreamStored
<1>6. tmp[S.fp] \in Seq(Chunks) /\ Packet(S, cur) \in Chunks /\ Packet(S, cur).n = cur.n
      /\ ParamsChunk(S, cur) \in Chunks
  BY <1>2, <1>3, ChunksTyped DEF TypeOK
<1>7. \/ tmp'[S.fp] = tmp[S.fp] \o <<ParamsChunk(S, cur), Packet(S, cur)>>
      \/ tmp'[S.fp] = Append(tmp[S.fp], Packet(S, cur))
  BY <1>2, <1>3 DEF WriteHead, AppendPacket, TypeOK
<1>8. tmp'[S.fp] # <<>> /\ Last(tmp'[S.fp]) = Packet(S, cur)
  <2> DEFINE body == tmp[S.fp]
             P == Packet(S, cur)
             H == ParamsChunk(S, cur)
  <2>1. body \in Seq(Chunks) /\ P \in Chunks /\ H \in Chunks
        /\ (tmp'[S.fp] = body \o <<H, P>> \/ tmp'[S.fp] = Append(body, P))
    BY <1>6, <1>7
  <2> HIDE DEF body, P, H
  <2>2. tmp'[S.fp] # <<>> /\ Last(tmp'[S.fp]) = P
    <3>1. /\ Last(Append(body, P)) = P /\ Append(body, P) # <<>>
          /\ Last(body \o <<H, P>>) = P /\ body \o <<H, P>> # <<>>
      BY <2>1, LastAppended
    <3> QED
      BY <2>1, <3>1
  <2> QED
    BY <2>2 DEF P
<1> QED
  BY <1>3, <1>5, <1>6, <1>8 DEF LastWritten

(* Every other step that ends the handling of a VIDEO event leaves the      *)
(* stream idle or waiting for a key frame.                                  *)
LEMMA OthersAwaitKey ==
  ASSUME Inv, cur # NoEvent, cur.type = "video", Writer, pc' = "wait",
         ~WriteHead, ~AppendPacket, NEW sid, sid = cur.sid
  PROVE  ~RecordingStream(sid)'
<1>1. TypeOK /\ cur \in Events /\ pc \in VideoSteps
  BY DEF Inv, TypeOK, WriterInv, VideoSteps, WorkSteps
<1>2. cur.sid \in Streams /\ S \in RecorderStreams
  BY <1>1, CurrentStream
<1>3. ASSUME NEW s, s.waiting, SetStream(s) PROVE ~RecordingStream(sid)'
  BY <1>1, <1>2, <1>3 DEF SetStream, RecordingStream, TypeOK
<1>4. CASE IgnoreVideo
  BY <1>4 DEF IgnoreVideo, RecordingStream, S
<1>5. CASE SkipUnmounted
  <2>1. [Analyzed EXCEPT !.waiting = TRUE, !.rollover = FALSE].waiting
    BY <1>1, AnalyzedTyped DEF RecorderStreams
  <2> QED
    BY <1>3, <1>5, <2>1 DEF SkipUnmounted, InVideo
<1>6. CASE AwaitKeyframe
  <2>1. [Analyzed EXCEPT !.idr = RequestIdr(Analyzed.idr, cur.mono)].waiting
    BY <1>1, <1>6, AnalyzedTyped DEF AwaitKeyframe, RecorderStreams
  <2> QED
    BY <1>3, <1>6, <2>1 DEF AwaitKeyframe, InVideo
<1>7. CASE BeginSegment
  BY <1>7 DEF BeginSegment, InVideo, Done
<1>8. CASE WriteOrRoll
  BY <1>8 DEF WriteOrRoll, InVideo, Done
<1>9. CASE OpenFails
  <2>1. NotOpened(S).waiting /\ [NotOpened(S) EXCEPT !.fp = NoFile].waiting
    BY <1>2 DEF NotOpened, RecorderStreams
  <2> QED
    BY <1>3, <1>9, <2>1 DEF OpenFails
<1>10. CASE Discard
  <2>1. \A i : [Closed(S) EXCEPT !.waiting = TRUE, !.idr = i].waiting
    BY <1>2 DEF Closed, RecorderStreams
  <2> QED
    BY <1>3, <1>10, <2>1 DEF Discard
<1>11. CASE OpenSegment \/ WriteHeadFails \/ AppendFails
  BY <1>11 DEF OpenSegment, WriteHeadFails, AppendFails, Done
<1>12. CASE Dequeue \/ LeaveLoop \/ FinalizeAtExit \/ Join \/ HandleStart \/ HandleStop
  BY <1>1, <1>12 DEF Dequeue, LeaveLoop, FinalizeAtExit, Join, HandleStart, HandleStop,
     VideoSteps, WorkSteps
<1>13. CASE FinalizeCurrent
  <2>1. pc' = pc
    BY <1>1, <1>2, <1>13, FinalizeStream DEF FinalizeCurrent
  <2> QED
    BY <1>1, <2>1 DEF VideoSteps, WorkSteps
<1> QED
  BY <1>4, <1>5, <1>6, <1>7, <1>8, <1>9, <1>10, <1>11, <1>12, <1>13 DEF Writer, Video, FileWork

(* Only the writer changes the event in hand. *)
LEMMA OtherStepsKeepEvent ==
  ASSUME Inv, cur # NoEvent, Handlers \/ Stop \/ Tick \/ StepWall \/ MountChange \/ UNCHANGED vars
  PROVE  pc' # "wait"
<1>1. pc \in WorkSteps
  BY DEF Inv, TypeOK, WorkSteps
<1>2. pc' = pc
  BY DEF Handlers, OnStreamStart, OnVideo, OnStreamStop, Enqueue, Stop, Tick, StepWall,
     MountChange, vars, recVars
<1> QED
  BY <1>1, <1>2 DEF WorkSteps

(* No stream records right after a start. *)
LEMMA BootRecordsNothing ==
  ASSUME Boot, NEW sid \in Streams
  PROVE  ~RecordingStream(sid)'
BY ZeroTyped DEF Boot, RecordingStream

(* A stream that records misses no packet (process_video), whatever fails:  *)
(* the property of the run "recorder", for all constants.                   *)
THEOREM RecorderSkipsNothing == Spec => NothingSkipped
<1> DEFINE Step == \A e \in {cur} \ {NoEvent} :
                     e.type = "video" /\ pc' = "wait" /\ RecordingStream(e.sid)'
                       => LastWritten(e)'
<1>1. Inv /\ [Next]_vars => [Step]_vars
  <2> SUFFICES ASSUME Inv, [Next]_vars, NEW e, e = cur, e # NoEvent, e.type = "video",
                      pc' = "wait", RecordingStream(e.sid)'
               PROVE  LastWritten(e)'
    OBVIOUS
  <2>1. e.sid \in Streams
    BY CurrentStream DEF Inv, TypeOK
  <2>2. CASE Writer
    <3>1. WriteHead \/ AppendPacket
      BY <2>2, OthersAwaitKey
    <3> QED
      BY <3>1, WriteRecords
  <2>3. CASE Crash \/ Restart
    BY <2>1, <2>3, BootRecordsNothing DEF Crash, Restart
  <2>4. CASE Handlers \/ Stop \/ Tick \/ StepWall \/ MountChange \/ UNCHANGED vars
    BY <2>4, OtherStepsKeepEvent
  <2> QED
    BY <2>2, <2>3, <2>4 DEF Next, Environment
<1>2. Spec => []Inv
  BY InitInv, NextInv, PTL DEF Spec
<1> QED
  BY <1>1, <1>2, PTL DEF Spec, NothingSkipped

-----------------------------------------------------------------------------
(* QueueAccounting: the running total never falls, so what is left of it    *)
(* when the first packet is taken out is a running total again.             *)
Accounted ==
  \E total \in [0 .. Len(queue) -> 0 .. QueueLimit] :
    /\ RunningTotal(total) /\ queuedBytes = total[Len(queue)]
    /\ \A i, j \in 0 .. Len(queue) : i <= j => total[i] <= total[j]

(* A handler adds its packet if there is room for it. *)
LEMMA AccountedEnqueue ==
  ASSUME TypeOK, Accounted, NEW e \in Events, Enqueue(e), e.type # "video" => e.payload.len = 0
  PROVE  Accounted'
<1>1. PICK total \in [0 .. Len(queue) -> 0 .. QueueLimit] :
        /\ RunningTotal(total) /\ queuedBytes = total[Len(queue)]
        /\ \A i, j \in 0 .. Len(queue) : i <= j => total[i] <= total[j]
  BY DEF Accounted
<1>2. /\ queue \in Seq(Events) /\ Len(queue) \in Nat /\ DOMAIN queue = 1 .. Len(queue)
      /\ QueueLimit \in Nat /\ e.payload.len \in Nat
  BY RecorderAssumption DEF TypeOK, Events, NoPayload, RecorderAssumption
<1>3. CASE UNCHANGED <<queue, queuedBytes>>
  BY <1>1, <1>3 DEF Accounted, RunningTotal
<1>4. CASE /\ queue' = Append(queue, e) /\ queuedBytes' = queuedBytes + e.payload.len
           /\ ~(e.type = "video" /\ queuedBytes + e.payload.len > QueueLimit)
  <2> DEFINE n == Len(queue)
             t == [i \in 0 .. n + 1 |-> IF i <= n THEN total[i] ELSE total[n] + e.payload.len]
  <2>1. /\ Len(queue') = n + 1 /\ DOMAIN queue' = 1 .. n + 1 /\ queue'[n + 1] = e
        /\ \A i \in 1 .. n : queue'[i] = queue[i]
    BY <1>2, <1>4
  <2>2. n \in 0 .. n /\ total[n] \in 0 .. QueueLimit /\ total[n] + e.payload.len \in 0 .. QueueLimit
    BY <1>1, <1>2, <1>4
  <2>3. \A i \in 0 .. n : total[i] \in 0 .. QueueLimit /\ total[i] <= total[n]
    BY <1>1, <2>2
  <2>4. \A i \in 0 .. n + 1 : t[i] = IF i <= n THEN total[i] ELSE total[n] + e.payload.len
    OBVIOUS
  <2>5. t \in [0 .. n + 1 -> 0 .. QueueLimit]
    BY <1>2, <2>2, <2>3
  <2> HIDE DEF t
  <2>6. t[0] = 0 /\ t[n + 1] = queuedBytes'
    BY <1>1, <1>2, <1>4, <2>4 DEF RunningTotal
  <2>7. \A i \in 1 .. n + 1 : t[i] = t[i - 1] + queue'[i].payload.len
    <3> SUFFICES ASSUME NEW i \in 1 .. n + 1 PROVE t[i] = t[i - 1] + queue'[i].payload.len
      OBVIOUS
    <3>1. CASE i = n + 1
      BY <1>2, <2>1, <2>4, <3>1
    <3>2. CASE i \in 1 .. n
      <4>1. i \in 0 .. n + 1 /\ i - 1 \in 0 .. n + 1 /\ i <= n /\ i - 1 <= n /\ i \in DOMAIN queue
        BY <1>2, <3>2
      <4>2. t[i] = total[i] /\ t[i - 1] = total[i - 1] /\ queue'[i] = queue[i]
        BY <2>1, <2>4, <3>2, <4>1
      <4>3. total[i] = total[i - 1] + queue[i].payload.len
        BY <1>1, <4>1 DEF RunningTotal
      <4> QED
        BY <4>2, <4>3
    <3> QED
      BY <1>2, <3>1, <3>2
  <2>8. \A i, j \in 0 .. n + 1 : i <= j => t[i] <= t[j]
    BY <1>1, <1>2, <2>2, <2>3, <2>4
  <2> QED
    BY <2>1, <2>5, <2>6, <2>7, <2>8 DEF Accounted, RunningTotal
<1> QED
  BY <1>1, <1>2, <1>3, <1>4 DEF Enqueue

(* The writer takes the first. *)
LEMMA AccountedDequeue ==
  ASSUME TypeOK, Accounted, Dequeue
  PROVE  Accounted'
<1>1. PICK total \in [0 .. Len(queue) -> 0 .. QueueLimit] :
        /\ RunningTotal(total) /\ queuedBytes = total[Len(queue)]
        /\ \A i, j \in 0 .. Len(queue) : i <= j => total[i] <= total[j]
  BY DEF Accounted
<1> DEFINE n == Len(queue)
           t == [i \in 0 .. n - 1 |-> total[i + 1] - total[1]]
<1>2. /\ n \in Nat \ {0} /\ DOMAIN queue = 1 .. n /\ QueueLimit \in Nat
      /\ Len(queue') = n - 1 /\ DOMAIN queue' = 1 .. n - 1 /\ Head(queue) = queue[1]
      /\ \A i \in 1 .. n - 1 : queue'[i] = queue[i + 1]
      /\ queuedBytes' = queuedBytes - Head(queue).payload.len
  BY RecorderAssumption DEF TypeOK, Dequeue, RecorderAssumption
<1>3. queue[1].payload.len \in Nat
  <2>1. queue[1] \in Events
    BY <1>2 DEF TypeOK
  <2> QED
    BY <2>1, RecorderAssumption DEF Events, NoPayload, RecorderAssumption
<1>4. \A i \in 0 .. n : total[i] \in 0 .. QueueLimit
  BY <1>1
<1>5. total[1] = queue[1].payload.len /\ total[1] \in 0 .. QueueLimit
  <2>1. 1 \in DOMAIN queue /\ 1 \in 0 .. n /\ 1 - 1 = 0
    BY <1>2
  <2>2. total[1] = total[0] + queue[1].payload.len /\ total[0] = 0
    BY <1>1, <2>1 DEF RunningTotal
  <2> QED
    BY <1>3, <1>4, <2>1, <2>2
<1>6. \A i \in 0 .. n - 1 : t[i] = total[i + 1] - total[1] /\ i + 1 \in 0 .. n
                            /\ total[i + 1] \in 0 .. QueueLimit /\ total[1] <= total[i + 1]
  BY <1>1, <1>2, <1>4
<1>7. t \in [0 .. n - 1 -> 0 .. QueueLimit]
  BY <1>2, <1>5, <1>6
<1> HIDE DEF t
<1>8. t[0] = 0 /\ t[n - 1] = queuedBytes'
  BY <1>1, <1>2, <1>4, <1>5, <1>6
<1>9. \A i \in 1 .. n - 1 : t[i] = t[i - 1] + queue'[i].payload.len
  <2> SUFFICES ASSUME NEW i \in 1 .. n - 1 PROVE t[i] = t[i - 1] + queue'[i].payload.len
    OBVIOUS
  <2>1. t[i] = total[i + 1] - total[1] /\ t[i - 1] = total[i] - total[1]
        /\ total[i] \in Int /\ total[i + 1] \in Int /\ total[1] \in Int
    <3>1. i \in 0 .. n - 1 /\ i - 1 \in 0 .. n - 1 /\ (i - 1) + 1 = i
      BY <1>2
    <3>2. /\ t[i] = total[i + 1] - total[1] /\ total[i + 1] \in 0 .. QueueLimit
          /\ t[i - 1] = total[(i - 1) + 1] - total[1] /\ total[(i - 1) + 1] \in 0 .. QueueLimit
      BY <1>6, <3>1
    <3> QED
      BY <1>2, <1>5, <3>1, <3>2
  <2>2. queue[i + 1] \in Events
    BY <1>2 DEF TypeOK
  <2>3. queue[i + 1].payload.len \in Nat
    BY <2>2, RecorderAssumption DEF Events, NoPayload, RecorderAssumption
  <2>4. total[i + 1] = total[i] + queue[i + 1].payload.len
    <3>1. i + 1 \in DOMAIN queue /\ (i + 1) - 1 = i
      BY <1>2
    <3>2. total[i + 1] = total[(i + 1) - 1] + queue[i + 1].payload.len
      BY <1>1, <3>1 DEF RunningTotal
    <3> QED
      BY <3>1, <3>2
  <2> QED
    <3>1. queue'[i] = queue[i + 1]
      BY <1>2
    <3> QED
      BY <2>1, <2>3, <2>4, <3>1
<1>10. \A i, j \in 0 .. n - 1 : i <= j => t[i] <= t[j]
  <2> SUFFICES ASSUME NEW i \in 0 .. n - 1, NEW j \in 0 .. n - 1, i <= j PROVE t[i] <= t[j]
    OBVIOUS
  <2>1. i + 1 \in 0 .. n /\ j + 1 \in 0 .. n /\ i + 1 <= j + 1
    BY <1>2
  <2>2. total[i + 1] <= total[j + 1]
    BY <1>1, <2>1
  <2>3. /\ t[i] = total[i + 1] - total[1] /\ t[j] = total[j + 1] - total[1]
        /\ total[i + 1] \in Int /\ total[j + 1] \in Int /\ total[1] \in Int
    <3>1. /\ t[i] = total[i + 1] - total[1] /\ total[i + 1] \in 0 .. QueueLimit
          /\ t[j] = total[j + 1] - total[1] /\ total[j + 1] \in 0 .. QueueLimit
      BY <1>6
    <3> QED
      BY <1>2, <1>5, <3>1
  <2> QED
    BY <2>2, <2>3
<1> QED
  BY <1>2, <1>7, <1>8, <1>9, <1>10 DEF Accounted, RunningTotal

(* A start empties the queue. *)
LEMMA AccountedEmpty ==
  ASSUME queue' = <<>>, queuedBytes' = 0
  PROVE  Accounted'
<1> DEFINE t == [i \in 0 .. 0 |-> 0]
<1>1. Len(queue') = 0 /\ DOMAIN queue' = {} /\ QueueLimit \in Nat
  BY RecorderAssumption DEF RecorderAssumption
<1>2. t \in [0 .. 0 -> 0 .. QueueLimit] /\ t[0] = 0 /\ \A i \in 0 .. 0 : i = 0
  BY <1>1
<1> HIDE DEF t
<1> QED
  BY <1>1, <1>2 DEF Accounted, RunningTotal

(* No other step touches it. *)
LEMMA AccountedNext ==
  ASSUME TypeOK, Accounted, [Next]_vars
  PROVE  Accounted'
<1>1. CASE Handlers
  <2>1. PICK e \in Events : Enqueue(e) /\ (e.type # "video" => e.payload.len = 0)
    <3>1. ASSUME NEW at \in readings, NEW sid \in Streams, NEW type \in {"start", "video", "stop"},
                 NEW codec \in Nat, NEW payload \in Payloads \cup {NoPayload}
          PROVE  LET e == Event(at, type, sid, codec, payload)
                 IN  e \in Events /\ e.type = type /\ e.payload = payload
      BY EventTyped DEF Event
    <3>2. NoPayload.len = 0 /\ Codecs \subseteq Nat /\ 0 \in Nat
      BY RecorderAssumption DEF NoPayload, RecorderAssumption
    <3> QED
      BY <1>1, <3>1, <3>2 DEF Handlers, OnStreamStart, OnVideo, OnStreamStop
  <2> QED
    BY <2>1, AccountedEnqueue
<1>2. CASE Crash \/ Restart
  BY <1>2, AccountedEmpty DEF Crash, Restart, Boot
<1>3. CASE UNCHANGED <<queue, queuedBytes>>
  BY <1>3 DEF Accounted, RunningTotal
<1>4. Writer \/ Stop \/ Tick \/ StepWall \/ MountChange \/ UNCHANGED vars
        => Dequeue \/ UNCHANGED <<queue, queuedBytes>>
  BY DEF Writer, FinalizeCurrent, FinalizeAtExit, Finalize, HandleStart, HandleStop, WriterQuiet,
     Video, IgnoreVideo, SkipUnmounted, AwaitKeyframe, BeginSegment, WriteOrRoll, InVideo,
     FileWork, OpenSegment, OpenFails, WriteHead, WriteHeadFails, AppendPacket, AppendFails,
     Discard, LeaveLoop, Join, Stop, Tick, StepWall, MountChange, vars, recVars
<1> QED
  BY <1>1, <1>2, <1>3, <1>4, AccountedDequeue DEF Next, Environment

(* The byte count that admits packets to the queue (enqueue_event) is that  *)
(* of the packets in it and keeps the limit, for every limit and payload.   *)
THEOREM RecorderAccounts == Spec => []QueueAccounting
<1>1. Init => Accounted
  <2> SUFFICES ASSUME Init PROVE Accounted
    OBVIOUS
  <2> DEFINE t == [i \in 0 .. 0 |-> 0]
  <2>1. Len(queue) = 0 /\ DOMAIN queue = {} /\ QueueLimit \in Nat /\ queuedBytes = 0
    BY RecorderAssumption DEF Init, RecorderAssumption
  <2>2. t \in [0 .. 0 -> 0 .. QueueLimit] /\ t[0] = 0 /\ \A i \in 0 .. 0 : i = 0
    BY <2>1
  <2> HIDE DEF t
  <2> QED
    BY <2>1, <2>2 DEF Accounted, RunningTotal
<1>2. TypeOK /\ Accounted /\ [Next]_vars => Accounted'
  BY AccountedNext
<1>3. Accounted => QueueAccounting
  BY DEF Accounted, QueueAccounting
<1> QED
  BY <1>1, <1>2, <1>3, RecorderTyped, PTL DEF Spec

-----------------------------------------------------------------------------
(* SegmentsPlayable.  What a segment holds depends on the order of what     *)
(* still waits to be written: the invariant relates the open files, the     *)
(* event in hand, the queue and the handlers' sessions.                     *)

(* The events still to be handled: the one in hand and those in the queue.  *)
Pending == {queue[i] : i \in DOMAIN queue} \cup ({cur} \ {NoEvent})

(* They came into the queue one after another, and the writer takes them in *)
(* that order.                                                              *)
QueueOrder ==
  /\ \A i, j \in DOMAIN queue : i < j => queue[i].n < queue[j].n
  /\ cur # NoEvent => \A i \in DOMAIN queue : cur.n < queue[i].n
  /\ \A e \in Pending : 0 < e.n /\ e.n <= made

(* A STREAM_START of sid is pending among the events numbered lo + 1 .. hi. *)
Restarted(sid, lo, hi) ==
  \E k \in Pending : k.type = "start" /\ k.sid = sid /\ lo < k.n /\ k.n <= hi

(* Where the session of a stream changes there is a STREAM_START.           *)
SessionOrder ==
  /\ \A e, f \in Pending :
       e.sid = f.sid /\ e.n < f.n /\ e.session # f.session => Restarted(e.sid, e.n, f.n)
  /\ \A e \in Pending : e.session # session[e.sid] => Restarted(e.sid, e.n, made)

(* A segment's body is older than all that is pending, and the stream       *)
(* continues its session unless a STREAM_START is pending.                  *)
Continues(sid, body) ==
  /\ Len(body) >= 2
  /\ \A i \in DOMAIN body : body[i].n <= made /\ \A e \in Pending : body[i].n < e.n
  /\ \A e \in Pending : e.sid = sid /\ e.session # body[1].session => Restarted(sid, 0, e.n)
  /\ body[1].session # session[sid] => Restarted(sid, 0, made)

(* A stream's open file bears its name and codec and can be played, but for *)
(* the steps between its opening and its first packet or after a torn one.  *)
OpenFile(sid) ==
  LET f == stream[sid].fp IN
  f # NoFile =>
    /\ f[1] = sid /\ f[3] = stream[sid].codec
    /\ IF pc = "head" /\ cur.sid = sid THEN tmp[f] = <<>>
       ELSE \/ pc \in {"discard", "discardAsk"} /\ cur.sid = sid
            \/ Begun(tmp[f], f[3]) /\ Continues(sid, tmp[f])

(* The parameter sets cached are those of the codec, and a segment is begun *)
(* with all of them and a key frame.                                        *)
ParamsCached ==
  /\ \A sid \in Streams : stream[sid].params \subseteq Needed(stream[sid].codec)
  /\ pc \in {"open", "roll", "head"} => cur.payload.key /\ ParamsReady(S)

PlayInv ==
  /\ QueueOrder /\ SessionOrder /\ ParamsCached
  /\ \A sid \in Streams : OpenFile(sid)
  /\ SegmentsPlayable

(* Pending events are events, NoEvent is none. *)
LEMMA PendingTyped ==
  ASSUME TypeOK
  PROVE  Pending \subseteq Events /\ NoEvent \notin Events /\ NoEvent \notin Pending
<1>1. NoEvent \notin Events
  BY DEF NoEvent, Events
<1>2. \A i \in DOMAIN queue : queue[i] \in Events
  BY DEF TypeOK
<1>3. cur \in {NoEvent} \cup Events
  BY DEF TypeOK
<1> QED
  BY <1>1, <1>2, <1>3 DEF Pending

(* The numbers in an event. *)
LEMMA EventNumbers ==
  ASSUME NEW e \in Events
  PROVE  e.n \in Nat /\ e.mono \in Nat /\ e.session \in Nat /\ e.sid \in Streams
<1>1. Seconds \subseteq Nat
  BY RecorderAssumption DEF Seconds, RecorderAssumption
<1> QED
  BY <1>1 DEF Events

-----------------------------------------------------------------------------
(* The order of the queue.                                                 *)

(* The writer goes on with an event or is done with it. *)
LEMMA OrderKept ==
  ASSUME QueueOrder, UNCHANGED <<queue, made>>, cur' \in {cur, NoEvent}
  PROVE  QueueOrder' /\ Pending' \subseteq Pending /\ {queue[i] : i \in DOMAIN queue} \subseteq Pending'
<1>1. Pending' \subseteq Pending /\ {queue[i] : i \in DOMAIN queue} \subseteq Pending'
  BY DEF Pending
<1> QED
  BY <1>1 DEF QueueOrder

(* It takes the oldest event. *)
LEMMA OrderDequeue ==
  ASSUME Inv, QueueOrder, Dequeue
  PROVE  QueueOrder' /\ Pending' = Pending
<1>1. /\ TypeOK /\ queue \in Seq(Events) /\ queue # <<>>
      /\ cur = NoEvent /\ cur' = queue[1] /\ queue' = Tail(queue)
      /\ made' = made
  BY DEF Inv, TypeOK, Dequeue
<1>2. /\ Len(queue) \in Nat \ {0} /\ DOMAIN queue = 1 .. Len(queue)
      /\ DOMAIN queue' = 1 .. Len(queue) - 1
      /\ \A i \in DOMAIN queue' : queue'[i] = queue[i + 1]
  BY <1>1
<1>3. cur' \in Events /\ cur' # NoEvent
  BY <1>1, <1>2, PendingTyped
<1>4. Pending' = Pending
  <2>1. {queue[i] : i \in DOMAIN queue} = {queue'[i] : i \in DOMAIN queue'} \cup {queue[1]}
    <3>1. ASSUME NEW i \in DOMAIN queue PROVE queue[i] \in {queue'[j] : j \in DOMAIN queue'} \cup {queue[1]}
      <4>1. CASE i = 1
        BY <4>1
      <4>2. CASE i # 1
        <5>1. i - 1 \in DOMAIN queue' /\ queue'[i - 1] = queue[i]
          BY <1>2, <4>2
        <5> QED
          BY <5>1
      <4> QED
        BY <4>1, <4>2
    <3>2. ASSUME NEW i \in DOMAIN queue' PROVE queue'[i] \in {queue[j] : j \in DOMAIN queue}
      BY <1>2
    <3>3. 1 \in DOMAIN queue
      BY <1>2
    <3> QED
      BY <3>1, <3>2, <3>3
  <2> QED
    BY <1>1, <1>3, <2>1 DEF Pending
<1>5. \A i, j \in DOMAIN queue' : i < j => queue'[i].n < queue'[j].n
  BY <1>2 DEF QueueOrder
<1>6. \A i \in DOMAIN queue' : cur'.n < queue'[i].n
  BY <1>1, <1>2 DEF QueueOrder
<1>7. \A e \in Pending' : 0 < e.n /\ e.n <= made'
  BY <1>1, <1>4 DEF QueueOrder
<1> QED
  BY <1>4, <1>5, <1>6, <1>7 DEF QueueOrder

(* A handler adds the youngest, or drops a packet. *)
LEMMA OrderEnqueue ==
  ASSUME TypeOK, QueueOrder, NEW e \in Events, Enqueue(e), e.n = made + 1
  PROVE  /\ QueueOrder' /\ Pending \subseteq Pending' /\ Pending' \subseteq Pending \cup {e}
         /\ e.type # "video" => e \in Pending'
<1>1. /\ queue \in Seq(Events) /\ made \in Nat
      /\ cur' = cur /\ made' = made + 1
      /\ (queue' = queue /\ e.type = "video") \/ queue' = Append(queue, e)
  BY DEF TypeOK, Enqueue
<1>2. \A k \in Pending : 0 < k.n /\ k.n <= made /\ k.n \in Nat
  BY PendingTyped, EventNumbers DEF QueueOrder
<1>3. CASE queue' = queue /\ e.type = "video"
  <2>1. Pending' = Pending
    BY <1>1, <1>3 DEF Pending
  <2>2. \A k \in Pending : k.n <= made + 1
    BY <1>1, <1>2
  <2> QED
    BY <1>1, <1>2, <1>3, <2>1, <2>2 DEF QueueOrder
<1>4. CASE queue' = Append(queue, e)
  <2> DEFINE q == queue'
  <2>1. /\ DOMAIN queue = 1 .. Len(queue) /\ DOMAIN q = 1 .. Len(queue) + 1 /\ Len(queue) \in Nat
        /\ q[Len(queue) + 1] = e /\ \A i \in DOMAIN queue : q[i] = queue[i] /\ i \in DOMAIN q
    BY <1>1, <1>4
  <2>2. \A i \in DOMAIN q : i = Len(queue) + 1 \/ i \in DOMAIN queue
    BY <2>1
  <2>3. Len(queue) + 1 \in DOMAIN q
    BY <2>1
  <2>4. Pending' = Pending \cup {e}
    <3>1. {q[i] : i \in DOMAIN q} = {queue[i] : i \in DOMAIN queue} \cup {e}
      <4> HIDE DEF q
      <4> QED
        BY <2>1, <2>2, <2>3
    <3> QED
      BY <1>1, <3>1 DEF Pending
  <2>5. \A k \in Pending' : 0 < k.n /\ k.n <= made'
    <3>1. made + 1 \in Nat /\ 0 < made + 1 /\ made + 1 <= made'
      BY <1>1
    <3>2. \A k \in Pending : k.n <= made'
      BY <1>1, <1>2
    <3> QED
      BY <1>1, <1>2, <2>4, <3>1, <3>2
  <2>6. \A i \in DOMAIN queue : queue[i] \in Pending
    BY DEF Pending
  <2>7. \A i \in DOMAIN queue : queue[i].n < e.n
    BY <1>1, <1>2, <2>6
  <2>8. \A i, j \in DOMAIN q : i < j => q[i].n < q[j].n
    <3> SUFFICES ASSUME NEW i \in DOMAIN q, NEW j \in DOMAIN q, i < j PROVE q[i].n < q[j].n
      OBVIOUS
    <3>1. i \in DOMAIN queue
      BY <2>1
    <3>2. CASE j \in DOMAIN queue
      BY <2>1, <3>1, <3>2 DEF QueueOrder
    <3>3. CASE j = Len(queue) + 1
      BY <2>1, <2>7, <3>1, <3>3
    <3> QED
      BY <2>2, <3>2, <3>3
  <2>9. cur # NoEvent => \A i \in DOMAIN q : cur.n < q[i].n
    <3> SUFFICES ASSUME cur # NoEvent, NEW i \in DOMAIN q PROVE cur.n < q[i].n
      OBVIOUS
    <3>1. cur \in Pending
      BY DEF Pending
    <3>2. CASE i \in DOMAIN queue
      BY <2>1, <3>2 DEF QueueOrder
    <3>3. CASE i = Len(queue) + 1
      BY <1>1, <1>2, <2>1, <3>1, <3>3
    <3> QED
      BY <2>2, <3>2, <3>3
  <2> QED
    BY <1>1, <2>4, <2>5, <2>8, <2>9 DEF QueueOrder
<1> QED
  BY <1>1, <1>3, <1>4

-----------------------------------------------------------------------------
(* Sessions.                                                               *)

(* More pending events keep a restart pending. *)
LEMMA RestartedKept ==
  ASSUME Pending \subseteq Pending', NEW sid, NEW lo, NEW hi, Restarted(sid, lo, hi)
  PROVE  Restarted(sid, lo, hi)'
BY DEF Restarted

(* A handler's new event has the session of its stream or begins one. *)
LEMMA SessionsEnqueue ==
  ASSUME TypeOK, QueueOrder, SessionOrder, NEW e \in Events, e.n = made + 1, made' = made + 1,
         Pending \subseteq Pending', Pending' \subseteq Pending \cup {e},
         \A t \in Streams \ {e.sid} : session'[t] = session[t],
         \/ e.type = "start" /\ e \in Pending' /\ session'[e.sid] = e.session
         \/ e.session = session[e.sid] /\ session'[e.sid] = session[e.sid]
  PROVE  /\ SessionOrder'
         /\ \A sid \in Streams, body \in Seq(Chunks) : Continues(sid, body) => Continues(sid, body)'
<1>0. made \in Nat /\ e.n \in Nat /\ e.sid \in Streams
  BY EventNumbers DEF TypeOK
<1>1. \A k \in Pending : k.n \in Nat /\ 0 < k.n /\ k.n <= made /\ k.sid \in Streams
  BY PendingTyped, EventNumbers DEF QueueOrder
<1>2. ASSUME NEW sid, NEW lo, NEW hi, Restarted(sid, lo, hi) PROVE Restarted(sid, lo, hi)'
  BY <1>2, RestartedKept
<1>3. ASSUME NEW sid, NEW lo \in Nat, lo <= made, Restarted(sid, lo, made)
      PROVE  Restarted(sid, lo, made)' /\ Restarted(sid, lo, e.n)'
  BY <1>0, <1>1, <1>3 DEF Restarted
<1>4. ASSUME NEW lo \in Nat, lo <= made, e.type = "start", e \in Pending'
      PROVE  Restarted(e.sid, lo, made)' /\ Restarted(e.sid, lo, e.n)'
  BY <1>0, <1>4 DEF Restarted
<1>5. SessionOrder'
  <2>1. ASSUME NEW k \in Pending', NEW m \in Pending',
               k.sid = m.sid, k.n < m.n, k.session # m.session
        PROVE  Restarted(k.sid, k.n, m.n)'
    <3>1. CASE k \in Pending /\ m \in Pending
      BY <1>2, <2>1, <3>1 DEF SessionOrder
    <3>2. CASE k \in Pending /\ m = e
      <4>1. k.n \in Nat /\ k.n <= made
        BY <1>1, <3>2
      <4>2. CASE e.type = "start"
        BY <1>4, <2>1, <3>2, <4>1, <4>2
      <4>3. CASE e.session = session[e.sid]
        <5>1. Restarted(k.sid, k.n, made)
          BY <2>1, <3>2, <4>3 DEF SessionOrder
        <5> QED
          BY <1>3, <3>2, <4>1, <5>1
      <4> QED
        BY <4>2, <4>3
    <3>3. CASE k = e
      BY <1>0, <1>1, <2>1, <3>3
    <3> QED
      BY <2>1, <3>1, <3>2, <3>3
  <2>2. ASSUME NEW k \in Pending', k.session # session'[k.sid] PROVE Restarted(k.sid, k.n, made)'
    <3>1. k \in Pending
      BY <2>2
    <3>2. k.n \in Nat /\ k.n <= made /\ k.sid \in Streams
      BY <1>1, <3>1
    <3>3. CASE k.session # session[k.sid]
      BY <1>3, <3>1, <3>2, <3>3 DEF SessionOrder
    <3>4. CASE k.session = session[k.sid]
      <4>1. k.sid = e.sid /\ e.type = "start" /\ e \in Pending'
        BY <2>2, <3>2, <3>4
      <4> QED
        BY <1>4, <3>2, <4>1
    <3> QED
      BY <3>3, <3>4
  <2> QED
    BY <2>1, <2>2 DEF SessionOrder
<1>6. ASSUME NEW sid \in Streams, NEW body \in Seq(Chunks), Continues(sid, body)
      PROVE  Continues(sid, body)'
  <2>1. \A i \in DOMAIN body : body[i].n \in Nat /\ body[i].n <= made
    <3>1. \A i \in DOMAIN body : body[i] \in Chunks
      OBVIOUS
    <3> QED
      BY <1>6, <3>1 DEF Continues, Chunks
  <2>2. \A i \in DOMAIN body : body[i].n <= made' /\ \A k \in Pending' : body[i].n < k.n
    BY <1>0, <1>6, <2>1 DEF Continues
  <2>3. ASSUME NEW k \in Pending', k.sid = sid, k.session # body[1].session
        PROVE  Restarted(sid, 0, k.n)'
    <3>1. CASE k \in Pending
      BY <1>2, <1>6, <2>3, <3>1 DEF Continues
    <3>2. CASE k = e /\ e.type = "start"
      BY <1>0, <1>4, <2>3, <3>2
    <3>3. CASE k = e /\ e.session = session[e.sid]
      <4>1. Restarted(sid, 0, made)
        BY <1>6, <2>3, <3>3 DEF Continues
      <4> QED
        BY <1>0, <1>3, <3>3, <4>1
    <3> QED
      BY <2>3, <3>1, <3>2, <3>3
  <2>4. ASSUME body[1].session # session'[sid] PROVE Restarted(sid, 0, made)'
    <3>1. CASE body[1].session # session[sid]
      BY <1>0, <1>3, <1>6, <3>1 DEF Continues
    <3>2. CASE body[1].session = session[sid]
      <4>1. sid = e.sid /\ e.type = "start" /\ e \in Pending'
        BY <2>4, <3>2
      <4> QED
        BY <1>0, <1>4, <4>1
    <3> QED
      BY <3>1, <3>2
  <2> QED
    BY <1>6, <2>2, <2>3, <2>4 DEF Continues
<1> QED
  BY <1>5, <1>6

(* With an event done with, or none, the others stay in order; a file still *)
(* open was not that of a STREAM_START.                                     *)
LEMMA SessionsKept ==
  ASSUME TypeOK, QueueOrder, SessionOrder, UNCHANGED <<queue, made, session>>,
         cur' \in {cur, NoEvent}
  PROVE  /\ SessionOrder'
         /\ \A sid \in Streams, body \in Seq(Chunks) :
              /\ Continues(sid, body)
              /\ cur' = cur \/ cur.type # "start" \/ cur.sid # sid
              => Continues(sid, body)'
<1>1. \A k \in Pending : k.n \in Nat /\ 0 < k.n
  BY PendingTyped, EventNumbers DEF QueueOrder
<1>2. Pending' \subseteq Pending /\ \A k \in Pending : k \in Pending' \/ (k = cur /\ cur' = NoEvent)
  BY DEF Pending
<1>3. \A k \in Pending' : k # cur => cur = NoEvent \/ cur.n < k.n
  BY DEF Pending, QueueOrder
<1>4. ASSUME NEW sid, NEW lo, NEW hi, Restarted(sid, lo, hi),
             cur' # cur => lo \in Nat /\ cur.n <= lo
      PROVE  Restarted(sid, lo, hi)'
  <2>1. PICK k \in Pending : k.type = "start" /\ k.sid = sid /\ lo < k.n /\ k.n <= hi
    BY <1>4 DEF Restarted
  <2>2. k \in Pending'
    <3>1. CASE k = cur /\ cur' = NoEvent
      <4>1. cur' # cur /\ cur.n \in Nat
        BY <1>1, <3>1, PendingTyped
      <4> QED
        BY <1>4, <2>1, <3>1, <4>1
    <3> QED
      BY <1>2, <3>1
  <2> QED
    BY <2>1, <2>2 DEF Restarted
<1>5. ASSUME NEW k \in Pending', cur' # cur PROVE k.n \in Nat /\ cur.n <= k.n
  <2>1. k.n \in Nat /\ k # NoEvent /\ cur # NoEvent /\ cur \in Pending
    BY <1>1, <1>2, <1>5, PendingTyped DEF Pending
  <2>2. cur.n \in Nat
    BY <1>1, <2>1
  <2> QED
    BY <1>3, <2>1, <2>2
<1>6. SessionOrder'
  <2>1. ASSUME NEW k \in Pending', NEW m \in Pending',
               k.sid = m.sid, k.n < m.n, k.session # m.session
        PROVE  Restarted(k.sid, k.n, m.n)'
    BY <1>2, <1>4, <1>5, <2>1 DEF SessionOrder
  <2>2. ASSUME NEW k \in Pending', k.session # session'[k.sid] PROVE Restarted(k.sid, k.n, made)'
    <3>1. Restarted(k.sid, k.n, made)
      BY <1>2, <2>2 DEF SessionOrder
    <3> QED
      BY <1>4, <1>5, <3>1 DEF Restarted
  <2> QED
    BY <2>1, <2>2 DEF SessionOrder
<1>7. ASSUME NEW sid \in Streams, NEW body \in Seq(Chunks), Continues(sid, body),
             cur' = cur \/ cur.type # "start" \/ cur.sid # sid
      PROVE  Continues(sid, body)'
  <2>1. ASSUME NEW hi, Restarted(sid, 0, hi) PROVE Restarted(sid, 0, hi)'
    <3>1. PICK k \in Pending : k.type = "start" /\ k.sid = sid /\ 0 < k.n /\ k.n <= hi
      BY <2>1 DEF Restarted
    <3>2. k \in Pending'
      BY <1>2, <1>7, <3>1, PendingTyped
    <3> QED
      BY <3>1, <3>2 DEF Restarted
  <2>2. Restarted(sid, 0, made) => Restarted(sid, 0, made)'
    BY <2>1 DEF Restarted
  <2> QED
    BY <1>2, <1>7, <2>1, <2>2 DEF Continues
<1> QED
  BY <1>6, <1>7

-----------------------------------------------------------------------------
(* Bodies that can be played.                                              *)

(* The beginning of a file cut off by a failed fclose. *)
LEMMA PrefixPlayable ==
  ASSUME NEW body \in Seq(Chunks), NEW codec, Begun(body, codec), NEW k \in 0 .. Len(body)
  PROVE  Begun(SubSeq(body, 1, k), codec)
<1> DEFINE b == SubSeq(body, 1, k)
<1>1. DOMAIN body = 1 .. Len(body) /\ Len(body) \in Nat
  OBVIOUS
<1>2. Len(b) = k /\ DOMAIN b = 1 .. k /\ \A i \in 1 .. k : b[i] = body[i] /\ i \in DOMAIN body
  BY <1>1
<1> HIDE DEF b
<1>3. ASSUME NEW i \in DOMAIN b
      PROVE  /\ b[i].kind = (IF i = 1 THEN "params" ELSE "packet")
             /\ i = 1 => b[i].sets = Needed(codec)
             /\ b[i].codec = codec /\ b[i].session = b[1].session
  <2>1. b[i] = body[i] /\ i \in DOMAIN body /\ b[1] = body[1]
    BY <1>2, <1>3
  <2> QED
    BY <2>1 DEF Begun
<1>4. Len(b) >= 2 => b[2].key
  BY <1>1, <1>2 DEF Begun
<1>5. \A i, j \in DOMAIN b : 1 < i /\ i < j => b[i].n < b[j].n
  BY <1>2 DEF Begun
<1>6. Begun(b, codec)
  BY <1>3, <1>4, <1>5 DEF Begun
<1> QED
  BY <1>6 DEF b

(* The same when it was cut within its last chunk. *)
LEMMA CutPlayable ==
  ASSUME NEW body \in Seq(Chunks), NEW codec, Begun(body, codec), NEW cut \in CutShort(body)
  PROVE  PlayableToCut(cut, codec)
<1>1. Len(body) \in Nat /\ DOMAIN body = 1 .. Len(body)
  OBVIOUS
<1>2. CASE \E k \in 0 .. Len(body) : cut = SubSeq(body, 1, k)
  BY <1>2, PrefixPlayable DEF PlayableToCut
<1>3. CASE \E k \in DOMAIN body : cut = [SubSeq(body, 1, k) EXCEPT ![k].kind = "torn"]
  <2>1. PICK k \in DOMAIN body : cut = [SubSeq(body, 1, k) EXCEPT ![k].kind = "torn"]
    BY <1>3
  <2> DEFINE b == SubSeq(body, 1, k)
             kind == body[k].kind
  <2>2. b \in Seq(Chunks) /\ Len(b) = k /\ k \in DOMAIN b /\ b[k] = body[k] /\ k \in 0 .. Len(body)
    BY <1>1
  <2>3. Begun(b, codec)
    BY <2>2, PrefixPlayable
  <2>4. kind \in {"params", "packet"}
    BY <2>1 DEF Begun
  <2> HIDE DEF b, kind
  <2>5. Len(cut) = k /\ cut # <<>> /\ [cut EXCEPT ![k].kind = kind] = b
    <3>1. cut = [b EXCEPT ![k] = [b[k] EXCEPT !.kind = "torn"]]
      BY <2>1 DEF b
    <3>2. b[k].kind = kind /\ b[k] \in Chunks
      BY <2>2 DEF b, kind
    <3>3. [[b[k] EXCEPT !.kind = "torn"] EXCEPT !.kind = kind] = b[k]
      BY <3>2 DEF Chunks
    <3>4. /\ DOMAIN cut = DOMAIN b /\ cut[k] = [b[k] EXCEPT !.kind = "torn"]
          /\ \A i \in DOMAIN b \ {k} : cut[i] = b[i]
      BY <2>2, <3>1
    <3>5. cut \in Seq(Chunks) /\ Len(cut) = k
      <4>1. [b[k] EXCEPT !.kind = "torn"] \in Chunks
        BY <3>2 DEF Chunks
      <4> QED
        BY <2>2, <3>1, <4>1
    <3> DEFINE c == [cut EXCEPT ![k].kind = kind]
    <3>6. c \in Seq(Chunks) /\ Len(c) = k /\ \A i \in 1 .. k : c[i] = b[i]
      <4>1. c = [cut EXCEPT ![k] = b[k]]
        BY <3>3, <3>4
      <4> QED
        BY <2>2, <3>2, <3>4, <3>5, <4>1
    <3> HIDE DEF c
    <3>7. c = b
      BY <2>2, <3>6
    <3> QED
      BY <2>2, <3>5, <3>7 DEF c
  <2> QED
    BY <2>3, <2>4, <2>5 DEF PlayableToCut
<1> QED
  BY <1>2, <1>3 DEF CutShort

(* The head of a segment. *)
LEMMA HeadPlayable ==
  ASSUME NEW codec, NEW h, NEW p, h.kind = "params", h.sets = Needed(codec), h.codec = codec,
         p.kind = "packet", p.codec = codec, p.session = h.session, p.key
  PROVE  Begun(<<h, p>>, codec)
<1> DEFINE b == <<h, p>>
<1>1. DOMAIN b = {1, 2} /\ Len(b) = 2 /\ b[1] = h /\ b[2] = p
  OBVIOUS
<1> HIDE DEF b
<1>2. Begun(b, codec)
  BY <1>1 DEF Begun
<1> QED
  BY <1>2 DEF b

(* One more packet of the same session. *)
LEMMA AppendPlayable ==
  ASSUME NEW codec, NEW body \in Seq(Chunks), Begun(body, codec), Len(body) >= 2,
         NEW p \in Chunks, p.kind = "packet", p.codec = codec, p.session = body[1].session,
         \A i \in DOMAIN body : body[i].n < p.n
  PROVE  Begun(Append(body, p), codec)
<1> DEFINE b == Append(body, p)
           m == Len(body)
<1>1. m \in Nat /\ m >= 2 /\ DOMAIN body = 1 .. m
  OBVIOUS
<1>2. /\ Len(b) = m + 1 /\ DOMAIN b = 1 .. m + 1 /\ b[m + 1] = p
      /\ \A i \in 1 .. m : b[i] = body[i]
  OBVIOUS
<1> HIDE DEF b, m
<1>3. ASSUME NEW i \in DOMAIN b
      PROVE  /\ b[i].kind = (IF i = 1 THEN "params" ELSE "packet")
             /\ i = 1 => b[i].sets = Needed(codec)
             /\ b[i].codec = codec /\ b[i].session = b[1].session
  <2>1. b[1] = body[1]
    BY <1>1, <1>2
  <2>2. CASE i \in 1 .. m
    <3>1. b[i] = body[i] /\ i \in DOMAIN body
      BY <1>1, <1>2, <2>2
    <3> QED
      BY <2>1, <3>1 DEF Begun
  <2>3. CASE i = m + 1
    BY <1>1, <1>2, <2>1, <2>3
  <2> QED
    BY <1>1, <1>2, <1>3, <2>2, <2>3
<1>4. b[2].key
  <2>1. b[2] = body[2] /\ Len(body) >= 2
    BY <1>1, <1>2 DEF m
  <2> QED
    BY <2>1 DEF Begun
<1>5. ASSUME NEW i \in DOMAIN b, NEW j \in DOMAIN b, 1 < i, i < j PROVE b[i].n < b[j].n
  <2>1. i \in 1 .. m /\ i \in DOMAIN body
    BY <1>1, <1>2, <1>5
  <2>2. CASE j \in 1 .. m
    BY <1>1, <1>2, <1>5, <2>1, <2>2 DEF Begun
  <2>3. CASE j = m + 1
    BY <1>2, <2>1, <2>3
  <2> QED
    BY <1>1, <1>2, <2>2, <2>3
<1>6. Begun(b, codec)
  BY <1>3, <1>4, <1>5 DEF Begun
<1> QED
  BY <1>6 DEF b

(* A segment that the packet in hand was written to. *)
LEMMA WrittenContinues ==
  ASSUME TypeOK, QueueOrder, SessionOrder, cur \in Events,
         UNCHANGED <<queue, made, session>>, cur' = NoEvent,
         NEW sid, sid = cur.sid, NEW body \in Seq(Chunks), Len(body) >= 2, body[1].session = cur.session,
         \A i \in DOMAIN body : body[i].n <= cur.n
  PROVE  Continues(sid, body)'
<1>0. cur \in Pending /\ cur.n \in Nat /\ made \in Nat /\ cur.n <= made
  BY PendingTyped, EventNumbers DEF Pending, QueueOrder, TypeOK
<1>1. \A k \in Pending' : k \in Pending /\ cur.n < k.n /\ k.n \in Nat
  BY <1>0, PendingTyped, EventNumbers DEF Pending, QueueOrder
<1>2. \A i \in DOMAIN body : body[i].n \in Nat
  <2>1. \A i \in DOMAIN body : body[i] \in Chunks
    OBVIOUS
  <2> QED
    BY <2>1 DEF Chunks
<1>3. ASSUME NEW hi, Restarted(sid, cur.n, hi) PROVE Restarted(sid, 0, hi)'
  <2>1. PICK k \in Pending : k.type = "start" /\ k.sid = cur.sid /\ cur.n < k.n /\ k.n <= hi
    BY <1>3 DEF Restarted
  <2>2. k \in Pending' /\ 0 < k.n
    BY <1>0, <2>1 DEF Pending, QueueOrder
  <2> QED
    BY <2>1, <2>2 DEF Restarted
<1>4. \A i \in DOMAIN body : body[i].n <= made' /\ \A k \in Pending' : body[i].n < k.n
  BY <1>0, <1>1, <1>2
<1>5. ASSUME NEW k \in Pending', k.sid = cur.sid, k.session # cur.session
      PROVE  Restarted(sid, 0, k.n)'
  BY <1>0, <1>1, <1>3, <1>5 DEF SessionOrder
<1>6. ASSUME cur.session # session[cur.sid] PROVE Restarted(sid, 0, made)'
  <2>1. Restarted(sid, cur.n, made)
    BY <1>0, <1>6 DEF SessionOrder
  <2>2. Restarted(sid, 0, made)' <=> \E k \in Pending' : k.type = "start" /\ k.sid = sid /\ 0 < k.n /\ k.n <= made
    BY DEF Restarted
  <2> QED
    BY <1>3, <2>1, <2>2 DEF Restarted
<1> QED
  BY <1>4, <1>5, <1>6 DEF Continues

(* The packet in hand continues the file it is for. *)
LEMMA SameSession ==
  ASSUME TypeOK, QueueOrder, cur \in Events, cur.type = "video", NEW body, Continues(cur.sid, body)
  PROVE  body[1].session = cur.session /\ \A i \in DOMAIN body : body[i].n < cur.n
<1>0. cur \in Pending /\ cur # NoEvent /\ cur.n \in Nat
  BY PendingTyped, EventNumbers DEF Pending
<1>1. \A k \in Pending : k = cur \/ (cur.n < k.n /\ k.n \in Nat)
  BY <1>0, PendingTyped, EventNumbers DEF Pending, QueueOrder
<1>2. ~Restarted(cur.sid, 0, cur.n)
  BY <1>0, <1>1 DEF Restarted
<1> QED
  BY <1>0, <1>2 DEF Continues

-----------------------------------------------------------------------------
(* Steps on one stream leave the files of the others.                      *)

(* A stream whose file and codec stay, and that is not in the writer's hand *)
(* between opening a file and its first packet, keeps its open file.        *)
LEMMA OtherFile ==
  ASSUME TypeOK, NEW t \in Streams, OpenFile(t),
         stream'[t].fp = stream[t].fp, stream'[t].codec = stream[t].codec,
         stream[t].fp # NoFile => tmp'[stream[t].fp] = tmp[stream[t].fp],
         \A body \in Seq(Chunks) : Continues(t, body) => Continues(t, body)',
         pc \notin {"head", "discard", "discardAsk"} \/ cur.sid # t,
         pc' # "head" \/ cur'.sid # t
  PROVE  OpenFile(t)'
<1> DEFINE f == stream[t].fp
<1>1. CASE f = NoFile
  BY <1>1 DEF OpenFile
<1>2. CASE f # NoFile
  <2>1. f \in Names /\ tmp[f] \in Seq(Chunks)
    BY <1>2 DEF TypeOK, RecorderStreams
  <2>2. f[1] = t /\ f[3] = stream[t].codec /\ Begun(tmp[f], f[3]) /\ Continues(t, tmp[f])
    BY <1>2 DEF OpenFile
  <2>3. PICK body \in Seq(Chunks) : body = tmp[f]
    BY <2>1
  <2>4. tmp'[f] = body /\ Begun(body, f[3]) /\ Continues(t, body)'
    BY <1>2, <2>2, <2>3
  <2> QED
    BY <1>2, <2>2, <2>4 DEF OpenFile
<1> QED
  BY <1>1, <1>2

(* The writer's work on the event in hand. *)
LEMMA PlayStep ==
  ASSUME Inv, PlayInv, pc \in WorkSteps, cur \in Events,
         NEW s \in RecorderStreams, SetStream(s), NEW next, Done(next), WriterQuiet, final' = final,
         \A g \in Names : g[1] # cur.sid => tmp'[g] = tmp[g],
         s.params \subseteq Needed(s.codec),
         next \in {"open", "roll", "head"} => cur.payload.key /\ ParamsReady(s),
         NEW sid \in Streams, sid = cur.sid, OpenFile(sid)'
  PROVE  PlayInv'
<1>0. /\ TypeOK /\ QueueOrder /\ SessionOrder /\ ParamsCached
      /\ \A t \in Streams : OpenFile(t)
  BY DEF Inv, PlayInv
<1>1. /\ stream'[sid] = s /\ \A t \in Streams \ {sid} : stream'[t] = stream[t]
      /\ pc' = next /\ (next # "wait" => cur' = cur) /\ cur' \in {cur, NoEvent}
      /\ UNCHANGED <<queue, made, session>>
  BY <1>0, StreamStored DEF Done, WriterQuiet
<1>3. QueueOrder'
  BY <1>0, <1>1, OrderKept
<1>4. SessionOrder'
  BY <1>0, <1>1, SessionsKept
<1>5. ASSUME NEW t \in Streams PROVE OpenFile(t)'
  <2>1. CASE t = sid
    BY <2>1
  <2>2. CASE t # sid
    <3>1. \A body \in Seq(Chunks) : Continues(t, body) => Continues(t, body)'
      BY <1>0, <1>1, <2>2, SessionsKept
    <3>2. stream[t].fp # NoFile => tmp'[stream[t].fp] = tmp[stream[t].fp]
      <4>1. stream[t].fp # NoFile => stream[t].fp \in Names /\ stream[t].fp[1] = t
        BY <1>0 DEF OpenFile, TypeOK, RecorderStreams
      <4> QED
        BY <2>2, <4>1
    <3>3. stream'[t] = stream[t]
      BY <1>1, <2>2
    <3>4. pc' # "head" \/ cur'.sid # t
      BY <1>1, <2>2
    <3> QED
      BY <1>0, <2>2, <3>1, <3>2, <3>3, <3>4, OtherFile
  <2> QED
    BY <2>1, <2>2
<1>6. ParamsCached'
  <2>1. \A t \in Streams : stream'[t].params \subseteq Needed(stream'[t].codec)
    BY <1>0, <1>1 DEF ParamsCached
  <2>2. pc' \in {"open", "roll", "head"} => cur'.payload.key /\ S' = s
    BY <1>1 DEF S
  <2> QED
    BY <1>1, <2>1, <2>2 DEF ParamsCached, ParamsReady
<1>7. SegmentsPlayable'
  BY DEF PlayInv, SegmentsPlayable
<1> QED
  BY <1>3, <1>4, <1>5, <1>6, <1>7 DEF PlayInv

(* Work on a VIDEO event that leaves the stream's file as it is, or closed. *)
LEMMA FileKept ==
  ASSUME Inv, PlayInv, pc \in WorkSteps \ {"head", "discard", "discardAsk"}, cur \in Events,
         cur.type = "video", NEW s \in RecorderStreams, SetStream(s),
         NEW next, next # "head", Done(next), WriterQuiet, tmp' = tmp,
         s.fp \in {S.fp, NoFile}, s.codec = S.codec, NEW sid \in Streams, sid = cur.sid
  PROVE  OpenFile(sid)'
<1>0. TypeOK /\ QueueOrder /\ SessionOrder /\ OpenFile(sid) /\ S = stream[sid]
  BY DEF Inv, PlayInv, S
<1>1. /\ stream'[sid] = s /\ pc' = next /\ cur' \in {cur, NoEvent}
      /\ UNCHANGED <<queue, made, session>>
  BY <1>0, StreamStored DEF Done, WriterQuiet
<1>2. CASE s.fp = NoFile
  BY <1>1, <1>2 DEF OpenFile
<1>3. CASE s.fp = S.fp
  <2>1. \A body \in Seq(Chunks) : Continues(sid, body) => Continues(sid, body)'
    BY <1>0, <1>1, SessionsKept
  <2> QED
    BY <1>0, <1>1, <1>3, <2>1, OtherFile
<1> QED
  BY <1>2, <1>3

(* STREAM_START and STREAM_STOP find the file closed. *)
LEMMA PlayHandle ==
  ASSUME Inv, PlayInv, HandleStart \/ HandleStop
  PROVE  PlayInv'
<1>1. pc \in WorkSteps /\ TypeOK /\ cur \in Events
  BY EventInHand DEF HandleStart, HandleStop, WorkSteps
<1>2. PICK sid \in Streams : sid = cur.sid
  BY <1>1, CurrentStream
<1>3. Done("wait") /\ WriterQuiet /\ final' = final /\ tmp' = tmp
  BY DEF HandleStart, HandleStop, NoFileWork, fileVars
<1>4. \E s \in RecorderStreams : SetStream(s) /\ s.fp = NoFile /\ s.params = {}
  <2>1. CASE HandleStop
    BY <2>1, ZeroTyped DEF HandleStop, ZeroStream
  <2>2. CASE HandleStart
    <3> DEFINE records == cur.sid \in EnabledStreams /\ cur.codec \in Supported
               idr == IF records THEN ForceIdr(NoIdr, cur.mono) ELSE NoIdr
               s == [ZeroStream EXCEPT !.active = records, !.codec = cur.codec, !.waiting = TRUE,
                                       !.idr = idr]
    <3>1. idr \in Idrs
      BY <1>1, CurrentStream, RequestsTyped DEF NoIdr, Idrs
    <3>2. cur.codec \in Nat /\ records \in BOOLEAN
      BY <1>1 DEF Events
    <3>3. SetStream(s)
      BY <2>2 DEF HandleStart
    <3> HIDE DEF records, idr
    <3>4. s \in RecorderStreams /\ s.fp = NoFile /\ s.params = {}
      <4>1. s.fp = NoFile /\ s.params = {}
        BY DEF ZeroStream
      <4>2. s \in RecorderStreams
        BY <3>1, <3>2, ZeroTyped DEF RecorderStreams
      <4> QED
        BY <4>1, <4>2
    <3> QED
      BY <3>3, <3>4
  <2> QED
    BY <2>1, <2>2
<1>5. PICK s \in RecorderStreams : SetStream(s) /\ s.fp = NoFile /\ s.params = {}
  BY <1>4
<1>6. OpenFile(sid)'
  BY <1>1, <1>2, <1>5, StreamStored DEF OpenFile
<1> QED
  BY <1>1, <1>2, <1>3, <1>5, <1>6, PlayStep

-----------------------------------------------------------------------------
(* The steps of process_video.                                             *)

(* The parameter sets of a stream through process_video. *)
LEMMA VideoParams ==
  ASSUME TypeOK, cur \in Events
  PROVE  /\ S.params \subseteq Needed(S.codec) => Analyzed.params \subseteq Needed(S.codec)
         /\ RolloverChecked.params = Analyzed.params
<1>1. S \in RecorderStreams
  BY CurrentStream
<1>2. S.params \subseteq Needed(S.codec) => Analyzed.params \subseteq Needed(S.codec)
  BY <1>1 DEF Analyzed, RecorderStreams
<1>3. RolloverChecked.params = Analyzed.params
  <2> DEFINE a == Analyzed
  <2>1. a \in RecorderStreams
    BY AnalyzedTyped
  <2>2. \/ RolloverChecked = a
        \/ \E i : RolloverChecked = [a EXCEPT !.rollover = TRUE, !.idr = i]
    BY DEF RolloverChecked
  <2> HIDE DEF a
  <2>3. RolloverChecked.params = a.params
    BY <2>1, <2>2 DEF RecorderStreams
  <2> QED
    BY <2>3 DEF a
<1> QED
  BY <1>2, <1>3

(* What all branches of process_video begin with. *)
LEMMA PlayInVideo ==
  ASSUME Inv, PlayInv, NEW s \in RecorderStreams, NEW next \in {"wait", "open", "roll", "append"},
         InVideo(s, next), s.fp = S.fp, s.codec = S.codec, s.params = Analyzed.params,
         next \in {"open", "roll"} => Startable
  PROVE  PlayInv'
<1>1. pc = "video" /\ pc \in WorkSteps
  BY DEF InVideo, WorkSteps
<1>2. TypeOK /\ cur \in Events /\ cur.type = "video"
  BY <1>1, EventInHand DEF Inv, WriterInv
<1>3. PICK sid \in Streams : sid = cur.sid
  BY <1>2, CurrentStream
<1>4. SetStream(s) /\ Done(next) /\ WriterQuiet /\ final' = final /\ tmp' = tmp
  BY DEF InVideo, NoFileWork, fileVars
<1>5. s.params \subseteq Needed(s.codec)
  BY <1>2, <1>3, VideoParams DEF PlayInv, ParamsCached, S
<1>6. next \in {"open", "roll"} => cur.payload.key /\ ParamsReady(s)
  BY <1>2, AnalyzedTyped DEF Startable, ParamsReady
<1>7. OpenFile(sid)'
  BY <1>1, <1>2, <1>3, <1>4, FileKept
<1> QED
  BY <1>1, <1>2, <1>3, <1>4, <1>5, <1>6, <1>7, PlayStep

(* process_video up to its file operations. *)
LEMMA PlayVideo ==
  ASSUME Inv, PlayInv, Video
  PROVE  PlayInv'
<1>1. pc = "video" /\ pc \in WorkSteps
  BY DEF Video, IgnoreVideo, SkipUnmounted, AwaitKeyframe, BeginSegment, WriteOrRoll, WorkSteps
<1>2. TypeOK /\ cur \in Events /\ cur.type = "video"
  BY <1>1, EventInHand DEF Inv, WriterInv
<1>3. /\ Analyzed \in RecorderStreams /\ Analyzed.codec = S.codec /\ Analyzed.fp = S.fp
      /\ RolloverChecked \in RecorderStreams /\ RolloverChecked.codec = S.codec
      /\ RolloverChecked.fp = S.fp /\ RolloverChecked.params = Analyzed.params
      /\ Analyzed.idr \in Idrs /\ RolloverChecked.idr \in Idrs
      /\ S \in RecorderStreams /\ cur.mono \in Nat /\ cur.sid \in 1 .. MaxStreams
  BY <1>2, AnalyzedTyped, RolloverCheckedTyped, VideoParams, CurrentStream DEF RecorderStreams
<1>4. ASSUME NEW s \in RecorderStreams, NEW i \in Idrs
      PROVE  LET r == [s EXCEPT !.idr = i]
             IN  r \in RecorderStreams /\ r.fp = s.fp /\ r.codec = s.codec /\ r.params = s.params
  BY DEF RecorderStreams
<1>5. CASE IgnoreVideo
  <2>1. PICK sid \in Streams : sid = cur.sid
    BY <1>2, CurrentStream
  <2>2. SetStream(S) /\ Done("wait") /\ WriterQuiet /\ final' = final /\ tmp' = tmp
    BY <1>2, <1>5 DEF IgnoreVideo, NoFileWork, fileVars, SetStream, S, TypeOK
  <2>3. OpenFile(sid)'
    BY <1>1, <1>2, <1>3, <2>1, <2>2, FileKept
  <2>4. S.params \subseteq Needed(S.codec)
    BY <2>1 DEF PlayInv, ParamsCached, S
  <2> QED
    BY <1>1, <1>2, <1>3, <2>1, <2>2, <2>3, <2>4, PlayStep
<1>6. CASE SkipUnmounted
  <2> DEFINE a == Analyzed
             s == [a EXCEPT !.waiting = TRUE, !.rollover = FALSE]
  <2>1. InVideo(s, "wait")
    BY <1>6 DEF SkipUnmounted
  <2>2. a \in RecorderStreams /\ a.codec = S.codec /\ a.fp = S.fp
    BY <1>3
  <2> HIDE DEF a
  <2>3. s \in RecorderStreams /\ s.fp = a.fp /\ s.codec = a.codec /\ s.params = a.params
    BY <2>2 DEF RecorderStreams
  <2> HIDE DEF s
  <2> QED
    BY <2>1, <2>2, <2>3, PlayInVideo DEF a
<1>7. CASE AwaitKeyframe
  <2>1. RequestIdr(Analyzed.idr, cur.mono) \in Idrs
    BY <1>3, RequestsTyped
  <2>2. PICK i \in Idrs : InVideo([Analyzed EXCEPT !.idr = i], "wait")
    BY <1>7, <2>1 DEF AwaitKeyframe
  <2> QED
    BY <1>3, <1>4, <2>2, PlayInVideo
<1>8. CASE BeginSegment
  BY <1>3, <1>8, PlayInVideo DEF BeginSegment
<1>9. CASE WriteOrRoll
  <2> DEFINE r == RolloverChecked
  <2>1. RequestIdr(r.idr, cur.mono) \in Idrs /\ PeriodicIdr(r.idr, cur.sid, cur.mono) \in Idrs
    BY <1>3, RequestsTyped, PeriodicTyped
  <2>2. \/ InVideo(r, "roll") /\ Startable
        \/ InVideo([r EXCEPT !.idr = RequestIdr(r.idr, cur.mono)], "append")
        \/ InVideo([r EXCEPT !.idr = r.idr], "append")
        \/ InVideo([r EXCEPT !.idr = PeriodicIdr(r.idr, cur.sid, cur.mono)], "append")
    BY <1>9 DEF WriteOrRoll
  <2>3. r.idr \in Idrs
    BY <1>3
  <2>4. \/ InVideo(r, "roll") /\ Startable
        \/ \E i \in Idrs : InVideo([r EXCEPT !.idr = i], "append")
    <3> HIDE DEF r
    <3> QED
      BY <2>1, <2>2, <2>3
  <2>5. CASE InVideo(r, "roll") /\ Startable
    BY <1>3, <2>5, PlayInVideo
  <2>6. CASE \E i \in Idrs : InVideo([r EXCEPT !.idr = i], "append")
    BY <1>3, <1>4, <2>6, PlayInVideo
  <2> QED
    BY <2>4, <2>5, <2>6
<1> QED
  BY <1>5, <1>6, <1>7, <1>8, <1>9 DEF Video

(* A new segment is empty. *)
LEMMA PlayOpen ==
  ASSUME Inv, PlayInv, OpenSegment
  PROVE  PlayInv'
<1> DEFINE idr == [S.idr EXCEPT !.next = NextPeriodic(cur.sid, cur.mono), !.count = 0]
           s == [S EXCEPT !.fp = OpenName, !.startWall = cur.wall, !.packets = 0,
                          !.waiting = FALSE, !.rollover = FALSE, !.idr = idr]
<1>1. pc \in {"open", "roll"} /\ Opening /\ pc \in WorkSteps
  BY DEF OpenSegment, Opening, WorkSteps
<1>2. TypeOK /\ cur \in Events
  BY <1>1, EventInHand
<1>3. PICK sid \in Streams : sid = cur.sid /\ sid \in 1 .. MaxStreams
  BY <1>2, CurrentStream
<1>4. /\ S \in RecorderStreams /\ S.idr \in Idrs /\ cur.wall \in Nat /\ cur.mono \in Nat
      /\ OpenName \in Names /\ OpenName # NoFile
  BY <1>1, <1>2, CurrentStream, OpenNameTyped
<1>5. idr \in Idrs
  BY <1>3, <1>4, NextPeriodicTyped DEF Idrs
<1>6. /\ SetStream(s) /\ Done("head") /\ WriterQuiet /\ final' = final
      /\ tmp' = [tmp EXCEPT ![OpenName] = <<>>]
  BY DEF OpenSegment
<1> HIDE DEF idr
<1>7. s \in RecorderStreams /\ s.fp = OpenName /\ s.codec = S.codec /\ s.params = S.params
  BY <1>4, <1>5 DEF RecorderStreams
<1> HIDE DEF s
<1>8. OpenName[1] = sid /\ OpenName[3] = s.codec
  BY <1>3, <1>7 DEF OpenName
<1>9. tmp'[OpenName] = <<>> /\ \A g \in Names : g[1] # cur.sid => tmp'[g] = tmp[g]
  BY <1>2, <1>3, <1>4, <1>6, <1>8 DEF TypeOK
<1>10. stream'[sid] = s /\ pc' = "head" /\ cur' = cur
  BY <1>2, <1>3, <1>6, <1>7, StreamStored DEF Done
<1>11. OpenFile(sid)'
  BY <1>3, <1>7, <1>8, <1>9, <1>10 DEF OpenFile
<1>12. s.params \subseteq Needed(s.codec) /\ cur.payload.key /\ ParamsReady(s)
  BY <1>1, <1>3, <1>7 DEF PlayInv, ParamsCached, ParamsReady, S
<1> QED
  BY <1>1, <1>2, <1>3, <1>6, <1>7, <1>9, <1>11, <1>12, PlayStep

(* A failed open leaves the old file or none. *)
LEMMA PlayOpenFails ==
  ASSUME Inv, PlayInv, OpenFails
  PROVE  PlayInv'
<1>1. pc \in {"open", "roll"} /\ pc \in WorkSteps
  BY DEF OpenFails, Opening, WorkSteps
<1>2. TypeOK /\ cur \in Events /\ cur.type = "video" /\ S \in RecorderStreams
  BY <1>1, EventInHand, CurrentStream DEF Inv, WriterInv
<1>3. PICK sid \in Streams : sid = cur.sid
  BY <1>2, CurrentStream
<1>4. Done("wait") /\ WriterQuiet /\ final' = final /\ tmp' = tmp
  BY DEF OpenFails, fileVars
<1>5. /\ NotOpened(S) \in RecorderStreams /\ NotOpened(S).fp = S.fp
      /\ NotOpened(S).codec = S.codec /\ NotOpened(S).params = S.params
  BY <1>2 DEF NotOpened, RecorderStreams
<1>6. LET n == [NotOpened(S) EXCEPT !.fp = NoFile]
      IN  n \in RecorderStreams /\ n.fp = NoFile /\ n.codec = S.codec /\ n.params = S.params
  BY <1>5 DEF RecorderStreams
<1>7. PICK s \in RecorderStreams : /\ SetStream(s) /\ s.fp \in {S.fp, NoFile}
                                   /\ s.codec = S.codec /\ s.params = S.params
  BY <1>5, <1>6 DEF OpenFails
<1>8. OpenFile(sid)'
  BY <1>1, <1>2, <1>3, <1>4, <1>7, FileKept
<1>9. s.params \subseteq Needed(s.codec)
  BY <1>3, <1>7 DEF PlayInv, ParamsCached, S
<1> QED
  BY <1>1, <1>2, <1>3, <1>4, <1>7, <1>8, <1>9, PlayStep

(* The chunks written for the packet in hand. *)
LEMMA ChunkFields ==
  ASSUME TypeOK, cur \in Events
  PROVE  /\ ParamsChunk(S, cur) \in Chunks /\ Packet(S, cur) \in Chunks
         /\ ParamsChunk(S, cur).kind = "params" /\ ParamsChunk(S, cur).sets = S.params
         /\ ParamsChunk(S, cur).codec = S.codec /\ ParamsChunk(S, cur).session = cur.session
         /\ ParamsChunk(S, cur).n = 0
         /\ Packet(S, cur).kind = "packet" /\ Packet(S, cur).codec = S.codec
         /\ Packet(S, cur).session = cur.session /\ Packet(S, cur).n = cur.n
         /\ Packet(S, cur).key = cur.payload.key
BY ChunksTyped DEF ParamsChunk, Packet

(* A packet more: the stream counts it. *)
LEMMA CountFields ==
  ASSUME NEW r \in RecorderStreams
  PROVE  LET s == [r EXCEPT !.packets = @ + 1]
         IN  s \in RecorderStreams /\ s.fp = r.fp /\ s.codec = r.codec /\ s.params = r.params
<1>1. r.packets + 1 \in Nat
  BY DEF RecorderStreams
<1> QED
  BY <1>1 DEF RecorderStreams

(* The first packet of a segment. *)
LEMMA PlayHead ==
  ASSUME Inv, PlayInv, WriteHead
  PROVE  PlayInv'
<1> DEFINE s == [S EXCEPT !.packets = @ + 1]
<1>1. pc = "head" /\ pc \in WorkSteps
  BY DEF WriteHead, WorkSteps
<1>2. TypeOK /\ cur \in Events /\ S \in RecorderStreams /\ QueueOrder /\ SessionOrder
  BY <1>1, EventInHand, CurrentStream DEF PlayInv
<1>3. PICK sid \in Streams : sid = cur.sid
  BY <1>2, CurrentStream
<1>4. /\ S.fp # NoFile /\ S = stream[sid] /\ S.params = Needed(S.codec) /\ cur.payload.key
      /\ S.params \subseteq Needed(S.codec)
  BY <1>1, <1>2, <1>3, CurrentStream DEF Inv, WriterInv, PlayInv, ParamsCached, ParamsReady, S
<1>5. PICK f \in Names : f = S.fp
  BY <1>2, <1>4, CurrentStream
<1>6. f[1] = sid /\ f[3] = S.codec /\ tmp[f] = <<>>
  BY <1>1, <1>3, <1>4, <1>5 DEF PlayInv, OpenFile
<1>7. PICK h \in Chunks, p \in Chunks : h = ParamsChunk(S, cur) /\ p = Packet(S, cur)
  BY <1>2, ChunkFields
<1>8. SetStream(s) /\ Done("wait") /\ WriterQuiet /\ final' = final
      /\ tmp' = [tmp EXCEPT ![f] = tmp[f] \o <<h, p>>]
  BY <1>5, <1>7 DEF WriteHead
<1>9. s \in RecorderStreams /\ s.fp = f /\ s.codec = S.codec /\ s.params = S.params
  BY <1>2, <1>5, CountFields
<1>10. /\ h.kind = "params" /\ h.sets = S.params
       /\ h.codec = S.codec /\ h.session = cur.session /\ h.n = 0
       /\ p.kind = "packet" /\ p.codec = S.codec /\ p.session = cur.session /\ p.n = cur.n /\ p.key
  BY <1>2, <1>4, <1>7, ChunkFields
<1> HIDE DEF s
<1>11. PICK b \in Seq(Chunks) : b = <<h, p>>
  <2>1. <<h, p>> \in Seq(Chunks)
    OBVIOUS
  <2> QED
    BY <2>1
<1>12. <<>> \o b = b /\ Len(b) = 2 /\ b[1] = h /\ DOMAIN b = {1, 2} /\ b[2] = p
  BY <1>11
<1>13. tmp'[f] = b /\ \A g \in Names : g[1] # cur.sid => tmp'[g] = tmp[g]
  BY <1>2, <1>3, <1>6, <1>8, <1>11, <1>12 DEF TypeOK
<1>14. Begun(b, f[3])
  BY <1>4, <1>6, <1>10, <1>11, HeadPlayable
<1>15. Continues(sid, b)'
  <2>1. cur.n \in Nat
    BY <1>2, EventNumbers
  <2>2. \A i \in DOMAIN b : b[i].n <= cur.n
    BY <1>10, <1>12, <2>1
  <2>3. UNCHANGED <<queue, made, session>> /\ cur' = NoEvent
    BY <1>8 DEF WriterQuiet, Done
  <2>4. Len(b) >= 2 /\ b[1].session = cur.session
    BY <1>10, <1>12
  <2> QED
    BY <1>2, <1>3, <2>2, <2>3, <2>4, WrittenContinues
<1>16. OpenFile(sid)'
  <2>1. stream'[sid].fp = f /\ stream'[sid].codec = f[3] /\ tmp'[f] = b /\ pc' = "wait"
    BY <1>2, <1>3, <1>6, <1>8, <1>9, <1>13, StreamStored DEF Done
  <2> QED
    BY <1>6, <1>14, <1>15, <2>1 DEF OpenFile
<1> QED
  BY <1>1, <1>2, <1>3, <1>4, <1>8, <1>9, <1>13, <1>16, PlayStep

(* One more packet. *)
LEMMA PlayAppend ==
  ASSUME Inv, PlayInv, AppendPacket
  PROVE  PlayInv'
<1> DEFINE s == [S EXCEPT !.packets = @ + 1]
<1>1. pc = "append" /\ pc \in WorkSteps /\ S.fp # NoFile
  BY DEF AppendPacket, WorkSteps
<1>2. TypeOK /\ cur \in Events /\ S \in RecorderStreams /\ QueueOrder /\ SessionOrder
      /\ cur.type = "video"
  BY <1>1, EventInHand, CurrentStream DEF PlayInv, Inv, WriterInv
<1>3. PICK sid \in Streams : sid = cur.sid
  BY <1>2, CurrentStream
<1>4. S = stream[sid] /\ S.params \subseteq Needed(S.codec)
  BY <1>3 DEF PlayInv, ParamsCached, S
<1>5. PICK f \in Names : f = S.fp
  BY <1>1, <1>2, CurrentStream
<1>6. PICK b \in Seq(Chunks) : b = tmp[f]
  BY <1>2 DEF TypeOK
<1>7. f[1] = sid /\ f[3] = S.codec /\ Begun(b, f[3]) /\ Continues(sid, b)
  BY <1>1, <1>3, <1>4, <1>5, <1>6 DEF PlayInv, OpenFile
<1>8. PICK p \in Chunks : p = Packet(S, cur)
  BY <1>2, ChunkFields
<1>9. SetStream(s) /\ Done("wait") /\ WriterQuiet /\ final' = final
      /\ tmp' = [tmp EXCEPT ![f] = Append(b, p)]
  BY <1>5, <1>6, <1>8 DEF AppendPacket
<1>10. s \in RecorderStreams /\ s.fp = f /\ s.codec = S.codec /\ s.params = S.params
  BY <1>2, <1>5, CountFields
<1>11. p.kind = "packet" /\ p.codec = S.codec /\ p.session = cur.session /\ p.n = cur.n
  BY <1>2, <1>8, ChunkFields
<1> HIDE DEF s
<1>12. PICK c \in Seq(Chunks) : c = Append(b, p)
  <2>1. Append(b, p) \in Seq(Chunks)
    OBVIOUS
  <2> QED
    BY <2>1
<1>13. tmp'[f] = c /\ \A g \in Names : g[1] # cur.sid => tmp'[g] = tmp[g]
  BY <1>2, <1>3, <1>7, <1>9, <1>12 DEF TypeOK
<1>14. Len(b) \in Nat /\ Len(b) >= 2 /\ b[1].session = cur.session
       /\ \A i \in DOMAIN b : b[i].n < cur.n
  BY <1>2, <1>3, <1>7, SameSession DEF Continues
<1>15. Begun(c, f[3])
  BY <1>7, <1>11, <1>12, <1>14, AppendPlayable
<1>16. Continues(sid, c)'
  <2>1. /\ Len(c) = Len(b) + 1 /\ DOMAIN c = 1 .. Len(b) + 1 /\ c[Len(b) + 1] = p
        /\ DOMAIN b = 1 .. Len(b) /\ \A i \in 1 .. Len(b) : c[i] = b[i]
    BY <1>12
  <2>2. cur.n \in Nat /\ \A i \in DOMAIN b : b[i].n \in Nat
    <3>1. \A i \in DOMAIN b : b[i] \in Chunks
      OBVIOUS
    <3> QED
      BY <1>2, <3>1, EventNumbers DEF Chunks
  <2>3. \A i \in DOMAIN c : c[i].n <= cur.n
    <3> SUFFICES ASSUME NEW i \in DOMAIN c PROVE c[i].n <= cur.n
      OBVIOUS
    <3>1. CASE i = Len(b) + 1
      BY <1>11, <2>1, <2>2, <3>1
    <3>2. CASE i \in DOMAIN b
      BY <1>14, <2>1, <2>2, <3>2
    <3> QED
      BY <1>14, <2>1, <3>1, <3>2
  <2>4. Len(c) >= 2 /\ c[1].session = cur.session
    BY <1>14, <2>1
  <2>5. UNCHANGED <<queue, made, session>> /\ cur' = NoEvent
    BY <1>9 DEF WriterQuiet, Done
  <2> QED
    BY <1>2, <1>3, <2>3, <2>4, <2>5, WrittenContinues
<1>17. OpenFile(sid)'
  <2>1. stream'[sid].fp = f /\ stream'[sid].codec = f[3] /\ tmp'[f] = c /\ pc' = "wait"
    BY <1>2, <1>3, <1>7, <1>9, <1>10, <1>13, StreamStored DEF Done
  <2> QED
    BY <1>7, <1>15, <1>16, <2>1 DEF OpenFile
<1> QED
  BY <1>1, <1>2, <1>3, <1>4, <1>9, <1>10, <1>13, <1>17, PlayStep

(* A torn packet: the file is about to be discarded. *)
LEMMA PlayWriteFails ==
  ASSUME Inv, PlayInv, WriteHeadFails \/ AppendFails
  PROVE  PlayInv'
<1>1. pc \in {"head", "append"} /\ pc \in WorkSteps
  BY DEF WriteHeadFails, AppendFails, WorkSteps
<1>2. TypeOK /\ cur \in Events /\ S \in RecorderStreams
  BY <1>1, EventInHand, CurrentStream
<1>3. PICK sid \in Streams : sid = cur.sid
  BY <1>2, CurrentStream
<1>4. S.fp # NoFile /\ S = stream[sid] /\ S.params \subseteq Needed(S.codec)
  BY <1>1, <1>3 DEF Inv, WriterInv, PlayInv, ParamsCached, S
<1>5. PICK f \in Names : f = S.fp
  BY <1>2, <1>4, CurrentStream
<1>6. f[1] = sid /\ f[3] = S.codec
  BY <1>4, <1>5 DEF PlayInv, OpenFile
<1>7. SetStream(S) /\ WriterQuiet /\ final' = final
      /\ \E x : tmp' = [tmp EXCEPT ![f] = x]
  BY <1>2, <1>5 DEF WriteHeadFails, AppendFails, SetStream, S, TypeOK
<1>8. PICK next \in {"discard", "discardAsk"} : Done(next)
  BY DEF WriteHeadFails, AppendFails
<1>9. \A g \in Names : g[1] # cur.sid => tmp'[g] = tmp[g]
  BY <1>2, <1>3, <1>6, <1>7 DEF TypeOK
<1>10. OpenFile(sid)'
  <2>1. stream'[sid] = S /\ pc' = next /\ cur' = cur
    BY <1>2, <1>3, <1>7, <1>8, StreamStored DEF Done
  <2> QED
    BY <1>3, <1>5, <1>6, <1>8, <2>1 DEF OpenFile
<1> QED
  BY <1>1, <1>2, <1>3, <1>4, <1>7, <1>8, <1>9, <1>10, PlayStep

(* The file is closed and not renamed. *)
LEMMA PlayDiscard ==
  ASSUME Inv, PlayInv, Discard
  PROVE  PlayInv'
<1> DEFINE idr == IF pc = "discardAsk" THEN ForceIdr(Closed(S).idr, cur.mono) ELSE Closed(S).idr
           c == Closed(S)
           s == [c EXCEPT !.waiting = TRUE, !.idr = idr]
<1>1. pc \in {"discard", "discardAsk"} /\ pc \in WorkSteps
  BY DEF Discard, WorkSteps
<1>2. TypeOK /\ cur \in Events /\ S \in RecorderStreams /\ cur.mono \in Nat
  BY <1>1, EventInHand, CurrentStream
<1>3. PICK sid \in Streams : sid = cur.sid
  BY <1>2, CurrentStream
<1>4. S.fp # NoFile /\ S = stream[sid] /\ S.params \subseteq Needed(S.codec)
  BY <1>1, <1>3 DEF Inv, WriterInv, PlayInv, ParamsCached, S
<1>5. PICK f \in Names : f = S.fp
  BY <1>2, <1>4, CurrentStream
<1>6. f[1] = sid
  BY <1>4, <1>5 DEF PlayInv, OpenFile
<1>7. /\ SetStream(s) /\ Done("wait") /\ WriterQuiet /\ final' = final
      /\ (tmp' = [tmp EXCEPT ![f] = <<>>] \/ tmp' = tmp)
  BY <1>5 DEF Discard
<1>8. c \in RecorderStreams /\ c.fp = NoFile /\ c.codec = S.codec /\ c.params = S.params
      /\ c.idr \in Idrs
  <2>1. [S.idr EXCEPT !.next = 0] \in Idrs
    BY <1>2 DEF RecorderStreams, Idrs
  <2>2. c \in RecorderStreams /\ c.fp = NoFile /\ c.codec = S.codec /\ c.params = S.params
    BY <1>2, <2>1 DEF RecorderStreams, Closed
  <2> QED
    BY <2>2 DEF RecorderStreams
<1>9. idr \in Idrs
  BY <1>2, <1>8, RequestsTyped
<1> HIDE DEF idr, c
<1>10. s \in RecorderStreams /\ s.fp = NoFile /\ s.codec = S.codec /\ s.params = S.params
  BY <1>8, <1>9 DEF RecorderStreams
<1> HIDE DEF s
<1>11. \A g \in Names : g[1] # cur.sid => tmp'[g] = tmp[g]
  BY <1>2, <1>3, <1>6, <1>7 DEF TypeOK
<1>12. OpenFile(sid)'
  BY <1>2, <1>3, <1>7, <1>10, StreamStored DEF OpenFile
<1> QED
  BY <1>1, <1>2, <1>3, <1>4, <1>7, <1>10, <1>11, <1>12, PlayStep

-----------------------------------------------------------------------------
(* Steps that leave the event in hand.                                     *)

(* A stream that nothing happens to keeps its file, wherever the writer is. *)
LEMMA SameFile ==
  ASSUME TypeOK, NEW t \in Streams, OpenFile(t), stream'[t] = stream[t],
         stream[t].fp # NoFile => tmp'[stream[t].fp] = tmp[stream[t].fp],
         \A body \in Seq(Chunks) : Continues(t, body) => Continues(t, body)',
         UNCHANGED <<pc, cur>>
  PROVE  OpenFile(t)'
<1>1. CASE stream[t].fp = NoFile
  BY <1>1 DEF OpenFile
<1>2. CASE pc = "head" /\ cur.sid = t
  BY <1>2 DEF OpenFile
<1>3. CASE pc \in {"discard", "discardAsk"} /\ cur.sid = t
  BY <1>3 DEF OpenFile
<1>4. CASE pc \notin {"head", "discard", "discardAsk"} \/ cur.sid # t
  BY <1>4, OtherFile
<1> QED
  BY <1>1, <1>2, <1>3, <1>4

(* A step that touches neither events nor open files, but may close some. *)
LEMMA PlayQuiet ==
  ASSUME Inv, PlayInv, UNCHANGED <<queue, cur, made, session>>, SegmentsPlayable',
         \A t \in Streams : /\ stream'[t].params \subseteq Needed(stream'[t].codec)
                            /\ \/ stream'[t].fp = NoFile
                               \/ /\ stream'[t] = stream[t]
                                  /\ stream[t].fp # NoFile => tmp'[stream[t].fp] = tmp[stream[t].fp],
         \/ pc' = pc
         \/ pc \notin {"head", "discard", "discardAsk"} /\ pc' \notin {"head", "open", "roll"},
         pc' \in {"open", "roll", "head"} => ParamsReady(S')
  PROVE  PlayInv'
<1>0. /\ TypeOK /\ QueueOrder /\ SessionOrder /\ ParamsCached
      /\ \A t \in Streams : OpenFile(t)
  BY DEF Inv, PlayInv
<1>1. QueueOrder'
  BY <1>0, OrderKept
<1>2. SessionOrder'
  BY <1>0, SessionsKept
<1>3. ASSUME NEW t \in Streams PROVE OpenFile(t)'
  <2>1. CASE stream'[t].fp = NoFile
    BY <2>1 DEF OpenFile
  <2>2. CASE /\ stream'[t] = stream[t]
             /\ stream[t].fp # NoFile => tmp'[stream[t].fp] = tmp[stream[t].fp]
    <3>1. \A body \in Seq(Chunks) : Continues(t, body) => Continues(t, body)'
      BY <1>0, SessionsKept
    <3>2. CASE pc' = pc
      BY <1>0, <2>2, <3>1, <3>2, SameFile
    <3>3. CASE pc \notin {"head", "discard", "discardAsk"} /\ pc' # "head"
      BY <1>0, <2>2, <3>1, <3>3, OtherFile
    <3> QED
      BY <3>2, <3>3
  <2> QED
    BY <2>1, <2>2
<1>4. ParamsCached'
  BY <1>0 DEF ParamsCached, ParamsReady
<1> QED
  BY <1>1, <1>2, <1>3, <1>4 DEF PlayInv

(* What is renamed is the file of a stream or the beginning of it. *)
LEMMA PlayFinalize ==
  ASSUME Inv, PlayInv, NEW sid \in Streams, Finalize(sid), pc \notin {"head", "discard", "discardAsk"}
  PROVE  PlayInv'
<1> DEFINE r == stream[sid]
<1>0. TypeOK /\ OpenFile(sid) /\ SegmentsPlayable /\ ParamsCached
  BY DEF Inv, PlayInv
<1>1. r \in RecorderStreams /\ r.fp # NoFile
  BY <1>0 DEF TypeOK, Finalize
<1>2. PICK f \in Names : f = r.fp
  BY <1>1 DEF RecorderStreams
<1>3. PICK b \in Seq(Chunks) : b = tmp[f]
  BY <1>0 DEF TypeOK
<1>4. f[1] = sid /\ Begun(b, f[3]) /\ Len(b) \in Nat /\ Len(b) >= 2
  BY <1>0, <1>1, <1>2, <1>3 DEF OpenFile, Continues
<1> DEFINE RenamedTo(state, body) ==
             final' = [final EXCEPT ![f] = [state |-> state, packets |-> r.packets, body |-> body]]
<1>5. /\ UNCHANGED <<queue, cur, made, session, pc>>
      /\ stream' = [stream EXCEPT ![sid] = Closed(r)]
      /\ \/ /\ RenamedTo("whole", b) \/ \E body \in CutShort(b) : RenamedTo("cut", body)
            /\ tmp' = [tmp EXCEPT ![f] = <<>>]
         \/ UNCHANGED fileVars
  BY <1>2, <1>3 DEF Finalize
<1>6. /\ Closed(r).fp = NoFile /\ Closed(r).codec = r.codec /\ Closed(r).params = r.params
  BY <1>1 DEF Closed, RecorderStreams
<1>7. stream'[sid] = Closed(r) /\ \A t \in Streams \ {sid} : stream'[t] = stream[t]
  BY <1>0, <1>5 DEF TypeOK
<1>8. \A g \in Names : g # f => tmp'[g] = tmp[g] /\ final'[g] = final[g]
  BY <1>0, <1>2, <1>5 DEF TypeOK, fileVars
<1>9. SegmentsPlayable'
  <2>1. CASE UNCHANGED fileVars
    BY <1>0, <2>1 DEF SegmentsPlayable, fileVars
  <2>2. CASE RenamedTo("whole", b)
    <3>1. final'[f].state = "whole" /\ final'[f].body = b
      BY <1>0, <2>2 DEF TypeOK
    <3> QED
      BY <1>0, <1>4, <1>8, <3>1 DEF SegmentsPlayable, Playable
  <2>3. CASE \E body \in CutShort(b) : RenamedTo("cut", body)
    <3>1. PICK body \in CutShort(b) : RenamedTo("cut", body)
      BY <2>3
    <3>2. final'[f].state = "cut" /\ final'[f].body = body
      BY <1>0, <3>1 DEF TypeOK
    <3>3. PlayableToCut(body, f[3])
      BY <1>4, CutPlayable
    <3> QED
      BY <1>0, <1>8, <3>2, <3>3 DEF SegmentsPlayable
  <2> QED
    BY <1>5, <2>1, <2>2, <2>3
<1>10. ASSUME NEW t \in Streams
       PROVE  /\ stream'[t].params \subseteq Needed(stream'[t].codec)
              /\ \/ stream'[t].fp = NoFile
                 \/ /\ stream'[t] = stream[t]
                    /\ stream[t].fp # NoFile => tmp'[stream[t].fp] = tmp[stream[t].fp]
  <2>1. CASE t = sid
    BY <1>0, <1>6, <1>7, <2>1 DEF ParamsCached
  <2>2. CASE t # sid
    <3>1. stream[t].fp # NoFile => stream[t].fp \in Names /\ stream[t].fp[1] = t
      BY <1>0 DEF PlayInv, OpenFile, TypeOK, RecorderStreams
    <3> QED
      BY <1>0, <1>4, <1>7, <1>8, <2>2, <3>1 DEF ParamsCached
  <2> QED
    BY <2>1, <2>2
<1>11. pc' \in {"open", "roll", "head"} => ParamsReady(S')
  <2> SUFFICES ASSUME pc \in {"open", "roll", "head"} PROVE ParamsReady(S')
    BY <1>5
  <2>1. ParamsReady(S) /\ cur \in Events /\ cur.sid \in Streams
    BY <1>0, EventNumbers DEF ParamsCached, TypeOK
  <2>2. S'.codec = S.codec /\ S'.params = S.params
    BY <1>5, <1>6, <1>7, <2>1 DEF S
  <2> QED
    BY <2>1, <2>2 DEF ParamsReady
<1> QED
  BY <1>5, <1>9, <1>10, <1>11, PlayQuiet

(* The writer takes the next event. *)
LEMMA PlayDequeue ==
  ASSUME Inv, PlayInv, Dequeue
  PROVE  PlayInv'
<1>0. /\ TypeOK /\ QueueOrder /\ SessionOrder /\ ParamsCached
      /\ \A t \in Streams : OpenFile(t)
  BY DEF Inv, PlayInv
<1>1. /\ pc = "wait" /\ pc' \in {"start", "video", "stop"}
      /\ UNCHANGED <<stream, made, session, tmp, final>>
  <2>1. Head(queue) \in Events
    BY <1>0 DEF TypeOK, Dequeue
  <2> QED
    BY <2>1 DEF Dequeue, Events, fileVars
<1>2. QueueOrder' /\ Pending' = Pending
  BY <1>0, OrderDequeue
<1>3. \A sid, lo, hi : Restarted(sid, lo, hi)' <=> Restarted(sid, lo, hi)
  BY <1>2 DEF Restarted
<1>4. SessionOrder'
  BY <1>0, <1>1, <1>2, <1>3 DEF SessionOrder, Restarted
<1>5. ASSUME NEW t \in Streams PROVE OpenFile(t)'
  <2>1. ASSUME NEW body \in Seq(Chunks), Continues(t, body) PROVE Continues(t, body)'
    BY <1>1, <1>2, <2>1 DEF Continues, Restarted
  <2> QED
    BY <1>0, <1>1, <2>1, OtherFile
<1>6. ParamsCached' /\ SegmentsPlayable'
  BY <1>0, <1>1 DEF ParamsCached, PlayInv, SegmentsPlayable
<1> QED
  BY <1>2, <1>4, <1>5, <1>6 DEF PlayInv

(* The callbacks of the handler threads. *)
LEMMA PlayEnqueue ==
  ASSUME Inv, PlayInv, NEW e \in Events, Enqueue(e), e.n = made + 1,
         \A t \in Streams \ {e.sid} : session'[t] = session[t],
         \/ e.type = "start" /\ session'[e.sid] = e.session
         \/ e.session = session[e.sid] /\ session'[e.sid] = session[e.sid]
  PROVE  PlayInv'
<1>0. /\ TypeOK /\ QueueOrder /\ SessionOrder /\ ParamsCached
      /\ \A t \in Streams : OpenFile(t)
  BY DEF Inv, PlayInv
<1>1. made' = made + 1 /\ UNCHANGED <<stream, pc, cur, tmp, final>>
  BY DEF Enqueue, fileVars
<1>2. /\ QueueOrder' /\ Pending \subseteq Pending' /\ Pending' \subseteq Pending \cup {e}
      /\ e.type # "video" => e \in Pending'
  BY <1>0, OrderEnqueue
<1>3. SessionOrder' /\ \A t \in Streams, body \in Seq(Chunks) : Continues(t, body) => Continues(t, body)'
  BY <1>0, <1>1, <1>2, SessionsEnqueue
<1>4. ASSUME NEW t \in Streams PROVE OpenFile(t)'
  BY <1>0, <1>1, <1>3, SameFile
<1>5. ParamsCached' /\ SegmentsPlayable'
  BY <1>0, <1>1 DEF ParamsCached, ParamsReady, S, PlayInv, SegmentsPlayable
<1> QED
  BY <1>2, <1>3, <1>4, <1>5 DEF PlayInv

(* What STREAM_START, VIDEO and STREAM_STOP bring is the youngest event. *)
LEMMA PlayHandlers ==
  ASSUME Inv, PlayInv, Handlers
  PROVE  PlayInv'
<1>1. TypeOK
  BY DEF Inv
<1>2. ASSUME NEW at \in readings, NEW sid \in Streams, NEW codec \in Codecs,
             OnStreamStart(at, sid, codec)
      PROVE PlayInv'
  <2>1. PICK e \in Events : e = Event(at, "start", sid, codec, NoPayload)
    BY <1>1, EventTyped, RecorderAssumption DEF RecorderAssumption
  <2>2. e.sid = sid /\ e.type = "start" /\ e.n = made + 1 /\ e.session = made + 1
    BY <2>1 DEF Event
  <2>3. Enqueue(e) /\ session' = [session EXCEPT ![sid] = made + 1]
    BY <1>2, <2>1 DEF OnStreamStart
  <2>4. session'[sid] = e.session /\ \A t \in Streams \ {sid} : session'[t] = session[t]
    BY <1>1, <2>2, <2>3 DEF TypeOK
  <2> QED
    BY <2>2, <2>3, <2>4, PlayEnqueue
<1>3. ASSUME NEW at \in readings, NEW sid \in Streams, NEW payload \in Payloads,
             OnVideo(at, sid, payload)
      PROVE PlayInv'
  <2>1. PICK e \in Events : e = Event(at, "video", sid, 0, payload)
    BY <1>1, EventTyped
  <2>2. e.sid = sid /\ e.n = made + 1 /\ e.session = session[sid]
    BY <2>1 DEF Event
  <2>3. Enqueue(e) /\ session' = session
    BY <1>3, <2>1 DEF OnVideo
  <2> QED
    BY <2>2, <2>3, PlayEnqueue
<1>4. ASSUME NEW at \in readings, NEW sid \in Streams, OnStreamStop(at, sid) PROVE PlayInv'
  <2>1. PICK e \in Events : e = Event(at, "stop", sid, 0, NoPayload)
    BY <1>1, EventTyped
  <2>2. e.sid = sid /\ e.n = made + 1 /\ e.session = session[sid]
    BY <2>1 DEF Event
  <2>3. Enqueue(e) /\ session' = session
    BY <1>4, <2>1 DEF OnStreamStop
  <2> QED
    BY <2>2, <2>3, PlayEnqueue
<1> QED
  BY <1>2, <1>3, <1>4 DEF Handlers

(* The process starts, also after a crash or a stop: the files stay. *)
LEMMA PlayBoot ==
  ASSUME Inv, PlayInv, Boot
  PROVE  PlayInv'
<1>1. Pending' = {}
  BY DEF Boot, Pending
<1>2. QueueOrder' /\ SessionOrder'
  BY <1>1 DEF Boot, QueueOrder, SessionOrder
<1>3. (\A t \in Streams : OpenFile(t))' /\ ParamsCached'
  BY DEF Boot, OpenFile, ParamsCached, ZeroStream
<1>4. SegmentsPlayable'
  BY DEF PlayInv, Boot, fileVars, SegmentsPlayable
<1> QED
  BY <1>2, <1>3, <1>4 DEF PlayInv

(* Nothing is pending and no file is open at first. *)
LEMMA PlayInit == Init => PlayInv
<1> SUFFICES ASSUME Init PROVE PlayInv
  OBVIOUS
<1>1. Pending = {}
  BY DEF Init, Pending
<1>2. QueueOrder /\ SessionOrder
  BY <1>1 DEF Init, QueueOrder, SessionOrder
<1>3. (\A t \in Streams : OpenFile(t)) /\ ParamsCached
  BY DEF Init, OpenFile, ParamsCached, ZeroStream
<1>4. SegmentsPlayable
  BY DEF Init, SegmentsPlayable, NoSegment
<1> QED
  BY <1>2, <1>3, <1>4 DEF PlayInv

(* Every step keeps what can be played. *)
LEMMA PlayNext == Inv /\ PlayInv /\ [Next]_vars => PlayInv'
<1> SUFFICES ASSUME Inv, PlayInv, [Next]_vars PROVE PlayInv'
  OBVIOUS
<1>1. TypeOK /\ ParamsCached /\ SegmentsPlayable
  BY DEF Inv, PlayInv
<1>2. \A t \in Streams : stream[t].params \subseteq Needed(stream[t].codec)
  BY <1>1 DEF ParamsCached
<1>3. CASE FinalizeCurrent
  BY <1>3, PlayFinalize, EventNumbers DEF FinalizeCurrent, Inv, TypeOK
<1>4. CASE FinalizeAtExit
  BY <1>4, PlayFinalize DEF FinalizeAtExit
<1>5. CASE Join
  <2>1. SegmentsPlayable'
    BY <1>1, <1>5 DEF Join, fileVars, SegmentsPlayable
  <2>2. \A t \in Streams : stream'[t].fp = NoFile /\ stream'[t].params = {}
    BY <1>5 DEF Join, ZeroStream
  <2>3. UNCHANGED <<queue, cur, made, session>> /\ pc = "drain" /\ pc' = "off"
    BY <1>1, <1>5 DEF Join
  <2> QED
    BY <2>1, <2>2, <2>3, PlayQuiet
<1>6. CASE /\ UNCHANGED <<queue, cur, made, session, stream, tmp, final>>
           /\ pc' = pc \/ (pc = "wait" /\ pc' = "drain")
  <2>1. SegmentsPlayable'
    BY <1>1, <1>6 DEF SegmentsPlayable
  <2>2. pc' \in {"open", "roll", "head"} => ParamsReady(S')
    BY <1>1, <1>6 DEF ParamsCached, S
  <2> QED
    BY <1>2, <1>6, <2>1, <2>2, PlayQuiet
<1>7. CASE LeaveLoop \/ Stop \/ UNCHANGED vars
  BY <1>1, <1>6, <1>7 DEF LeaveLoop, Stop, vars, recVars, fileVars, envVars
<1>8. CASE Tick \/ StepWall \/ MountChange
  BY <1>1, <1>6, <1>8 DEF Tick, StepWall, MountChange, recVars, fileVars
<1>9. CASE Crash \/ Restart
  BY <1>9, PlayBoot DEF Crash, Restart
<1> QED
  BY <1>3, <1>4, <1>5, <1>7, <1>8, <1>9, PlayDequeue, PlayHandle, PlayVideo, PlayOpen,
     PlayOpenFails, PlayHead, PlayAppend, PlayWriteFails, PlayDiscard, PlayHandlers
  DEF Next, Writer, FileWork, Environment

(* Whatever fails, crashes or is stepped, a closed segment can be played:   *)
(* it begins with the parameter sets and a key frame and goes on with       *)
(* packets of one session in their order, and only one whose fclose failed  *)
(* may break off before its end, wherever it will (open_segment,            *)
(* process_video, close_segment), for all streams, queues and faults.       *)
THEOREM RecorderPlayable == Spec => []SegmentsPlayable
<1>1. Spec => []Inv
  BY InitInv, NextInv, PTL DEF Spec
<1>2. PlayInv => SegmentsPlayable
  BY DEF PlayInv
<1> QED
  BY <1>1, <1>2, PlayInit, PlayNext, PTL DEF Spec

-----------------------------------------------------------------------------
(* How the fields of a stream may go from before to after when an event of  *)
(* time now is handled: the last request is the old one or of now, and      *)
(* unless it is the first of its segment it keeps the gap, as long as the   *)
(* stream's events have kept the order of their stamps.                     *)
Timed(before, after, now) ==
  /\ after.last \in {0, before.last, now}
  /\ after.count > 0 => after.last = now \/ (after.last = before.last /\ before.count > 0)

Spaced(kept, before, after) ==
  kept /\ after.count = before.count + 1 /\ before.count > 0 => after.last - before.last >= MinIdrGap

(* A request counts and remembers when. *)
LEMMA AskedFields ==
  ASSUME NEW idr \in Idrs, NEW now \in Nat
  PROVE  /\ Asked(idr, now) \in Idrs
         /\ Asked(idr, now).last = now /\ Asked(idr, now).count = idr.count + 1
<1>1. idr.count + 1 \in Nat
  BY DEF Idrs
<1> QED
  BY <1>1 DEF Asked, Idrs

(* The requests of process_video; with the order kept, the event is no older *)
(* than the last request.                                                  *)
LEMMA RequestsSpaced ==
  ASSUME NEW idr \in Idrs, NEW now \in Nat, 0 < now, idr.count > 0 => idr.last > 0,
         NEW kept \in BOOLEAN, kept => idr.last <= now, NEW sid \in 1 .. MaxStreams
  PROVE  /\ Timed(idr, idr, now) /\ Spaced(kept, idr, idr)
         /\ LET a == RequestIdr(idr, now) IN Timed(idr, a, now) /\ Spaced(kept, idr, a)
         /\ LET a == PeriodicIdr(idr, sid, now) IN Timed(idr, a, now) /\ Spaced(kept, idr, a)
         /\ ~IdrRecent(idr, now) =>
              LET a == ForceIdr(idr, now)
                  b == RequestIdr(a, now)
              IN  Timed(idr, a, now) /\ Spaced(kept, idr, a) /\ Timed(idr, b, now) /\ Spaced(kept, idr, b)
<1>0. /\ idr.last \in Nat /\ idr.count \in Nat /\ MinIdrGap \in Nat
      /\ \A k \in 1 .. 3 : Backoff[k] \in Nat /\ MinIdrGap <= Backoff[k]
  BY IdrAssumption DEF Idrs
<1>1. Timed(idr, idr, now) /\ Spaced(kept, idr, idr)
  BY <1>0 DEF Timed, Spaced
<1> DEFINE f == ForceIdr(idr, now)
<1>2. f \in Idrs /\ f.last = now /\ f.count = idr.count + 1
  BY AskedFields DEF ForceIdr
<1>3. Timed(idr, f, now)
  BY <1>2 DEF Timed
<1>4. ASSUME idr.count > 0, idr.last > 0, ~(now < idr.last), now - idr.last >= MinIdrGap
      PROVE  Spaced(kept, idr, f)
  BY <1>0, <1>2, <1>4 DEF Spaced
<1>5. idr.count > 0 => Pause(idr.count) \in Nat /\ Pause(idr.count) >= MinIdrGap
  <2>1. \A k \in Nat \ {0} : Pause(k) = IF k \in 1 .. 2 THEN Backoff[k] ELSE Backoff[3]
    BY DEF Pause
  <2> QED
    BY <1>0, <2>1
<1>6. LET a == RequestIdr(idr, now) IN Timed(idr, a, now) /\ Spaced(kept, idr, a)
  <2>1. CASE RequestIdr(idr, now) = idr
    BY <1>1, <2>1
  <2>2. CASE RequestIdr(idr, now) # idr
    <3>1. RequestIdr(idr, now) = f /\ (idr.last = 0 \/ Elapsed(now, idr.last, Pause(idr.count)))
      BY <2>2 DEF RequestIdr, ForceIdr
    <3>2. Spaced(kept, idr, f)
      <4>1. CASE idr.count = 0 \/ ~kept
        BY <4>1 DEF Spaced
      <4>2. CASE idr.count > 0 /\ kept
        <5>1. ~(now < idr.last)
          BY <1>0, <4>2
        <5>2. idr.last # 0 /\ now - idr.last >= Pause(idr.count)
          BY <1>0, <3>1, <4>2, <5>1 DEF Elapsed
        <5>3. now - idr.last >= MinIdrGap
          <6>1. idr.count > 0
            BY <4>2
          <6>2. Pause(idr.count) \in Nat /\ Pause(idr.count) >= MinIdrGap
            BY <1>5, <6>1
          <6> QED
            BY <1>0, <5>2, <6>2
        <5> QED
          BY <1>0, <1>4, <4>2, <5>1, <5>2, <5>3
      <4> QED
        BY <1>0, <4>1, <4>2
    <3> QED
      BY <1>3, <3>1, <3>2
  <2> QED
    BY <2>1, <2>2
<1>7. ~IdrRecent(idr, now) => Spaced(kept, idr, f)
  <2>1. CASE idr.count = 0 \/ ~kept
    BY <2>1 DEF Spaced
  <2>2. CASE idr.count > 0 /\ kept
    <3>1. ~(now < idr.last)
      BY <1>0, <2>2
    <3>2. ~IdrRecent(idr, now) => now - idr.last >= MinIdrGap
      BY <1>0, <2>2, <3>1 DEF Elapsed, IdrRecent
    <3> QED
      BY <1>0, <1>4, <2>2, <3>1, <3>2
  <2> QED
    BY <1>0, <2>1, <2>2
<1> HIDE DEF f
<1>8. LET a == PeriodicIdr(idr, sid, now) IN Timed(idr, a, now) /\ Spaced(kept, idr, a)
  <2> DEFINE p == PeriodicIdr(idr, sid, now)
  <2>1. \A x : LET a == [idr EXCEPT !.next = x]
               IN  a.last = idr.last /\ a.count = idr.count
    BY DEF Idrs
  <2>2. \A x : LET a == [f EXCEPT !.next = x]
               IN  a.last = f.last /\ a.count = f.count
    BY <1>2 DEF Idrs
  <2>3. \/ p = idr
        \/ \E x : p = [idr EXCEPT !.next = x]
        \/ ~IdrRecent(idr, now) /\ \E x : p = [f EXCEPT !.next = x]
    BY DEF PeriodicIdr, f
  <2> HIDE DEF p
  <2>4. \/ p.last = idr.last /\ p.count = idr.count
        \/ ~IdrRecent(idr, now) /\ p.last = f.last /\ p.count = f.count
    BY <2>1, <2>2, <2>3
  <2>5. Timed(idr, p, now) /\ Spaced(kept, idr, p)
    BY <1>1, <1>3, <1>7, <2>4 DEF Timed, Spaced
  <2> QED
    BY <2>5 DEF p
<1>9. ASSUME NEW b, b = RequestIdr(f, now)
      PROVE  Timed(idr, b, now) /\ (Spaced(kept, idr, f) => Spaced(kept, idr, b))
  <2>1. b = f \/ (b.last = now /\ b.count = f.count + 1)
    BY <1>2, <1>9, AskedFields DEF RequestIdr
  <2>2. CASE b = f
    BY <1>3, <2>2
  <2>3. CASE b.last = now /\ b.count = f.count + 1
    BY <1>0, <1>2, <2>3 DEF Timed, Spaced
  <2> QED
    BY <2>1, <2>2, <2>3
<1> QED
  BY <1>1, <1>3, <1>6, <1>7, <1>8, <1>9 DEF f

(* The writer's event is the stream's oldest, and of its pending events none *)
(* is older than its last request, nor out of order, if order is kept.      *)
IdrsPast ==
  \A sid \in Streams :
    LET idr == stream[sid].idr
        o   == order[sid]
    IN  /\ idr.count > 0 => idr.last > 0
        /\ o.kept =>
             /\ idr.last <= o.newest
             /\ \A e \in Pending : e.sid = sid =>
                  /\ idr.last <= e.mono /\ e.mono <= o.newest
                  /\ \A f \in Pending : f.sid = sid /\ e.n < f.n => e.mono <= f.mono

(* What IdrSpaced says of one step. *)
SpacedStep ==
  \A sid \in Streams :
    pc # "discardAsk" => Spaced(order[sid].kept, stream[sid].idr, stream'[sid].idr)

(* The fields of two streams' requests. *)
LEMMA IdrFields ==
  ASSUME TypeOK
  PROVE  \A sid \in Streams :
           /\ stream[sid] \in RecorderStreams /\ stream[sid].idr \in Idrs
           /\ stream[sid].idr.last \in Nat /\ stream[sid].idr.count \in Nat
           /\ order[sid].newest \in Nat /\ order[sid].kept \in BOOLEAN
BY DEF TypeOK, RecorderStreams, Idrs, Orders

(* A stream whose fields are as they were has made no request. *)
LEMMA SameSpaced ==
  ASSUME NEW kept, NEW before \in Idrs, NEW after,
         after.last = before.last, after.count = before.count
  PROVE  Spaced(kept, before, after)
<1>1. before.count \in Nat
  BY DEF Idrs
<1> QED
  BY <1>1 DEF Spaced

(* A step of the writer on the event in hand. *)
LEMMA IdrStep ==
  ASSUME Inv, PlayInv, IdrsPast, cur \in Events, cur' \in {cur, NoEvent},
         UNCHANGED <<queue, order>>,
         NEW sid \in Streams, sid = cur.sid,
         \A t \in Streams \ {sid} : stream'[t].idr = stream[t].idr,
         Timed(stream[sid].idr, stream'[sid].idr, cur.mono),
         pc # "discardAsk" => Spaced(order[sid].kept, stream[sid].idr, stream'[sid].idr)
  PROVE  IdrsPast' /\ SpacedStep
<1>1. TypeOK /\ QueueOrder /\ cur # NoEvent
  BY PendingTyped DEF Inv, PlayInv
<1>2. cur \in Pending /\ Pending' \subseteq Pending /\ cur.mono \in Nat /\ 0 < cur.mono
  BY <1>1, RecorderAssumption DEF Pending, Events, Seconds, RecorderAssumption
<1>3. \A e \in Pending : e.mono \in Nat /\ (e = cur \/ cur.n < e.n)
  BY <1>1, <1>2, PendingTyped, EventNumbers DEF Pending, QueueOrder
<1>4. SpacedStep
  <2> SUFFICES ASSUME NEW t \in Streams, t # sid
               PROVE  Spaced(order[t].kept, stream[t].idr, stream'[t].idr)
    BY DEF SpacedStep
  <2> QED
    BY <1>1, IdrFields, SameSpaced
<1> DEFINE b == stream[sid].idr
           a == stream'[sid].idr
           o == order[sid]
<1>5. /\ b.count > 0 => b.last > 0
      /\ b.last \in Nat /\ o.newest \in Nat
      /\ o.kept => /\ b.last <= o.newest
                   /\ \A e \in Pending : e.sid = sid => b.last <= e.mono /\ e.mono <= o.newest
                   /\ \A e \in Pending : e.sid = sid => cur.mono <= e.mono
  <2>1. b.last \in Nat /\ o.newest \in Nat
    BY <1>1, IdrFields
  <2>2. /\ b.count > 0 => b.last > 0
        /\ o.kept => /\ b.last <= o.newest
                     /\ \A e \in Pending : e.sid = sid => b.last <= e.mono /\ e.mono <= o.newest
                     /\ \A f \in Pending : f.sid = sid /\ cur.n < f.n => cur.mono <= f.mono
    BY <1>2 DEF IdrsPast
  <2> QED
    BY <1>2, <1>3, <2>1, <2>2
<1>6. a.last \in {0, b.last, cur.mono}
      /\ (a.count > 0 => a.last = cur.mono \/ (a.last = b.last /\ b.count > 0))
  BY DEF Timed
<1>7. /\ a.count > 0 => a.last > 0
      /\ o.kept => /\ a.last <= o.newest
                   /\ \A e \in Pending : e.sid = sid => a.last <= e.mono
  <2> HIDE DEF a, b, o
  <2> QED
    BY <1>2, <1>3, <1>5, <1>6
<1>8. IdrsPast'
  <2> SUFFICES ASSUME NEW t \in Streams
               PROVE  /\ stream'[t].idr.count > 0 => stream'[t].idr.last > 0
                      /\ order[t].kept =>
                           /\ stream'[t].idr.last <= order[t].newest
                           /\ \A e \in Pending : e.sid = t =>
                                /\ stream'[t].idr.last <= e.mono /\ e.mono <= order[t].newest
                                /\ \A f \in Pending : f.sid = t /\ e.n < f.n => e.mono <= f.mono
    BY <1>2 DEF IdrsPast
  <2>1. CASE t # sid
    BY <2>1 DEF IdrsPast
  <2>2. CASE t = sid
    BY <1>7, <2>2 DEF IdrsPast
  <2> QED
    BY <2>1, <2>2
<1> QED
  BY <1>4, <1>8

(* A step that makes no request and brings no event.                       *)
LEMMA IdrQuiet ==
  ASSUME TypeOK, IdrsPast, order' = order, Pending' \subseteq Pending,
         \A t \in Streams : \/ /\ stream'[t].idr.last = stream[t].idr.last
                               /\ stream'[t].idr.count = stream[t].idr.count
                            \/ stream'[t].idr = NoIdr
  PROVE  IdrsPast' /\ SpacedStep
<1>1. NoIdr.last = 0 /\ NoIdr.count = 0
  BY DEF NoIdr
<1>2. \A t \in Streams : /\ stream[t].idr \in Idrs /\ stream[t].idr.last \in Nat
                         /\ stream[t].idr.count \in Nat /\ order[t].newest \in Nat
  BY IdrFields
<1>3. SpacedStep
  <2> SUFFICES ASSUME NEW t \in Streams
               PROVE  Spaced(order[t].kept, stream[t].idr, stream'[t].idr)
    BY DEF SpacedStep
  <2>1. CASE stream'[t].idr = NoIdr
    BY <1>1, <1>2, <2>1 DEF Spaced
  <2> QED
    BY <1>2, <2>1, SameSpaced
<1>4. \A e \in Pending : e.mono \in Nat /\ 0 <= e.mono
  BY PendingTyped, EventNumbers
<1>5. ASSUME NEW t \in Streams
      PROVE  /\ stream'[t].idr.count > 0 => stream'[t].idr.last > 0
             /\ order[t].kept =>
                  /\ stream'[t].idr.last <= order[t].newest
                  /\ \A e \in Pending : e.sid = t =>
                       /\ stream'[t].idr.last <= e.mono /\ e.mono <= order[t].newest
                       /\ \A f \in Pending : f.sid = t /\ e.n < f.n => e.mono <= f.mono
  <2>1. CASE stream'[t].idr = NoIdr
    <3>1. 0 <= order[t].newest
      BY <1>2
    <3> QED
      BY <1>1, <1>4, <2>1, <3>1 DEF IdrsPast
  <2>2. CASE /\ stream'[t].idr.last = stream[t].idr.last
             /\ stream'[t].idr.count = stream[t].idr.count
    BY <2>2 DEF IdrsPast
  <2> QED
    BY <2>1, <2>2
<1>6. IdrsPast'
  BY <1>5 DEF IdrsPast
<1> QED
  BY <1>3, <1>6

(* The event in hand is no older than its stream's requests, if order is kept. *)
LEMMA IdrHere ==
  ASSUME Inv, IdrsPast, pc \in WorkSteps
  PROVE  /\ TypeOK /\ cur \in Events /\ cur.mono \in Nat /\ 0 < cur.mono
         /\ cur.sid \in Streams /\ cur.sid \in 1 .. MaxStreams
         /\ S \in RecorderStreams /\ S.idr \in Idrs
         /\ order[cur.sid].kept \in BOOLEAN /\ (order[cur.sid].kept => S.idr.last <= cur.mono)
         /\ S.idr.count > 0 => S.idr.last > 0
<1>1. TypeOK /\ cur \in Events
  BY EventInHand
<1>2. cur \in Pending /\ 0 < cur.mono
  BY <1>1, PendingTyped, RecorderAssumption DEF Pending, Events, Seconds, RecorderAssumption
<1> QED
  BY <1>1, <1>2, CurrentStream, IdrFields DEF IdrsPast, S

(* It stores the stream s. *)
LEMMA IdrWork ==
  ASSUME Inv, PlayInv, IdrsPast, pc \in WorkSteps, cur' \in {cur, NoEvent}, WriterQuiet,
         NEW s \in RecorderStreams, SetStream(s), Timed(S.idr, s.idr, cur.mono),
         pc # "discardAsk" => Spaced(order[cur.sid].kept, S.idr, s.idr)
  PROVE  IdrsPast' /\ SpacedStep
<1>1. PICK sid \in Streams : sid = cur.sid
  BY IdrHere
<1>2. stream'[sid] = s /\ \A t \in Streams \ {sid} : stream'[t].idr = stream[t].idr
  BY <1>1, IdrHere, StreamStored
<1>3. S = stream[sid] /\ UNCHANGED <<queue, order>> /\ cur \in Events
  BY <1>1, IdrHere DEF S, WriterQuiet
<1> QED
  BY <1>1, <1>2, <1>3, IdrStep

(* It makes no request. *)
LEMMA IdrKept ==
  ASSUME Inv, PlayInv, IdrsPast, pc \in WorkSteps, cur' \in {cur, NoEvent}, WriterQuiet,
         NEW s \in RecorderStreams, SetStream(s), s.idr = S.idr
  PROVE  IdrsPast' /\ SpacedStep
<1>1. Timed(S.idr, S.idr, cur.mono) /\ Spaced(order[cur.sid].kept, S.idr, S.idr)
  BY IdrHere, RequestsSpaced
<1> QED
  BY <1>1, IdrWork

(* STREAM_START makes the first request of its session. *)
LEMMA IdrHandle ==
  ASSUME Inv, PlayInv, IdrsPast, HandleStart \/ HandleStop
  PROVE  IdrsPast' /\ SpacedStep
<1>1. pc \in WorkSteps /\ pc # "discardAsk" /\ WriterQuiet /\ cur' \in {cur, NoEvent}
  BY DEF HandleStart, HandleStop, WorkSteps, Done
<1>2. NoIdr \in Idrs /\ NoIdr.last = 0 /\ NoIdr.count = 0
  BY DEF NoIdr, Idrs
<1>3. S.idr.count \in Nat /\ cur.mono \in Nat /\ cur.codec \in Nat
  BY <1>1, IdrHere DEF Idrs, Events
<1>4. Timed(S.idr, NoIdr, cur.mono) /\ Spaced(order[cur.sid].kept, S.idr, NoIdr)
  BY <1>2, <1>3 DEF Timed, Spaced
<1> DEFINE first == ForceIdr(NoIdr, cur.mono)
<1>5. first \in Idrs /\ first.last = cur.mono /\ first.count = 1
  <2>1. \A idr \in Idrs : LET a == ForceIdr(idr, cur.mono)
                          IN  a \in Idrs /\ a.last = cur.mono /\ a.count = idr.count + 1
    BY <1>3, AskedFields DEF ForceIdr
  <2> HIDE DEF first
  <2>2. first \in Idrs /\ first.last = cur.mono /\ first.count = NoIdr.count + 1
    BY <1>2, <2>1 DEF first
  <2> QED
    BY <1>2, <2>2
<1>6. Timed(S.idr, first, cur.mono) /\ Spaced(order[cur.sid].kept, S.idr, first)
  <2> HIDE DEF first
  <2> QED
    BY <1>3, <1>5 DEF Timed, Spaced
<1>7. CASE HandleStop
  <2>1. SetStream(ZeroStream) /\ ZeroStream.idr = NoIdr
    BY <1>7 DEF HandleStop, ZeroStream
  <2> QED
    BY <1>1, <1>4, <2>1, IdrWork, ZeroTyped
<1>8. CASE HandleStart
  <2> DEFINE records == cur.sid \in EnabledStreams /\ cur.codec \in Supported
             idr == IF records THEN first ELSE NoIdr
             s == [ZeroStream EXCEPT !.active = records, !.codec = cur.codec, !.waiting = TRUE,
                                     !.idr = idr]
  <2>1. idr \in Idrs /\ Timed(S.idr, idr, cur.mono) /\ Spaced(order[cur.sid].kept, S.idr, idr)
    BY <1>2, <1>4, <1>5, <1>6
  <2>2. records \in BOOLEAN
    OBVIOUS
  <2>3. SetStream(s)
    BY <1>8 DEF HandleStart
  <2> HIDE DEF records, idr
  <2>4. s.idr = idr
    BY DEF ZeroStream
  <2>5. s \in RecorderStreams
    BY <1>3, <2>1, <2>2, ZeroTyped DEF RecorderStreams
  <2> HIDE DEF s
  <2> QED
    BY <1>1, <2>1, <2>3, <2>4, <2>5, IdrWork
<1> QED
  BY <1>7, <1>8

(* The requests of process_video. *)
LEMMA IdrVideo ==
  ASSUME Inv, PlayInv, IdrsPast, Video
  PROVE  IdrsPast' /\ SpacedStep
<1>1. pc \in WorkSteps /\ pc = "video" /\ WriterQuiet /\ cur' \in {cur, NoEvent}
  BY DEF Video, IgnoreVideo, SkipUnmounted, AwaitKeyframe, BeginSegment, WriteOrRoll, InVideo,
     WorkSteps, Done
<1>2. /\ TypeOK /\ cur \in Events /\ cur.mono \in Nat /\ cur.sid \in 1 .. MaxStreams
      /\ S \in RecorderStreams /\ S.idr \in Idrs
      /\ Analyzed \in RecorderStreams /\ Analyzed.idr = S.idr
      /\ RolloverChecked \in RecorderStreams
  <2>1. /\ TypeOK /\ cur \in Events /\ cur.mono \in Nat /\ cur.sid \in 1 .. MaxStreams
        /\ S \in RecorderStreams /\ S.idr \in Idrs
    BY <1>1, IdrHere
  <2>2. Analyzed.idr = S.idr
    BY <2>1 DEF Analyzed, RecorderStreams
  <2> QED
    BY <2>1, <2>2, AnalyzedTyped, RolloverCheckedTyped
<1> DEFINE now == cur.mono
           f == ForceIdr(S.idr, now)
<1>3. /\ Timed(S.idr, S.idr, now) /\ Spaced(order[cur.sid].kept, S.idr, S.idr)
      /\ LET a == RequestIdr(S.idr, now) IN a \in Idrs /\ Timed(S.idr, a, now) /\ Spaced(order[cur.sid].kept, S.idr, a)
      /\ LET a == PeriodicIdr(S.idr, cur.sid, now)
         IN  a \in Idrs /\ Timed(S.idr, a, now) /\ Spaced(order[cur.sid].kept, S.idr, a)
      /\ f \in Idrs
      /\ LET a == RequestIdr(f, now) IN a \in Idrs
      /\ ~IdrRecent(S.idr, now) =>
           LET a == RequestIdr(f, now) IN
           Timed(S.idr, f, now) /\ Spaced(order[cur.sid].kept, S.idr, f) /\ Timed(S.idr, a, now) /\ Spaced(order[cur.sid].kept, S.idr, a)
  <2>1. f \in Idrs
    BY <1>2, RequestsTyped
  <2>2. RequestIdr(f, now) \in Idrs /\ RequestIdr(S.idr, now) \in Idrs
        /\ PeriodicIdr(S.idr, cur.sid, now) \in Idrs
    BY <1>2, <2>1, RequestsTyped, PeriodicTyped
  <2> QED
    BY <1>1, <2>1, <2>2, IdrHere, RequestsSpaced
<1>4. ASSUME NEW s \in RecorderStreams, NEW i \in Idrs, NEW next,
             InVideo([s EXCEPT !.idr = i], next), Timed(S.idr, i, now), Spaced(order[cur.sid].kept, S.idr, i)
      PROVE  IdrsPast' /\ SpacedStep
  <2> DEFINE r == [s EXCEPT !.idr = i]
  <2>1. r \in RecorderStreams /\ r.idr = i
    BY DEF RecorderStreams
  <2>2. SetStream(r)
    BY <1>4 DEF InVideo
  <2> HIDE DEF r
  <2> QED
    BY <1>1, <1>4, <2>1, <2>2, IdrWork
<1>5. ASSUME NEW s \in RecorderStreams, NEW next, InVideo(s, next), Timed(S.idr, s.idr, now),
             Spaced(order[cur.sid].kept, S.idr, s.idr)
      PROVE  IdrsPast' /\ SpacedStep
  <2>1. SetStream(s)
    BY <1>5 DEF InVideo
  <2> QED
    BY <1>1, <1>5, <2>1, IdrWork
<1>6. CASE IgnoreVideo
  <2>1. SetStream(S)
    BY <1>2, <1>6 DEF IgnoreVideo, SetStream, S, TypeOK
  <2> QED
    BY <1>1, <1>2, <2>1, IdrKept
<1>7. CASE SkipUnmounted
  <2> DEFINE a == Analyzed
             s == [a EXCEPT !.waiting = TRUE, !.rollover = FALSE]
  <2>1. InVideo(s, "wait")
    BY <1>7 DEF SkipUnmounted
  <2>2. a \in RecorderStreams /\ a.idr = S.idr
    BY <1>2
  <2> HIDE DEF a
  <2>3. s \in RecorderStreams /\ s.idr = S.idr
    BY <2>2 DEF RecorderStreams
  <2> HIDE DEF s
  <2> QED
    BY <1>3, <1>5, <2>1, <2>3
<1>8. CASE AwaitKeyframe
  <2>1. InVideo([Analyzed EXCEPT !.idr = RequestIdr(S.idr, now)], "wait")
    BY <1>2, <1>8 DEF AwaitKeyframe
  <2> QED
    BY <1>2, <1>3, <1>4, <2>1
<1>9. CASE BeginSegment
  BY <1>2, <1>3, <1>5, <1>9 DEF BeginSegment
<1>10. CASE WriteOrRoll
  <2> DEFINE r == RolloverChecked
  <2>1. \/ InVideo(r, "roll")
        \/ r.rollover /\ InVideo([r EXCEPT !.idr = RequestIdr(r.idr, now)], "append")
        \/ InVideo([r EXCEPT !.idr = r.idr], "append")
        \/ ~r.rollover /\ InVideo([r EXCEPT !.idr = PeriodicIdr(r.idr, cur.sid, now)], "append")
    BY <1>10 DEF WriteOrRoll
  <2>2. \/ r.idr = S.idr
        \/ r.rollover /\ r.idr = f /\ ~IdrRecent(S.idr, now)
    <3> DEFINE a == Analyzed
    <3>1. \/ r = a
          \/ \E i : /\ r = [a EXCEPT !.rollover = TRUE, !.idr = i]
                    /\ i = a.idr \/ (i = ForceIdr(a.idr, now) /\ ~IdrRecent(a.idr, now))
      BY DEF RolloverChecked
    <3>2. a \in RecorderStreams /\ a.idr = S.idr
      BY <1>2
    <3> HIDE DEF a, r
    <3>3. \A i : LET b == [a EXCEPT !.rollover = TRUE, !.idr = i]
                 IN  b.idr = i /\ b.rollover
      BY <3>2 DEF RecorderStreams
    <3> QED
      BY <3>1, <3>2, <3>3
  <2>3. r \in RecorderStreams
    BY <1>2
  <2> HIDE DEF r
  <2>4. CASE r.idr = S.idr
    BY <1>2, <1>3, <1>4, <1>5, <2>1, <2>3, <2>4
  <2>5. CASE r.rollover /\ r.idr = f /\ ~IdrRecent(S.idr, now)
    <3> HIDE DEF f
    <3> QED
      BY <1>3, <1>4, <1>5, <2>1, <2>3, <2>5
  <2> QED
    BY <2>2, <2>4, <2>5
<1> QED
  BY <1>6, <1>7, <1>8, <1>9, <1>10 DEF Video

(* Only after a torn packet does a file operation make a request. *)
LEMMA IdrFileWork ==
  ASSUME Inv, PlayInv, IdrsPast, FileWork
  PROVE  IdrsPast' /\ SpacedStep
<1>1. pc \in WorkSteps /\ WriterQuiet /\ cur' \in {cur, NoEvent}
  BY DEF FileWork, OpenSegment, OpenFails, WriteHead, WriteHeadFails, AppendPacket, AppendFails,
     Discard, Opening, WorkSteps, Done
<1>2. /\ TypeOK /\ cur \in Events /\ cur.mono \in Nat /\ cur.sid \in 1 .. MaxStreams
      /\ S \in RecorderStreams /\ S.idr \in Idrs /\ S.idr.count \in Nat
  BY <1>1, IdrHere DEF Idrs
<1>3. CASE OpenSegment
  <2> DEFINE idr == [S.idr EXCEPT !.next = NextPeriodic(cur.sid, cur.mono), !.count = 0]
             s == [S EXCEPT !.fp = OpenName, !.startWall = cur.wall, !.packets = 0,
                            !.waiting = FALSE, !.rollover = FALSE, !.idr = idr]
  <2>1. pc \in {"open", "roll"} /\ Opening
    BY <1>3 DEF OpenSegment, Opening
  <2>2. SetStream(s)
    BY <1>3 DEF OpenSegment
  <2>3. idr \in Idrs /\ idr.last = S.idr.last /\ idr.count = 0
    BY <1>2, NextPeriodicTyped DEF Idrs
  <2> HIDE DEF idr
  <2>4. OpenName \in Names /\ cur.wall \in Nat
    BY <1>1, <1>2, <2>1, OpenNameTyped, CurrentStream
  <2>5. s \in RecorderStreams /\ s.idr = idr
    BY <1>2, <2>3, <2>4 DEF RecorderStreams
  <2>6. Timed(S.idr, idr, cur.mono) /\ Spaced(order[cur.sid].kept, S.idr, idr)
    BY <1>2, <2>3 DEF Timed, Spaced
  <2> HIDE DEF s
  <2> QED
    BY <1>1, <2>2, <2>5, <2>6, IdrWork
<1>4. CASE OpenFails
  <2>1. NotOpened(S) \in RecorderStreams /\ NotOpened(S).idr = S.idr
    BY <1>2 DEF NotOpened, RecorderStreams
  <2>2. LET n == [NotOpened(S) EXCEPT !.fp = NoFile] IN n \in RecorderStreams /\ n.idr = S.idr
    BY <2>1 DEF RecorderStreams
  <2>3. PICK s \in RecorderStreams : SetStream(s) /\ s.idr = S.idr
    BY <1>4, <2>1, <2>2 DEF OpenFails
  <2> QED
    BY <1>1, <2>3, IdrKept
<1>5. CASE WriteHead \/ AppendPacket
  <2> DEFINE s == [S EXCEPT !.packets = @ + 1]
  <2>1. SetStream(s)
    BY <1>5 DEF WriteHead, AppendPacket
  <2>2. S.packets + 1 \in Nat
    BY <1>2 DEF RecorderStreams
  <2>3. s \in RecorderStreams /\ s.idr = S.idr
    BY <1>2, <2>2 DEF RecorderStreams
  <2> HIDE DEF s
  <2> QED
    BY <1>1, <2>1, <2>3, IdrKept
<1>6. CASE WriteHeadFails \/ AppendFails
  <2>1. SetStream(S)
    BY <1>2, <1>6 DEF WriteHeadFails, AppendFails, SetStream, S, TypeOK
  <2> QED
    BY <1>1, <1>2, <2>1, IdrKept
<1>7. CASE Discard
  <2> DEFINE c == Closed(S)
             idr == IF pc = "discardAsk" THEN ForceIdr(c.idr, cur.mono) ELSE c.idr
             s == [c EXCEPT !.waiting = TRUE, !.idr = idr]
  <2>1. SetStream(s)
    BY <1>7 DEF Discard
  <2>2. c \in RecorderStreams /\ c.idr \in Idrs /\ c.idr.last = S.idr.last /\ c.idr.count = S.idr.count
    <3>1. LET i == [S.idr EXCEPT !.next = 0]
          IN  i \in Idrs /\ i.last = S.idr.last /\ i.count = S.idr.count
      BY <1>2 DEF Idrs
    <3> QED
      BY <1>2, <3>1 DEF Closed, RecorderStreams
  <2>3. LET f == ForceIdr(c.idr, cur.mono) IN f \in Idrs /\ f.last = cur.mono
    BY <1>2, <2>2, AskedFields DEF ForceIdr
  <2>4. idr \in Idrs /\ Timed(S.idr, idr, cur.mono) /\ (pc # "discardAsk" => Spaced(order[cur.sid].kept, S.idr, idr))
    <3>1. CASE pc = "discardAsk"
      BY <2>3, <3>1 DEF Timed
    <3>2. CASE pc # "discardAsk"
      BY <1>2, <2>2, <3>2 DEF Timed, Spaced
    <3> QED
      BY <3>1, <3>2
  <2> HIDE DEF idr, c
  <2>5. s \in RecorderStreams /\ s.idr = idr
    BY <2>2, <2>4 DEF RecorderStreams
  <2> HIDE DEF s
  <2> QED
    BY <1>1, <2>1, <2>4, <2>5, IdrWork
<1> QED
  BY <1>3, <1>4, <1>5, <1>6, <1>7 DEF FileWork

(* Closing a segment only drops the next periodic request. *)
LEMMA IdrFinalize ==
  ASSUME Inv, IdrsPast, NEW sid \in Streams, Finalize(sid)
  PROVE  IdrsPast' /\ SpacedStep
<1>1. TypeOK /\ stream[sid] \in RecorderStreams /\ stream[sid].idr \in Idrs
  BY IdrFields DEF Inv
<1>2. /\ UNCHANGED <<queue, cur, order>>
      /\ stream' = [stream EXCEPT ![sid] = Closed(stream[sid])]
  BY DEF Finalize
<1>3. Closed(stream[sid]).idr.last = stream[sid].idr.last
      /\ Closed(stream[sid]).idr.count = stream[sid].idr.count
  BY <1>1 DEF Closed, RecorderStreams, Idrs
<1>4. \A t \in Streams : /\ stream'[t].idr.last = stream[t].idr.last
                         /\ stream'[t].idr.count = stream[t].idr.count
  BY <1>1, <1>2, <1>3 DEF TypeOK
<1>5. Pending' = Pending
  BY <1>2 DEF Pending
<1> QED
  BY <1>1, <1>2, <1>4, <1>5, IdrQuiet

(* A handler's event keeps the order only if its stamp is the newest. *)
LEMMA IdrHandlers ==
  ASSUME Inv, PlayInv, IdrsPast, Handlers
  PROVE  IdrsPast' /\ SpacedStep
<1>1. TypeOK /\ QueueOrder
  BY DEF Inv, PlayInv
<1>2. PICK e \in Events : Enqueue(e) /\ e.n = made + 1
  <2>1. ASSUME NEW at \in readings, NEW sid \in Streams, NEW type \in {"start", "video", "stop"},
               NEW codec \in Nat, NEW payload \in Payloads \cup {NoPayload}
        PROVE  LET e == Event(at, type, sid, codec, payload)
               IN  e \in Events /\ e.n = made + 1
    BY <1>1, EventTyped DEF Event
  <2> QED
    BY <2>1, RecorderAssumption
    DEF Handlers, OnStreamStart, OnVideo, OnStreamStop, RecorderAssumption
<1>3. Pending' \subseteq Pending \cup {e} /\ stream' = stream
  BY <1>1, <1>2, OrderEnqueue DEF Enqueue
<1>4. CASE UNCHANGED <<queue, order>>
  <2>1. Pending' = Pending
    BY <1>2, <1>4 DEF Pending, Enqueue
  <2> QED
    BY <1>1, <1>3, <1>4, <2>1, IdrQuiet
<1>5. CASE order' = [order EXCEPT ![e.sid] = Ordered(@, e)]
  <2>1. /\ e.sid \in Streams /\ e.mono \in Nat /\ e.n \in Nat /\ made \in Nat
        /\ \A k \in Pending : k.mono \in Nat /\ k.n \in Nat /\ k.n <= made
    BY <1>1, PendingTyped, EventNumbers DEF QueueOrder, TypeOK
  <2>2. /\ order'[e.sid] = Ordered(order[e.sid], e)
        /\ \A t \in Streams \ {e.sid} : order'[t] = order[t]
    BY <1>1, <1>5, <2>1 DEF TypeOK
  <2>3. ASSUME NEW t \in Streams
        PROVE  /\ stream[t].idr.count > 0 => stream[t].idr.last > 0
               /\ order'[t].kept =>
                    /\ stream[t].idr.last <= order'[t].newest
                    /\ \A k \in Pending' : k.sid = t =>
                         /\ stream[t].idr.last <= k.mono /\ k.mono <= order'[t].newest
                         /\ \A m \in Pending' : m.sid = t /\ k.n < m.n => k.mono <= m.mono
    <3> DEFINE last == stream[t].idr.last
               o    == order[t]
               p    == order'[t]
    <3>1. last \in Nat /\ o.newest \in Nat
      BY <1>1, IdrFields
    <3>2. /\ stream[t].idr.count > 0 => stream[t].idr.last > 0
          /\ o.kept => /\ last <= o.newest
                       /\ \A k \in Pending : k.sid = t =>
                            /\ last <= k.mono /\ k.mono <= o.newest
                            /\ \A m \in Pending : m.sid = t /\ k.n < m.n => k.mono <= m.mono
      BY DEF IdrsPast
    <3>3. CASE t # e.sid
      BY <1>3, <2>2, <3>2, <3>3
    <3>4. CASE t = e.sid
      <4>0. p = Ordered(o, e)
        BY <2>2, <3>4
      <4> HIDE DEF last, o, p
      <4>1. p.kept => o.kept /\ o.newest <= e.mono /\ p.newest = e.mono
        <5>1. /\ p.kept = (o.kept /\ o.newest <= e.mono)
              /\ p.newest = IF e.mono < o.newest THEN o.newest ELSE e.mono
          BY <4>0 DEF Ordered
        <5>2. o.newest <= e.mono => p.newest = e.mono
          BY <2>1, <3>1, <5>1
        <5> QED
          BY <5>1, <5>2
      <4>2. p.kept => /\ last <= p.newest
                      /\ \A k \in Pending \cup {e} : k.sid = t => last <= k.mono /\ k.mono <= p.newest
        BY <2>1, <3>1, <3>2, <4>1
      <4>3. ASSUME p.kept, NEW k \in Pending \cup {e}, NEW m \in Pending \cup {e},
                   k.sid = t, m.sid = t, k.n < m.n
            PROVE  k.mono <= m.mono
        <5>1. k \in Pending
          BY <1>2, <2>1, <4>3
        <5>2. CASE m \in Pending
          BY <3>2, <4>1, <4>3, <5>1, <5>2
        <5>3. CASE m = e
          BY <2>1, <4>1, <4>2, <4>3, <5>1, <5>3
        <5> QED
          BY <5>2, <5>3
      <4> QED
        BY <1>3, <3>2, <3>4, <4>2, <4>3 DEF last, p
    <3> QED
      BY <3>3, <3>4
  <2>4. IdrsPast'
    BY <1>3, <2>3 DEF IdrsPast
  <2>5. SpacedStep
    BY <1>1, <1>3, IdrFields, SameSpaced DEF SpacedStep
  <2> QED
    BY <2>4, <2>5
<1> QED
  BY <1>2, <1>4, <1>5 DEF Enqueue

(* The process starts with nothing pending and nothing asked. *)
LEMMA IdrBoot ==
  ASSUME TypeOK, Boot
  PROVE  IdrsPast' /\ SpacedStep
<1>1. Pending' = {} /\ \A sid \in Streams : stream'[sid].idr = NoIdr /\ order'[sid] = NoOrder
  BY DEF Boot, Pending, ZeroStream
<1>2. NoIdr.last = 0 /\ NoIdr.count = 0 /\ NoOrder.newest = 0
  BY DEF NoIdr, NoOrder
<1>3. IdrsPast'
  BY <1>1, <1>2 DEF IdrsPast
<1>4. SpacedStep
  BY <1>1, <1>2, IdrFields DEF SpacedStep, Spaced
<1> QED
  BY <1>3, <1>4

(* Every step keeps the gap. *)
LEMMA IdrNext ==
  ASSUME Inv, PlayInv, IdrsPast, [Next]_vars
  PROVE  IdrsPast' /\ SpacedStep
<1>1. TypeOK /\ QueueOrder
  BY DEF Inv, PlayInv
<1>2. CASE Dequeue
  <2>1. Pending' = Pending /\ UNCHANGED <<stream, order>>
    BY <1>1, <1>2, OrderDequeue DEF Dequeue
  <2> QED
    BY <1>1, <2>1, IdrQuiet
<1>3. CASE FinalizeCurrent \/ FinalizeAtExit
  <2>1. \E sid \in Streams : Finalize(sid)
    BY <1>3, EventNumbers DEF FinalizeCurrent, FinalizeAtExit, Inv, TypeOK
  <2> QED
    BY <2>1, IdrFinalize
<1>4. CASE Join
  <2>1. Pending' = Pending /\ order' = order /\ \A t \in Streams : stream'[t].idr = NoIdr
    BY <1>4 DEF Join, Pending, ZeroStream
  <2> QED
    BY <1>1, <2>1, IdrQuiet
<1>5. CASE Crash \/ Restart
  BY <1>1, <1>5, IdrBoot DEF Crash, Restart
<1>6. CASE LeaveLoop \/ Stop \/ Tick \/ StepWall \/ MountChange \/ UNCHANGED vars
  <2>1. UNCHANGED <<stream, queue, cur, order>>
    BY <1>6 DEF LeaveLoop, Stop, Tick, StepWall, MountChange, vars, recVars
  <2>2. Pending' = Pending
    BY <2>1 DEF Pending
  <2> QED
    BY <1>1, <2>1, <2>2, IdrQuiet
<1> QED
  BY <1>2, <1>3, <1>4, <1>5, <1>6, IdrHandle, IdrVideo, IdrFileWork, IdrHandlers
  DEF Next, Writer, Environment

(* Rollover, retry and periodic requests of a stream keep MinIdrGap between *)
(* them (recorder_request_idr, recorder_maybe_request_periodic_idr), for    *)
(* every backoff that is no shorter and as long as the stream's events have *)
(* come into the queue in the order of their stamps.                        *)
THEOREM RecorderIdrSpaced == Spec => IdrSpaced
<1> DEFINE Step == \A sid \in Streams :
                     LET before == stream[sid].idr
                         after  == stream'[sid].idr
                     IN  order[sid].kept /\ pc # "discardAsk" /\
                         before.count > 0 /\ after.count = before.count + 1
                           => after.last - before.last >= MinIdrGap
<1>1. Init => IdrsPast
  <2> SUFFICES ASSUME Init PROVE IdrsPast
    OBVIOUS
  <2>1. Pending = {} /\ \A sid \in Streams : stream[sid].idr = NoIdr /\ order[sid] = NoOrder
    BY DEF Init, Pending, ZeroStream
  <2> QED
    BY <2>1 DEF IdrsPast, NoIdr, NoOrder
<1>2. Inv /\ PlayInv /\ IdrsPast /\ [Next]_vars => IdrsPast' /\ [Step]_vars
  <2> SUFFICES ASSUME Inv, PlayInv, IdrsPast, [Next]_vars PROVE IdrsPast' /\ Step
    OBVIOUS
  <2>1. IdrsPast' /\ SpacedStep
    BY IdrNext
  <2> QED
    BY <2>1 DEF SpacedStep, Spaced
<1> QED
  BY <1>1, <1>2, InitInv, NextInv, PlayInit, PlayNext, PTL DEF Spec, IdrSpaced

-----------------------------------------------------------------------------
(* CleanStop: while nothing has gone wrong, the writer's counts agree with  *)
(* the files and no file is left that no stream points to.                  *)

(* An open file belongs to a stream that records, on a mounted directory,   *)
(* and holds the packets the stream counts.                                 *)
CleanFile(sid) ==
  LET r == stream[sid] IN
  r.fp # NoFile =>
    /\ nfs.ok /\ ~r.waiting
    /\ IF pc = "head" /\ cur.sid = sid THEN r.packets = 0
       ELSE Len(tmp[r.fp]) = r.packets + 1

(* A closed segment holds the packets counted. *)
Complete(segment) == segment.packets > 0 => Len(segment.body) = segment.packets + 1

Clean ==
  /\ nfs.ok = (~RequireNfs \/ mounted)
  /\ pc \notin {"discard", "discardAsk"}
  /\ pc \in {"open", "roll", "head"} => nfs.ok
  /\ pc = "open" => S.fp = NoFile
  /\ \A sid \in Streams : CleanFile(sid)
  /\ phase = "off" => pc = "off" /\ \A sid \in Streams : stream[sid].fp = NoFile
  /\ \A f \in Names : tmp[f] # <<>> => stream[f[1]].fp = f
  /\ \A f \in Names : Complete(final[f])

(* The mount table read again tells nothing new. *)
LEMMA MountKnown ==
  ASSUME TypeOK, Clean
  PROVE  NfsNow.ok = nfs.ok
BY RecorderAssumption DEF TypeOK, Clean, NfsNow, RecorderAssumption

(* The file of another stream than the one in hand. *)
LEMMA CleanOther ==
  ASSUME NEW t \in Streams, CleanFile(t), stream'[t] = stream[t], nfs'.ok = nfs.ok,
         ~(pc = "head" /\ cur.sid = t), ~(pc' = "head" /\ cur'.sid = t),
         stream[t].fp # NoFile => tmp'[stream[t].fp] = tmp[stream[t].fp]
  PROVE  CleanFile(t)'
BY DEF CleanFile

(* A step of the writer on the event in hand, which leaves the files of the *)
(* other streams alone.                                                    *)
LEMMA CleanStep ==
  ASSUME Inv, PlayInv, Clean, pc \in WorkSteps, cur \in Events,
         NEW s \in RecorderStreams, SetStream(s),
         NEW next \in WorkSteps \cup {"wait"}, Done(next), UNCHANGED <<phase, mounted, final>>,
         nfs'.ok = nfs.ok, next \notin {"discard", "discardAsk"},
         next \in {"open", "roll", "head"} => nfs.ok,
         next = "open" => s.fp = NoFile,
         NEW sid \in Streams, sid = cur.sid, CleanFile(sid)',
         \A g \in Names : g[1] # sid => tmp'[g] = tmp[g],
         \A g \in Names : g[1] = sid /\ tmp'[g] # <<>> => s.fp = g
  PROVE  Clean'
<1>0. TypeOK /\ \A t \in Streams : OpenFile(t)
  BY DEF Inv, PlayInv
<1>1. /\ stream'[sid] = s /\ \A t \in Streams \ {sid} : stream'[t] = stream[t]
      /\ pc' = next /\ (next # "wait" => cur' = cur) /\ phase # "off"
  BY <1>0, StreamStored DEF Done, Clean, WorkSteps
<1>2. ASSUME NEW t \in Streams PROVE CleanFile(t)'
  <2>1. CASE t = sid
    BY <2>1
  <2>2. CASE t # sid
    <3>1. stream[t].fp # NoFile => tmp'[stream[t].fp] = tmp[stream[t].fp]
      <4>1. stream[t].fp # NoFile => stream[t].fp \in Names /\ stream[t].fp[1] = t
        BY <1>0 DEF OpenFile, TypeOK, RecorderStreams
      <4> QED
        BY <2>2, <4>1
    <3>2. CleanFile(t) /\ stream'[t] = stream[t] /\ ~(pc' = "head" /\ cur'.sid = t)
      BY <1>1, <2>2 DEF Clean
    <3> QED
      BY <2>2, <3>1, <3>2, CleanOther
  <2> QED
    BY <2>1, <2>2
<1>3. ASSUME NEW f \in Names, tmp'[f] # <<>> PROVE stream'[f[1]].fp = f
  <2>1. f[1] \in Streams
    BY DEF Names
  <2>2. CASE f[1] = sid
    BY <1>1, <1>3, <2>2
  <2>3. CASE f[1] # sid
    BY <1>1, <1>3, <2>1, <2>3 DEF Clean
  <2> QED
    BY <2>2, <2>3
<1>4. pc' = "open" => S'.fp = NoFile
  BY <1>1 DEF S
<1>5. nfs'.ok = (~RequireNfs \/ mounted') /\ \A f \in Names : Complete(final'[f])
  BY DEF Clean
<1> QED
  BY <1>1, <1>2, <1>3, <1>4, <1>5 DEF Clean

(* A step that moves no file, after which a stream's file is as it was. *)
LEMMA CleanKept ==
  ASSUME Inv, PlayInv, Clean, pc \in WorkSteps \ {"head"}, cur \in Events,
         NEW s \in RecorderStreams, SetStream(s), s.fp = S.fp, s.packets = S.packets,
         s.fp # NoFile => ~s.waiting,
         NEW next \in WorkSteps \cup {"wait"}, Done(next), WriterQuiet, UNCHANGED fileVars,
         nfs'.ok = nfs.ok, next \notin {"head", "discard", "discardAsk"},
         next \in {"open", "roll"} => nfs.ok,
         next = "open" => s.fp = NoFile
  PROVE  Clean'
<1>1. PICK sid \in Streams : sid = cur.sid
  BY CurrentStream DEF Inv
<1>2. TypeOK /\ stream'[sid] = s /\ pc' = next /\ S = stream[sid]
  BY <1>1, StreamStored DEF Inv, Done, S
<1>3. UNCHANGED <<phase, mounted, tmp, final>>
  BY DEF WriterQuiet, fileVars
<1>4. CleanFile(sid)'
  <2>1. CleanFile(sid)
    BY DEF Clean
  <2> QED
    BY <1>2, <1>3, <2>1 DEF CleanFile
<1>5. \A g \in Names : g[1] = sid /\ tmp'[g] # <<>> => s.fp = g
  BY <1>2, <1>3 DEF Clean
<1>6. \A g \in Names : g[1] # sid => tmp'[g] = tmp[g]
  BY <1>3
<1> QED
  BY <1>1, <1>3, <1>4, <1>5, <1>6, CleanStep

(* STREAM_START and STREAM_STOP find the file closed. *)
LEMMA CleanHandle ==
  ASSUME Inv, PlayInv, Clean, HandleStart \/ HandleStop
  PROVE  Clean'
<1>1. pc \in WorkSteps \ {"head"} /\ TypeOK /\ cur \in Events /\ S.fp = NoFile
  BY EventInHand DEF HandleStart, HandleStop, WorkSteps
<1>2. PICK sid \in Streams : sid = cur.sid /\ S = stream[sid]
  BY <1>1, CurrentStream DEF S
<1>3. Done("wait") /\ WriterQuiet /\ UNCHANGED <<nfs, tmp, final>>
  BY DEF HandleStart, HandleStop, NoFileWork, fileVars
<1>4. PICK s \in RecorderStreams : SetStream(s) /\ s.fp = NoFile
  <2>1. CASE HandleStop
    BY <2>1, ZeroTyped DEF HandleStop, ZeroStream
  <2>2. CASE HandleStart
    <3> DEFINE records == cur.sid \in EnabledStreams /\ cur.codec \in Supported
               idr == IF records THEN ForceIdr(NoIdr, cur.mono) ELSE NoIdr
               s == [ZeroStream EXCEPT !.active = records, !.codec = cur.codec, !.waiting = TRUE,
                                       !.idr = idr]
    <3>1. idr \in Idrs
      BY <1>1, CurrentStream, RequestsTyped DEF NoIdr, Idrs
    <3>2. cur.codec \in Nat /\ records \in BOOLEAN
      BY <1>1 DEF Events
    <3>3. SetStream(s)
      BY <2>2 DEF HandleStart
    <3> HIDE DEF records, idr
    <3>4. s.fp = NoFile
      BY DEF ZeroStream
    <3>5. s \in RecorderStreams
      BY <3>1, <3>2, ZeroTyped DEF RecorderStreams
    <3> QED
      BY <3>3, <3>4, <3>5
  <2> QED
    BY <2>1, <2>2
<1>5. CleanFile(sid)' /\ \A g \in Names : g[1] = sid => tmp'[g] = <<>>
  <2>1. stream'[sid].fp = NoFile
    BY <1>1, <1>2, <1>4, StreamStored
  <2>2. \A g \in Names : g[1] = sid => tmp[g] = <<>>
    <3> SUFFICES ASSUME NEW g \in Names, g[1] = sid, tmp[g] # <<>> PROVE FALSE
      OBVIOUS
    <3>1. g = NoFile
      BY <1>1, <1>2 DEF Clean
    <3> QED
      BY <3>1, RecorderAssumption DEF RecorderAssumption
  <2> QED
    BY <1>3, <2>1, <2>2 DEF CleanFile
<1>6. UNCHANGED <<phase, mounted, final>> /\ \A g \in Names : tmp'[g] = tmp[g]
  BY <1>3 DEF WriterQuiet
<1>7. "wait" \in WorkSteps \cup {"wait"}
  OBVIOUS
<1> QED
  BY <1>1, <1>2, <1>3, <1>4, <1>5, <1>6, <1>7, CleanStep

(* process_video reads the payload before it touches the file. *)
LEMMA AnalyzedFile ==
  ASSUME TypeOK, cur \in Events
  PROVE  /\ Analyzed \in RecorderStreams /\ Analyzed.fp = S.fp /\ Analyzed.packets = S.packets
         /\ Analyzed.waiting = S.waiting
         /\ RolloverChecked \in RecorderStreams /\ RolloverChecked.fp = S.fp
         /\ RolloverChecked.packets = S.packets /\ RolloverChecked.waiting = S.waiting
<1>1. S \in RecorderStreams
  BY CurrentStream
<1> DEFINE a == Analyzed
           r == RolloverChecked
<1>2. a \in RecorderStreams /\ r \in RecorderStreams
  BY AnalyzedTyped, RolloverCheckedTyped
<1>3. a.fp = S.fp /\ a.packets = S.packets /\ a.waiting = S.waiting
  BY <1>1 DEF Analyzed, RecorderStreams
<1>4. \/ r = a
      \/ \E i : r = [a EXCEPT !.rollover = TRUE, !.idr = i]
  BY DEF RolloverChecked
<1> HIDE DEF a, r
<1>5. r.fp = a.fp /\ r.packets = a.packets /\ r.waiting = a.waiting
  BY <1>2, <1>4 DEF RecorderStreams
<1> QED
  BY <1>2, <1>3, <1>5 DEF a, r

(* process_video up to its file operations. *)
LEMMA CleanVideo ==
  ASSUME Inv, PlayInv, Clean, Video
  PROVE  Clean'
<1>1. pc = "video" /\ pc \in WorkSteps \ {"head"}
  BY DEF Video, IgnoreVideo, SkipUnmounted, AwaitKeyframe, BeginSegment, WriteOrRoll, WorkSteps
<1>2. TypeOK /\ cur \in Events /\ S \in RecorderStreams /\ NfsNow.ok = nfs.ok
  BY <1>1, EventInHand, CurrentStream, MountKnown
<1>3. /\ Analyzed \in RecorderStreams /\ Analyzed.fp = S.fp /\ Analyzed.packets = S.packets
      /\ Analyzed.waiting = S.waiting
      /\ RolloverChecked \in RecorderStreams /\ RolloverChecked.fp = S.fp
      /\ RolloverChecked.packets = S.packets /\ RolloverChecked.waiting = S.waiting
  BY <1>2, AnalyzedFile
<1>4. S.fp # NoFile => nfs.ok /\ ~S.waiting
  BY <1>2, CurrentStream DEF Clean, CleanFile, S
<1>5. ASSUME NEW s \in RecorderStreams, s.fp = S.fp, s.packets = S.packets,
             s.fp # NoFile => ~s.waiting,
             NEW next \in {"wait", "open", "roll", "append"}, InVideo(s, next),
             next \in {"open", "roll"} => nfs.ok, next = "open" => s.fp = NoFile
      PROVE  Clean'
  <2>1. SetStream(s) /\ Done(next) /\ WriterQuiet /\ UNCHANGED fileVars /\ nfs'.ok = nfs.ok
    BY <1>2, <1>5 DEF InVideo, NoFileWork
  <2>2. next \in WorkSteps \cup {"wait"} /\ next \notin {"head", "discard", "discardAsk"}
    BY DEF WorkSteps
  <2> QED
    BY <1>1, <1>2, <1>5, <2>1, <2>2, CleanKept
<1>6. ASSUME NEW s \in RecorderStreams, NEW i \in Idrs
      PROVE  LET r == [s EXCEPT !.idr = i]
             IN  /\ r \in RecorderStreams /\ r.fp = s.fp /\ r.packets = s.packets
                 /\ r.waiting = s.waiting
  BY DEF RecorderStreams
<1>7. CASE IgnoreVideo
  <2>1. SetStream(S) /\ Done("wait") /\ WriterQuiet /\ UNCHANGED <<fileVars, nfs>>
    BY <1>2, <1>7 DEF IgnoreVideo, NoFileWork, SetStream, S, TypeOK
  <2>2. "wait" \in WorkSteps \cup {"wait"}
    OBVIOUS
  <2> QED
    BY <1>1, <1>2, <1>4, <2>1, <2>2, CleanKept
<1>8. CASE SkipUnmounted
  <2> DEFINE a == Analyzed
             s == [a EXCEPT !.waiting = TRUE, !.rollover = FALSE]
  <2>1. InVideo(s, "wait") /\ S.fp = NoFile
    BY <1>2, <1>4, <1>8 DEF SkipUnmounted
  <2>2. a \in RecorderStreams /\ a.fp = S.fp /\ a.packets = S.packets
    BY <1>3
  <2> HIDE DEF a
  <2>3. s \in RecorderStreams /\ s.fp = a.fp /\ s.packets = a.packets
    BY <2>2 DEF RecorderStreams
  <2> HIDE DEF s
  <2> QED
    BY <1>5, <2>1, <2>2, <2>3
<1>9. CASE AwaitKeyframe
  <2>1. S.fp = NoFile
    BY <1>4, <1>9 DEF AwaitKeyframe
  <2>2. Analyzed.idr \in Idrs /\ cur.mono \in Nat
    BY <1>2, <1>3, CurrentStream DEF RecorderStreams
  <2>3. PICK i \in Idrs : InVideo([Analyzed EXCEPT !.idr = i], "wait")
    BY <1>9, <2>2, RequestsTyped DEF AwaitKeyframe
  <2> QED
    BY <1>3, <1>5, <1>6, <2>1, <2>3
<1>10. CASE BeginSegment
  <2>1. S.fp = NoFile /\ nfs.ok /\ InVideo(Analyzed, "open")
    BY <1>2, <1>4, <1>10 DEF BeginSegment
  <2> QED
    BY <1>3, <1>5, <2>1
<1>11. CASE WriteOrRoll
  <2> DEFINE r == RolloverChecked
  <2>1. r.idr \in Idrs /\ cur.mono \in Nat /\ cur.sid \in 1 .. MaxStreams
    BY <1>2, <1>3, CurrentStream DEF RecorderStreams
  <2>2. ~S.waiting /\ nfs.ok
    BY <1>2, <1>11 DEF WriteOrRoll
  <2>3. RequestIdr(r.idr, cur.mono) \in Idrs /\ PeriodicIdr(r.idr, cur.sid, cur.mono) \in Idrs
    BY <2>1, RequestsTyped, PeriodicTyped
  <2>4. \/ InVideo(r, "roll")
        \/ InVideo([r EXCEPT !.idr = RequestIdr(r.idr, cur.mono)], "append")
        \/ InVideo([r EXCEPT !.idr = r.idr], "append")
        \/ InVideo([r EXCEPT !.idr = PeriodicIdr(r.idr, cur.sid, cur.mono)], "append")
    BY <1>11 DEF WriteOrRoll
  <2>5. InVideo(r, "roll") \/ \E i \in Idrs : InVideo([r EXCEPT !.idr = i], "append")
    <3> HIDE DEF r
    <3> QED
      BY <2>1, <2>3, <2>4
  <2>6. CASE InVideo(r, "roll")
    BY <1>3, <1>5, <2>2, <2>6
  <2>7. CASE \E i \in Idrs : InVideo([r EXCEPT !.idr = i], "append")
    BY <1>3, <1>5, <1>6, <2>2, <2>7
  <2> QED
    BY <2>5, <2>6, <2>7
<1> QED
  BY <1>7, <1>8, <1>9, <1>10, <1>11 DEF Video

(* A new segment replaces no file that holds anything. *)
LEMMA CleanOpen ==
  ASSUME Inv, PlayInv, Clean, OpenSegment
  PROVE  Clean'
<1> DEFINE idr == [S.idr EXCEPT !.next = NextPeriodic(cur.sid, cur.mono), !.count = 0]
           s == [S EXCEPT !.fp = OpenName, !.startWall = cur.wall, !.packets = 0,
                          !.waiting = FALSE, !.rollover = FALSE, !.idr = idr]
<1>1. pc \in {"open", "roll"} /\ Opening /\ pc \in WorkSteps
  BY DEF OpenSegment, Opening, WorkSteps
<1>2. TypeOK /\ cur \in Events
  BY <1>1, EventInHand
<1>3. PICK sid \in Streams : sid = cur.sid /\ sid \in 1 .. MaxStreams /\ S = stream[sid]
  BY <1>2, CurrentStream DEF S
<1>4. /\ S \in RecorderStreams /\ S.idr \in Idrs /\ cur.wall \in Nat /\ cur.mono \in Nat
      /\ OpenName \in Names /\ OpenName # NoFile
  BY <1>1, <1>2, CurrentStream, OpenNameTyped
<1>5. S.fp = NoFile /\ nfs.ok
  BY <1>1 DEF Clean, Opening
<1>6. idr \in Idrs
  BY <1>3, <1>4, NextPeriodicTyped DEF Idrs
<1>7. /\ SetStream(s) /\ Done("head") /\ WriterQuiet /\ final' = final /\ nfs' = nfs
      /\ tmp' = [tmp EXCEPT ![OpenName] = <<>>]
  BY DEF OpenSegment
<1> HIDE DEF idr
<1>8. s \in RecorderStreams /\ s.fp = OpenName /\ ~s.waiting /\ s.packets = 0
  BY <1>4, <1>6 DEF RecorderStreams
<1> HIDE DEF s
<1>9. OpenName[1] = sid
  BY <1>3 DEF OpenName
<1>10. \A g \in Names : g[1] # sid => tmp'[g] = tmp[g]
  BY <1>2, <1>4, <1>7, <1>9 DEF TypeOK
<1>11. \A g \in Names : g[1] = sid /\ tmp'[g] # <<>> => s.fp = g
  <2> SUFFICES ASSUME NEW g \in Names, g[1] = sid, tmp'[g] # <<>>, g # OpenName PROVE FALSE
    BY <1>8
  <2>1. tmp[g] # <<>>
    BY <1>2, <1>4, <1>7 DEF TypeOK
  <2>2. S.fp = g
    BY <1>3, <2>1 DEF Clean
  <2> QED
    BY <1>5, <2>2, RecorderAssumption DEF RecorderAssumption
<1>12. stream'[sid] = s /\ pc' = "head" /\ cur' = cur
  BY <1>2, <1>3, <1>7, <1>8, StreamStored DEF Done
<1>13. CleanFile(sid)'
  BY <1>3, <1>5, <1>7, <1>8, <1>12 DEF CleanFile
<1>14. UNCHANGED <<phase, mounted, final>> /\ "head" \in WorkSteps \cup {"wait"}
  BY <1>7 DEF WriterQuiet, WorkSteps
<1> QED
  BY <1>1, <1>2, <1>3, <1>5, <1>7, <1>8, <1>10, <1>11, <1>13, <1>14, CleanStep

(* A packet is written and counted. *)
LEMMA CleanWrite ==
  ASSUME Inv, PlayInv, Clean, WriteHead \/ AppendPacket
  PROVE  Clean'
<1> DEFINE s == [S EXCEPT !.packets = @ + 1]
<1>1. pc \in {"head", "append"} /\ pc \in WorkSteps
  BY DEF WriteHead, AppendPacket, WorkSteps
<1>2. TypeOK /\ cur \in Events /\ S \in RecorderStreams
  BY <1>1, EventInHand, CurrentStream
<1>3. PICK sid \in Streams : sid = cur.sid /\ S = stream[sid]
  BY <1>2, CurrentStream DEF S
<1>4. S.fp # NoFile /\ S.packets \in Nat
  BY <1>1, <1>2 DEF Inv, WriterInv, RecorderStreams
<1>5. PICK f \in Names : f = S.fp
  BY <1>2, <1>4, CurrentStream
<1>6. PICK b \in Seq(Chunks) : b = tmp[f]
  BY <1>2 DEF TypeOK
<1>7. /\ f[1] = sid /\ nfs.ok /\ ~S.waiting
      /\ IF pc = "head" THEN b = <<>> /\ S.packets = 0 ELSE Len(b) = S.packets + 1
  BY <1>1, <1>3, <1>4, <1>5, <1>6 DEF PlayInv, OpenFile, Clean, CleanFile
<1>8. PICK h \in Chunks, p \in Chunks : h = ParamsChunk(S, cur) /\ p = Packet(S, cur)
  BY <1>2, ChunkFields
<1>9. /\ SetStream(s) /\ Done("wait") /\ WriterQuiet /\ final' = final /\ nfs' = nfs
      /\ tmp' = [tmp EXCEPT ![f] = IF pc = "head" THEN b \o <<h, p>> ELSE Append(b, p)]
  BY <1>5, <1>6, <1>8 DEF WriteHead, AppendPacket
<1>10. s \in RecorderStreams /\ s.fp = f /\ s.waiting = S.waiting /\ s.packets = S.packets + 1
  <2>1. S.packets + 1 \in Nat
    BY <1>4
  <2> QED
    BY <1>2, <1>5, <2>1 DEF RecorderStreams
<1> HIDE DEF s
<1>11. Len(tmp'[f]) = S.packets + 2
  <2>1. Len(b \o <<h, p>>) = Len(b) + 2 /\ Len(Append(b, p)) = Len(b) + 1 /\ Len(<<>>) = 0
    OBVIOUS
  <2>2. tmp'[f] = IF pc = "head" THEN b \o <<h, p>> ELSE Append(b, p)
    BY <1>2, <1>9 DEF TypeOK
  <2> QED
    BY <1>4, <1>7, <2>1, <2>2
<1>12. \A g \in Names : g # f => tmp'[g] = tmp[g]
  BY <1>2, <1>9 DEF TypeOK
<1>13. \A g \in Names : g[1] = sid /\ tmp'[g] # <<>> => s.fp = g
  BY <1>3, <1>5, <1>10, <1>12 DEF Clean
<1>14. stream'[sid] = s /\ pc' = "wait"
  BY <1>2, <1>3, <1>9, <1>10, StreamStored DEF Done
<1>15. CleanFile(sid)'
  <2>1. s.packets + 1 = S.packets + 2
    BY <1>4, <1>10
  <2> QED
    BY <1>7, <1>9, <1>10, <1>11, <1>14, <2>1 DEF CleanFile
<1>16. UNCHANGED <<phase, mounted, final>> /\ "wait" \in WorkSteps \cup {"wait"}
  BY <1>9 DEF WriterQuiet
<1>17. \A g \in Names : g[1] # sid => tmp'[g] = tmp[g]
  BY <1>7, <1>12
<1> QED
  BY <1>1, <1>2, <1>3, <1>9, <1>10, <1>13, <1>15, <1>16, <1>17, CleanStep

(* A segment is closed and renamed. *)
LEMMA CleanFinalize ==
  ASSUME Inv, PlayInv, Clean, NEW sid \in Streams, Finalize(sid), upsets' = upsets,
         pc \in {"start", "stop", "roll", "drain"}
  PROVE  Clean'
<1> DEFINE r == stream[sid]
<1>0. TypeOK /\ upsets \in Nat /\ \A t \in Streams : OpenFile(t)
  BY DEF Inv, PlayInv, TypeOK
<1>1. r \in RecorderStreams /\ r.fp # NoFile /\ upsets' # upsets + 1
  BY <1>0 DEF TypeOK, Finalize
<1>2. PICK f \in Names : f = r.fp /\ f[1] = sid
  BY <1>0, <1>1 DEF RecorderStreams, OpenFile
<1>3. /\ UNCHANGED <<cur, pc, phase, nfs, mounted>>
      /\ stream' = [stream EXCEPT ![sid] = Closed(r)]
      /\ final' = [final EXCEPT ![f] = [state |-> "whole", packets |-> r.packets, body |-> tmp[f]]]
      /\ tmp' = [tmp EXCEPT ![f] = <<>>]
  BY <1>1, <1>2 DEF Finalize, Upset
<1>4. stream'[sid].fp = NoFile /\ \A t \in Streams \ {sid} : stream'[t] = stream[t]
  <2>1. Closed(r).fp = NoFile
    BY <1>1 DEF Closed, RecorderStreams
  <2> QED
    BY <1>0, <1>3, <2>1 DEF TypeOK
<1>5. /\ tmp'[f] = <<>> /\ final'[f] = [state |-> "whole", packets |-> r.packets, body |-> tmp[f]]
      /\ \A g \in Names : g # f => tmp'[g] = tmp[g] /\ final'[g] = final[g]
  BY <1>0, <1>3 DEF TypeOK
<1>6. Len(tmp[f]) = r.packets + 1
  BY <1>1, <1>2 DEF Clean, CleanFile
<1>7. \A g \in Names : Complete(final'[g])
  BY <1>5, <1>6 DEF Clean, Complete
<1>8. ASSUME NEW t \in Streams PROVE CleanFile(t)'
  <2>1. CASE t = sid
    BY <1>4, <2>1 DEF CleanFile
  <2>2. CASE t # sid
    <3>1. stream[t].fp # NoFile => tmp'[stream[t].fp] = tmp[stream[t].fp]
      <4>1. stream[t].fp # NoFile => stream[t].fp \in Names /\ stream[t].fp[1] = t
        BY <1>0 DEF OpenFile, TypeOK, RecorderStreams
      <4> QED
        BY <1>2, <1>5, <2>2, <4>1
    <3> QED
      BY <1>3, <1>4, <2>2, <3>1, CleanOther DEF Clean
  <2> QED
    BY <2>1, <2>2
<1>9. ASSUME NEW g \in Names, tmp'[g] # <<>> PROVE stream'[g[1]].fp = g
  <2>1. g # f /\ stream[g[1]].fp = g /\ g[1] \in Streams
    BY <1>5, <1>9 DEF Clean, Names
  <2> QED
    BY <1>2, <1>4, <2>1
<1> QED
  BY <1>3, <1>7, <1>8, <1>9 DEF Clean

(* A step that touches neither streams nor files. *)
LEMMA CleanQuiet ==
  ASSUME Clean, UNCHANGED <<stream, tmp, final, nfs, mounted>>,
         \/ UNCHANGED <<pc, cur>>
         \/ pc = "wait" /\ pc' \in {"start", "video", "stop", "drain"},
         phase' = "off" => phase = "off" /\ pc' = "off"
  PROVE  Clean'
<1>1. ASSUME NEW t \in Streams PROVE CleanFile(t)'
  BY CleanOther DEF Clean, CleanFile
<1>2. pc' = "open" => S'.fp = NoFile
  BY DEF Clean, S
<1> QED
  BY <1>1, <1>2 DEF Clean

(* Every step keeps the books while nothing goes wrong. *)
LEMMA CleanNext ==
  ASSUME Inv, PlayInv, Clean, [Next]_vars, upsets' = upsets
  PROVE  Clean'
<1>1. TypeOK /\ upsets \in Nat /\ upsets # upsets + 1
  BY DEF Inv, TypeOK
<1>2. ~Upset("io") /\ ~Upset("clock") /\ ~Upset("mount") /\ ~Upset("crash")
  BY <1>1 DEF Upset
<1>3. CASE Dequeue
  <2>1. Head(queue) \in Events
    BY <1>1, <1>3 DEF TypeOK, Dequeue
  <2>2. /\ UNCHANGED <<stream, tmp, final, nfs, mounted, phase>>
        /\ pc = "wait" /\ pc' \in {"start", "video", "stop"}
    BY <1>3, <2>1 DEF Dequeue, fileVars, envVars, Events
  <2> QED
    BY <2>2, CleanQuiet DEF Clean
<1>4. CASE FinalizeCurrent \/ FinalizeAtExit
  <2>1. PICK sid \in Streams : Finalize(sid)
    BY <1>4, EventNumbers DEF FinalizeCurrent, FinalizeAtExit, Inv, TypeOK
  <2>2. pc \in {"start", "stop", "roll", "drain"}
    BY <1>4 DEF FinalizeCurrent, FinalizeAtExit
  <2> QED
    BY <2>1, <2>2, CleanFinalize
<1>5. CASE Join
  <2>1. /\ \A t \in Streams : stream'[t].fp = NoFile /\ stream[t].fp = NoFile
        /\ pc' = "off" /\ UNCHANGED <<nfs, tmp, final, mounted>>
    BY <1>5 DEF Join, ZeroStream, fileVars, envVars
  <2>2. \A f \in Names : stream'[f[1]].fp = stream[f[1]].fp
    BY <2>1 DEF Names
  <2> QED
    BY <2>1, <2>2 DEF Clean, CleanFile
<1>6. CASE Restart
  <2>1. /\ \A t \in Streams : stream'[t].fp = NoFile /\ stream[t].fp = NoFile
        /\ pc' = "wait" /\ phase' = "on" /\ nfs'.ok = (~RequireNfs \/ mounted)
        /\ UNCHANGED <<tmp, final, mounted>>
    BY <1>6 DEF Restart, Boot, ZeroStream, fileVars, Clean
  <2>2. \A f \in Names : stream'[f[1]].fp = stream[f[1]].fp
    BY <2>1 DEF Names
  <2> QED
    BY <2>1, <2>2 DEF Clean, CleanFile
<1>7. CASE LeaveLoop \/ Stop \/ Handlers \/ Tick \/ UNCHANGED vars
  <2>1. /\ UNCHANGED <<stream, tmp, final, nfs, mounted>>
        /\ UNCHANGED <<pc, cur>> \/ (pc = "wait" /\ pc' = "drain")
        /\ phase' = "off" => phase = "off" /\ UNCHANGED pc
    BY <1>7 DEF LeaveLoop, Stop, Handlers, OnStreamStart, OnVideo, OnStreamStop, Enqueue, Tick,
       vars, recVars, fileVars, envVars
  <2> QED
    BY <2>1, CleanQuiet DEF Clean
<1>8. ~OpenFails /\ ~WriteHeadFails /\ ~AppendFails /\ ~StepWall /\ ~MountChange /\ ~Crash
  BY <1>2 DEF OpenFails, WriteHeadFails, AppendFails, StepWall, MountChange, Crash
<1>9. ~Discard
  BY DEF Discard, Clean
<1> QED
  BY <1>3, <1>4, <1>5, <1>6, <1>7, <1>8, <1>9, CleanHandle, CleanVideo, CleanOpen, CleanWrite
  DEF Next, Writer, FileWork, Environment

(* The books agree until something goes wrong. *)
CleanInv == upsets = 0 => Clean

(* It begins with no file at all. *)
LEMMA CleanInit == Init => CleanInv
<1> SUFFICES ASSUME Init PROVE Clean
  BY DEF CleanInv
<1>1. /\ \A sid \in Streams : stream[sid].fp = NoFile
      /\ \A f \in Names : tmp[f] = <<>> /\ Complete(final[f])
  BY DEF Init, ZeroStream, NoSegment, Complete
<1> QED
  BY <1>1 DEF Init, Clean, CleanFile

(* What goes wrong is counted. *)
LEMMA UpsetsCounted ==
  ASSUME TypeOK, [Next]_vars, upsets' = 0
  PROVE  upsets' = upsets
<1>1. upsets \in Nat /\ upsets + 1 # 0
  BY DEF TypeOK
<1>2. ASSUME NEW sid, Finalize(sid) PROVE upsets' \in {upsets, upsets + 1}
  BY <1>2 DEF Finalize, Upset
<1>3. Handlers => upsets' = upsets
  BY DEF Handlers, OnStreamStart, OnVideo, OnStreamStop, Enqueue, envVars
<1>4. Video => upsets' = upsets
  BY DEF Video, IgnoreVideo, SkipUnmounted, AwaitKeyframe, BeginSegment, WriteOrRoll, InVideo,
     NoFileWork
<1>5. FileWork => upsets' \in {upsets, upsets + 1}
  BY DEF FileWork, OpenSegment, OpenFails, WriteHead, WriteHeadFails, AppendPacket, AppendFails,
     Discard, Upset
<1>6. Environment => upsets' \in {upsets, upsets + 1}
  BY DEF Environment, Tick, StepWall, MountChange, Crash, Restart, Upset
<1>7. Dequeue \/ HandleStart \/ HandleStop \/ LeaveLoop \/ Join \/ Stop \/ UNCHANGED vars
        => upsets' = upsets
  BY DEF Dequeue, HandleStart, HandleStop, NoFileWork, LeaveLoop, Join, Stop, vars, envVars
<1>8. FinalizeCurrent \/ FinalizeAtExit => upsets' \in {upsets, upsets + 1}
  BY <1>2 DEF FinalizeCurrent, FinalizeAtExit
<1>9. upsets' \in {upsets, upsets + 1}
  BY <1>3, <1>4, <1>5, <1>6, <1>7, <1>8 DEF Next, Writer
<1> QED
  BY <1>1, <1>9

(* compressed_recorder_stop leaves no .tmp file behind and every closed     *)
(* segment complete if no file operation failed, the mount stayed and the   *)
(* process did not crash, for all streams and any number of segments.       *)
THEOREM RecorderStopsClean == Spec => []CleanStop
<1>1. Inv /\ PlayInv /\ CleanInv /\ [Next]_vars => CleanInv'
  <2> SUFFICES ASSUME Inv, PlayInv, CleanInv, [Next]_vars, upsets' = 0 PROVE Clean'
    BY DEF CleanInv
  <2>1. upsets' = upsets
    BY UpsetsCounted DEF Inv
  <2> QED
    BY <2>1, CleanNext DEF CleanInv
<1>2. TypeOK /\ CleanInv => CleanStop
  <2> SUFFICES ASSUME TypeOK, Clean, phase = "off", NEW f \in Names
               PROVE  /\ tmp[f] = <<>>
                      /\ final[f].packets > 0 => Len(final[f].body) = final[f].packets + 1
    BY DEF CleanInv, CleanStop
  <2>1. Complete(final[f])
    BY DEF Clean
  <2>2. ASSUME tmp[f] # <<>> PROVE FALSE
    <3>1. stream[f[1]].fp = f /\ f[1] \in Streams
      BY <2>2 DEF Clean, Names
    <3>2. f = NoFile
      BY <3>1 DEF Clean
    <3> QED
      BY <3>2, RecorderAssumption DEF RecorderAssumption
  <2> QED
    BY <2>1, <2>2 DEF Complete
<1> QED
  BY <1>1, <1>2, InitInv, NextInv, Typed, PlayInit, PlayNext, CleanInit, PTL DEF Spec
=============================================================================
