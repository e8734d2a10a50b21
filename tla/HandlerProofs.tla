---------------------------- MODULE HandlerProofs ---------------------------
(***************************************************************************)
(* Proofs about what a handler thread of stream_server does with a packet  *)
(* beside the stream's own state: the watchdogs (IdrWatchdog) and the tap  *)
(* (H264Tap).                                                              *)
(*                                                                         *)
(* The watchdogs, for any number of handlers of one stream and for all     *)
(* intervals: their types, that a session begins with a request, the       *)
(* real time between requests, and that a halt that is reported was one.   *)
(* The spacing rests on SpacingInv: what the limit has stored is the time  *)
(* of the last request, early by no more than the lag of the thread that   *)
(* stored it.  What the last rests on is HaltInv: while the count of pictures the watchdog  *)
(* has stored is the decoder's, the last picture is no younger than the    *)
(* stored time, but for the lag of the thread that stored it, and every    *)
(* packet it has counted came behind that picture.  For a count that       *)
(* differs nothing is claimed, so a picture needs no look to follow it; it *)
(* could only make the counts equal if the stored one were ahead.          *)
(*                                                                         *)
(* The tap, for any number of handlers, slots and subscribers and for all  *)
(* packets: no descriptor is lost, a torn unit is followed by an IDR, and  *)
(* pictures keep their order.  What this rests on is ContentInv: what a    *)
(* subscriber was sent and what waits in its slot are one sequence, and    *)
(* flushing only moves the border between them; so all that is to be shown *)
(* of a publication is that the unit it puts behind this sequence is fit.  *)
(***************************************************************************)
EXTENDS IdrWatchdog, H264Tap, SequenceTheorems, WellFoundedInduction, TLAPS

-----------------------------------------------------------------------------
(* The watchdogs.                                                          *)

Places == {"idle", "reset", "init", "stop", "decode", "none", "lookNone", "stall", "lookStall",
           "ask", "limit", "send"}
Streams  == [active : BOOLEAN, decoder : BOOLEAN, received : 0 .. MinReceived,
             decoded : 0 .. MaxDecoded]
Watches  == [delta : 0 .. MinReceived, decoded : 0 .. MaxDecoded, change : Ages, stall : Ages,
             count : 0 .. 2]
States   == [at : Places, lag : 0 .. MaxLag, next : {"idle", "stall"}]
Pictures == [age : 0 .. Horizon, packets : 0 .. MinReceived, renewed : BOOLEAN]

(* Stored counts and times, as long as the decoder is the one that was     *)
(* looked at.                                                              *)
HaltInv ==
  ~picture.renewed =>
    /\ watch.decoded <= stream.decoded
    /\ watch.decoded = stream.decoded /\ stream.decoded # 0 /\ watch.change # Never =>
         picture.age >= watch.change - MaxLag /\ picture.packets >= watch.delta

(* The stored time of the last request, and the time it was really made. *)
SpacingInv ==
  /\ request = Never <=> asked = Never
  /\ asked # Never => asked <= request /\ request <= asked + MaxLag

IInv == TypeOK /\ StartAsked /\ HaltInv /\ SpacingInv

LEMMA Constants ==
  /\ MinReceived \in Nat /\ RequestInterval \in Nat /\ StallIdle \in Nat /\ Horizon \in Nat
  /\ MaxLag \in Nat /\ MaxDecoded \in Nat /\ MaxLag <= Horizon
  /\ Handlers \subseteq Threads /\ Writer \in Threads
<1>1. Backoff \in [1 .. 3 -> Nat] /\ StallIdle \in Nat /\ MaxLag \in Nat /\ Horizon \in Nat
  BY WatchdogAssumption DEF WatchdogAssumption
<1>2. StallIdle + MaxLag <= Horizon
  BY WatchdogAssumption DEF WatchdogAssumption
<1>3. MaxLag <= Horizon
  BY <1>1, <1>2
<1> QED
  BY <1>3, WatchdogAssumption DEF WatchdogAssumption, Threads

(* The arithmetic of ages and of counters. *)
LEMMA LaterAge ==
  ASSUME NEW a \in Ages
  PROVE  /\ Later(a) \in Ages /\ (Later(a) = Never <=> a = Never)
         /\ a # Never => Later(a) \in 0 .. Horizon
  BY Constants DEF Ages, Later, Never, Least

LEMMA LaterOrder ==
  ASSUME NEW a \in 0 .. Horizon, NEW b \in 0 .. Horizon, a >= b - MaxLag
  PROVE  Later(a) >= Later(b) - MaxLag
  BY Constants DEF Later, Never, Least

(* Two times grow old together. *)
LEMMA LaterTogether ==
  ASSUME NEW a \in Ages, NEW r \in Ages, r = Never <=> a = Never,
         a # Never => a <= r /\ r <= a + MaxLag
  PROVE  /\ Later(r) = Never <=> Later(a) = Never
         /\ Later(a) # Never => Later(a) <= Later(r) /\ Later(r) <= Later(a) + MaxLag
<1>1. CASE a = Never
  BY <1>1, LaterAge
<1>2. CASE a # Never
  <2>1. a \in 0 .. Horizon /\ r \in 0 .. Horizon
    BY <1>2, Constants DEF Ages, Never
  <2> QED
    BY <1>2, <2>1, Constants DEF Later, Never, Least
<1> QED
  BY <1>1, <1>2

LEMMA CountedUp ==
  ASSUME NEW m \in 0 .. MinReceived, NEW n \in 0 .. MinReceived
  PROVE  Counted(m) \in 0 .. MinReceived /\ (m <= n => Counted(m) <= Counted(n))
  BY Constants DEF Counted, Least

LEMMA LagIsAge == 0 .. MaxLag \subseteq Ages /\ 0 .. MaxLag \subseteq 0 .. Horizon
  BY Constants DEF Ages, Never

(* What the type invariant says, with its sets by name. *)
LEMMA Typed ==
  TypeOK <=> /\ stream \in Streams /\ watch \in Watches /\ watch.delta <= stream.received
             /\ request \in Ages /\ asked \in Ages /\ thread \in [Threads -> States]
             /\ worker \in {Unread, WorkerPort} /\ picture \in Pictures
  BY DEF TypeOK, Streams, Watches, States, Places, Pictures

LEMMA TypedNext ==
  ASSUME stream' \in Streams, watch' \in Watches, watch'.delta <= stream'.received,
         request' \in Ages, asked' \in Ages, thread' \in [Threads -> States],
         worker' \in {Unread, WorkerPort}, picture' \in Pictures
  PROVE  TypeOK'
  BY DEF TypeOK, Streams, Watches, States, Places, Pictures

-----------------------------------------------------------------------------
(* Initially.                                                              *)

LEMMA InitInv == Init => IInv
<1> SUFFICES ASSUME Init PROVE IInv
  OBVIOUS
<1>1. TypeOK
  <2>1. stream \in Streams
    BY Constants DEF Init, Streams
  <2>2. watch \in Watches
    BY Constants DEF Init, Watches, Ages, Never
  <2>3. thread \in [Threads -> States]
    BY Constants DEF Init, States, Places
  <2>4. picture \in Pictures
    BY Constants DEF Init, Pictures
  <2> QED
    BY <2>1, <2>2, <2>3, <2>4, Typed, Constants DEF Init, Ages, Never
<1>2. StartAsked /\ HaltInv /\ SpacingInv
  BY Constants DEF Init, StartAsked, HaltInv, SpacingInv, Never
<1> QED
  BY <1>1, <1>2 DEF IInv

-----------------------------------------------------------------------------
(* Threads.  A thread goes to another place, or asks on its way.           *)

Elsewhere(t) == \A u \in Threads \ {t} : thread'[u] = thread[u]

LEMMA GotoEffect ==
  ASSUME thread \in [Threads -> States], NEW t \in Threads, NEW a \in Places, Goto(t, a)
  PROVE  /\ thread' \in [Threads -> States] /\ thread'[t].at = a /\ Elsewhere(t)
<1>1. thread[t] \in States /\ 0 \in 0 .. MaxLag
  BY Constants
<1> DEFINE n == [thread[t] EXCEPT !.at = a, !.lag = 0]
<1>2. n \in States /\ n.at = a
  BY <1>1 DEF States
<1>3. thread' = [thread EXCEPT ![t] = n]
  BY DEF Goto
<1> QED
  BY <1>2, <1>3 DEF Elsewhere

LEMMA AskEffect ==
  ASSUME thread \in [Threads -> States], NEW t \in Threads, NEW on \in {"idle", "stall"},
         Ask(t, on)
  PROVE  /\ thread' \in [Threads -> States] /\ thread'[t].at = "ask" /\ Elsewhere(t)
<1> DEFINE n == [at |-> "ask", lag |-> 0, next |-> on]
<1>1. n \in States /\ n.at = "ask"
  BY Constants DEF States, Places
<1>2. thread' = [thread EXCEPT ![t] = n]
  BY DEF Ask
<1> QED
  BY <1>1, <1>2 DEF Elsewhere

(* A start is still being asked for when no thread leaves the way to it.   *)
LEMMA AskedKept ==
  ASSUME StartAsked, NEW t \in Threads, Elsewhere(t), stream'.active => stream.active,
         asked' = Never => asked = Never, Starting(t) => Starting(t)'
  PROVE  StartAsked'
<1>1. \A h \in Handlers : Starting(h) => Starting(h)'
  BY Constants DEF Starting, Elsewhere
<1> QED
  BY <1>1 DEF StartAsked

(* What HaltInv speaks of stays the same. *)
LEMMA HaltKept ==
  ASSUME HaltInv, UNCHANGED picture, stream'.decoded = stream.decoded,
         watch'.decoded = watch.decoded, watch'.change = watch.change, watch'.delta = watch.delta
  PROVE  HaltInv'
  BY DEF HaltInv

-----------------------------------------------------------------------------
(* The steps: each keeps the types, the request at a start, and HaltInv.   *)

LEMMA TickInv == ASSUME IInv, Tick PROVE IInv'
<1>0. /\ stream \in Streams /\ watch \in Watches /\ request \in Ages /\ asked \in Ages
      /\ thread \in [Threads -> States] /\ picture \in Pictures /\ TypeOK
  BY Typed DEF IInv
<1>1. /\ watch.change \in Ages /\ watch.stall \in Ages
      /\ picture.age \in Ages /\ picture.age # Never
  BY <1>0, Constants DEF Watches, Pictures, Ages, Never
<1>2. /\ watch' = [watch EXCEPT !.change = Later(watch.change), !.stall = Later(watch.stall)]
      /\ picture' = [picture EXCEPT !.age = Later(picture.age)] /\ request' = Later(request)
      /\ asked' = Later(asked) /\ UNCHANGED <<stream, worker>>
  BY DEF Tick
<1>3. watch' \in Watches /\ picture' \in Pictures /\ request' \in Ages /\ asked' \in Ages
  BY <1>0, <1>1, <1>2, LaterAge DEF Watches, Pictures
<1>4. thread' \in [Threads -> States] /\ \A t \in Threads : thread'[t].at = thread[t].at
  <2>1. thread' = [t \in Threads |-> [thread[t] EXCEPT !.lag =
                     IF HasRead(t) THEN thread[t].lag + 1 ELSE thread[t].lag]]
    BY DEF Tick
  <2> SUFFICES ASSUME NEW t \in Threads
               PROVE  thread'[t] \in States /\ thread'[t].at = thread[t].at
    BY <2>1
  <2>2. thread[t] \in States /\ (HasRead(t) => thread[t].lag < MaxLag)
    BY <1>0 DEF Tick
  <2> DEFINE l == IF HasRead(t) THEN thread[t].lag + 1 ELSE thread[t].lag
  <2>3. l \in 0 .. MaxLag
    BY <2>2, Constants DEF States
  <2>4. thread'[t] = [thread[t] EXCEPT !.lag = l]
    BY <2>1
  <2> QED
    BY <2>2, <2>3, <2>4 DEF States
<1>5. TypeOK'
  <2>1. watch'.delta = watch.delta
    BY <1>0, <1>2 DEF Watches
  <2> QED
    BY <1>0, <1>2, <1>3, <1>4, <2>1, Typed, TypedNext
<1>6. StartAsked'
  <2>1. asked' = Never => asked = Never
    BY <1>0, <1>2, LaterAge
  <2> QED
    BY <1>2, <1>4, <2>1, Constants DEF IInv, StartAsked, Starting
<1>7. HaltInv'
  <2>1. /\ watch'.decoded = watch.decoded /\ watch'.delta = watch.delta
        /\ watch'.change = Later(watch.change) /\ picture'.age = Later(picture.age)
        /\ picture'.packets = picture.packets /\ picture'.renewed = picture.renewed
    BY <1>0, <1>2 DEF Watches, Pictures
  <2>2. watch'.change # Never =>
          watch.change # Never /\ watch.change \in 0 .. Horizon /\ picture.age \in 0 .. Horizon
    BY <1>0, <1>1, <2>1, LaterAge, Constants DEF Ages, Never, Pictures
  <2>3. watch'.change # Never /\ picture.age >= watch.change - MaxLag =>
          picture'.age >= watch'.change - MaxLag
    BY <2>1, <2>2, LaterOrder
  <2> QED
    BY <1>2, <2>1, <2>2, <2>3 DEF HaltInv, IInv
<1>8. SpacingInv'
  BY <1>0, <1>2, LaterTogether DEF SpacingInv, IInv
<1> QED
  BY <1>5, <1>6, <1>7, <1>8 DEF IInv

(* A step of a thread that leaves what the watchdog compares alone.        *)
LEMMA QuietInv ==
  ASSUME IInv, NEW t \in Threads, Elsewhere(t), thread' \in [Threads -> States],
         stream' \in Streams, stream'.decoded = stream.decoded,
         stream'.received = stream.received, stream'.active => stream.active,
         worker' \in {Unread, WorkerPort}, UNCHANGED <<watch, request, asked, picture>>,
         Starting(t) => Starting(t)'
  PROVE  IInv'
<1>1. TypeOK'
  <2>1. /\ watch \in Watches /\ picture \in Pictures /\ watch.delta <= stream.received
        /\ request \in Ages /\ asked \in Ages
    BY Typed DEF IInv
  <2> QED
    BY <2>1, TypedNext
<1>2. StartAsked'
  BY AskedKept DEF IInv
<1>3. HaltInv'
  BY HaltKept DEF IInv
<1>4. SpacingInv'
  BY DEF SpacingInv, IInv
<1> QED
  BY <1>1, <1>2, <1>3, <1>4 DEF IInv

(* The actions that stay within QuietInv. *)
LEMMA ClockInv == ASSUME IInv, NEW t \in Threads, ReadClock(t) PROVE IInv'
<1>0. stream \in Streams /\ request \in Ages /\ thread \in [Threads -> States]
      /\ worker \in {Unread, WorkerPort}
  BY Typed DEF IInv
<1>1. PICK a \in {"limit", "lookNone", "lookStall"} :
        Goto(t, a) /\ ((At(t, "ask") /\ a = "limit") \/ At(t, "none") \/ At(t, "stall"))
  BY DEF ReadClock
<1>2. thread' \in [Threads -> States] /\ thread'[t].at = a /\ Elsewhere(t)
  BY <1>0, <1>1, GotoEffect DEF Places
<1>3. Starting(t) => Starting(t)'
  BY <1>1, <1>2 DEF Starting, At
<1> QED
  BY <1>0, <1>2, <1>3, QuietInv DEF ReadClock

LEMMA SendInv == ASSUME IInv, NEW t \in Threads, Send(t) PROVE IInv'
<1>0. stream \in Streams /\ request \in Ages /\ thread \in [Threads -> States]
  BY Typed DEF IInv
<1>1. thread[t].next \in Places
  BY <1>0 DEF States, Places
<1>2. thread' \in [Threads -> States] /\ Elsewhere(t)
  BY <1>0, <1>1, GotoEffect DEF Send
<1>3. ~Starting(t)
  BY DEF Starting, Send, At
<1> QED
  BY <1>0, <1>2, <1>3, QuietInv DEF Send

LEMMA WriterInv == ASSUME IInv, WriterAsks PROVE IInv'
<1>0. stream \in Streams /\ request \in Ages /\ thread \in [Threads -> States]
      /\ worker \in {Unread, WorkerPort}
  BY Typed DEF IInv
<1>1. thread' \in [Threads -> States] /\ Elsewhere(Writer) /\ thread'[Writer].at = "ask"
  BY <1>0, AskEffect, Constants DEF WriterAsks
<1>2. Starting(Writer)'
  BY <1>1 DEF Starting
<1> QED
  BY <1>0, <1>1, <1>2, QuietInv, Constants DEF WriterAsks

(* The limit is where a start ceases to be asked for: its time stamp is    *)
(* taken then, the time the thread has read.                               *)
LEMMA LimitInv == ASSUME IInv, NEW t \in Threads, Limit(t) PROVE IInv'
<1>0. /\ stream \in Streams /\ watch \in Watches /\ request \in Ages /\ asked \in Ages
      /\ thread \in [Threads -> States] /\ picture \in Pictures
      /\ watch.delta <= stream.received /\ worker \in {Unread, WorkerPort}
  BY Typed DEF IInv
<1>1. /\ thread[t].next \in Places /\ thread[t].lag \in Ages /\ thread[t].lag # Never
      /\ thread[t].lag \in 0 .. MaxLag
  BY <1>0, LagIsAge, Constants DEF States, Places, Never
<1>2. thread' \in [Threads -> States] /\ Elsewhere(t)
  BY <1>0, <1>1, GotoEffect DEF Limit, Places
<1>3. request' \in Ages /\ asked' \in Ages /\ request' # Never /\ SpacingInv'
  <2>1. 0 \in Ages /\ 0 # Never /\ MaxLag \in Nat
    BY Constants DEF Ages, Never
  <2>2. CASE request' = thread[t].lag /\ asked' = 0
    BY <1>1, <2>1, <2>2 DEF SpacingInv
  <2>3. CASE request # Never /\ UNCHANGED <<request, asked>>
    BY <1>0, <2>3 DEF SpacingInv, IInv
  <2> QED
    BY <2>2, <2>3 DEF Limit, LongAgo
<1>4. TypeOK'
  BY <1>0, <1>2, <1>3, TypedNext DEF Limit
<1>5. StartAsked' /\ HaltInv'
  <2>1. asked' # Never
    BY <1>3 DEF SpacingInv
  <2> QED
    BY <2>1, HaltKept DEF Limit, StartAsked, IInv
<1> QED
  BY <1>3, <1>4, <1>5 DEF IInv

LEMMA StartInv == ASSUME IInv, NEW h \in Handlers, StartStream(h) PROVE IInv'
<1>0. /\ stream \in Streams /\ watch \in Watches /\ request \in Ages /\ asked \in Ages
      /\ thread \in [Threads -> States] /\ picture \in Pictures
      /\ watch.delta <= stream.received /\ worker \in {Unread, WorkerPort} /\ h \in Threads
  BY Typed, Constants DEF IInv
<1>1. thread' \in [Threads -> States] /\ thread'[h].at = "reset"
  BY <1>0, GotoEffect DEF StartStream, Places
<1>2. stream' \in Streams /\ stream'.decoded = stream.decoded /\ stream'.received = stream.received
  BY <1>0 DEF StartStream, Streams
<1>3. TypeOK'
  BY <1>0, <1>1, <1>2, TypedNext DEF StartStream
<1>4. StartAsked'
  BY <1>1 DEF StartAsked, Starting
<1>5. HaltInv'
  BY <1>2, HaltKept DEF StartStream, IInv
<1>6. SpacingInv'
  BY DEF StartStream, SpacingInv, IInv
<1> QED
  BY <1>3, <1>4, <1>5, <1>6 DEF IInv

(* The stored count becomes 0: it is the decoder's only if there was no    *)
(* picture, and never ahead of it.                                         *)
LEMMA ResetInv == ASSUME IInv, NEW h \in Handlers, ResetWatch(h) PROVE IInv'
<1>0. /\ stream \in Streams /\ watch \in Watches /\ request \in Ages /\ asked \in Ages
      /\ thread \in [Threads -> States] /\ picture \in Pictures
      /\ worker \in {Unread, WorkerPort} /\ h \in Threads
  BY Typed, Constants DEF IInv
<1>1. thread' \in [Threads -> States] /\ thread'[h].at = "init"
  BY <1>0, GotoEffect DEF ResetWatch, Places
<1>2. stream.received \in 0 .. MinReceived /\ stream.decoded \in 0 .. MaxDecoded
  BY <1>0 DEF Streams
<1>3. watch' \in Watches /\ watch'.delta <= stream'.received /\ watch'.decoded = 0
  BY <1>2, Constants DEF ResetWatch, Watches, Ages, Never
<1>4. TypeOK'
  <2>1. request' \in Ages /\ asked' \in Ages /\ UNCHANGED <<stream, worker, picture>>
    BY Constants DEF ResetWatch, Ages, Never
  <2> QED
    BY <1>0, <1>1, <1>3, <2>1, TypedNext
<1>5. StartAsked'
  BY <1>1 DEF StartAsked, Starting
<1>6. HaltInv'
  BY <1>2, <1>3 DEF HaltInv, ResetWatch
<1>7. SpacingInv'
  BY DEF ResetWatch, SpacingInv, IInv
<1> QED
  BY <1>4, <1>5, <1>6, <1>7 DEF IInv

LEMMA DecoderInv == ASSUME IInv, NEW h \in Handlers, InitDecoder(h) PROVE IInv'
<1>0. /\ stream \in Streams /\ watch \in Watches /\ request \in Ages /\ asked \in Ages
      /\ thread \in [Threads -> States] /\ picture \in Pictures
      /\ watch.delta <= stream.received /\ worker \in {Unread, WorkerPort} /\ h \in Threads
  BY Typed, Constants DEF IInv
<1>1. thread' \in [Threads -> States] /\ thread'[h].at = "ask"
  BY <1>0, AskEffect DEF InitDecoder
<1>2. /\ stream' \in Streams /\ stream'.received = stream.received /\ picture' \in Pictures
      /\ picture'.renewed \/ UNCHANGED <<stream, picture>>
  <2>1. CASE UNCHANGED <<stream, picture>>
    BY <1>0, <2>1
  <2>2. CASE /\ stream' = [stream EXCEPT !.decoder = TRUE, !.decoded = 0]
             /\ picture' = [picture EXCEPT !.renewed = TRUE]
    <3>1. 0 \in 0 .. MaxDecoded
      BY Constants
    <3>2. stream' \in Streams /\ stream'.received = stream.received
      BY <1>0, <2>2, <3>1 DEF Streams
    <3>3. picture' \in Pictures /\ picture'.renewed
      BY <1>0, <2>2 DEF Pictures
    <3> QED
      BY <3>2, <3>3
  <2> QED
    BY <2>1, <2>2 DEF InitDecoder
<1>3. TypeOK'
  BY <1>0, <1>1, <1>2, TypedNext DEF InitDecoder
<1>4. StartAsked'
  BY <1>1 DEF StartAsked, Starting
<1>5. HaltInv'
  BY <1>2, HaltKept DEF HaltInv, InitDecoder, IInv
<1>6. SpacingInv'
  BY DEF InitDecoder, SpacingInv, IInv
<1> QED
  BY <1>3, <1>4, <1>5, <1>6 DEF IInv

LEMMA CloseInv ==
  ASSUME IInv, NEW h \in Handlers, CloseDecoder(h) \/ StopStream(h) PROVE IInv'
<1>0. /\ stream \in Streams /\ request \in Ages /\ thread \in [Threads -> States]
      /\ worker \in {Unread, WorkerPort} /\ h \in Threads
  BY Typed, Constants DEF IInv
<1>1. PICK a \in {"stop", "idle"} : Goto(h, a) /\ ~Starting(h)
  BY DEF CloseDecoder, StopStream, Starting, At
<1>2. thread' \in [Threads -> States] /\ Elsewhere(h)
  BY <1>0, <1>1, GotoEffect DEF Places
<1>3. /\ stream' \in Streams /\ stream'.decoded = stream.decoded
      /\ stream'.received = stream.received /\ (stream'.active => stream.active)
  BY <1>0 DEF CloseDecoder, StopStream, Streams
<1> QED
  BY <1>0, <1>1, <1>2, <1>3, QuietInv DEF CloseDecoder, StopStream

(* Packets, pictures and looks. *)
LEMMA PacketInv == ASSUME IInv, NEW h \in Handlers, Packet(h) PROVE IInv'
<1>0. /\ stream \in Streams /\ watch \in Watches /\ request \in Ages /\ asked \in Ages
      /\ thread \in [Threads -> States] /\ picture \in Pictures
      /\ watch.delta <= stream.received /\ worker \in {Unread, WorkerPort} /\ h \in Threads
  BY Typed, Constants DEF IInv
<1>1. thread' \in [Threads -> States] /\ Elsewhere(h)
  BY <1>0, GotoEffect DEF Packet, Places
<1>2. /\ stream.received \in 0 .. MinReceived /\ watch.delta \in 0 .. MinReceived
      /\ picture.packets \in 0 .. MinReceived
  BY <1>0 DEF Streams, Watches, Pictures
<1>3. /\ stream' = [stream EXCEPT !.received = Counted(stream.received)]
      /\ watch' = [watch EXCEPT !.delta = Counted(watch.delta)]
      /\ picture' = [picture EXCEPT !.packets = Counted(picture.packets)]
      /\ UNCHANGED <<request, asked, worker>>
  BY DEF Packet
<1>4. /\ stream' \in Streams /\ watch' \in Watches /\ picture' \in Pictures
      /\ watch'.delta <= stream'.received
      /\ picture.packets >= watch.delta => picture'.packets >= watch'.delta
  <2>1. /\ stream'.received = Counted(stream.received) /\ watch'.delta = Counted(watch.delta)
        /\ picture'.packets = Counted(picture.packets)
    BY <1>0, <1>3 DEF Streams, Watches, Pictures
  <2>2. /\ Counted(stream.received) \in 0 .. MinReceived
        /\ Counted(watch.delta) \in 0 .. MinReceived
        /\ Counted(picture.packets) \in 0 .. MinReceived
        /\ Counted(watch.delta) <= Counted(stream.received)
        /\ watch.delta <= picture.packets => Counted(watch.delta) <= Counted(picture.packets)
    BY <1>0, <1>2, CountedUp
  <2>3. stream' \in Streams /\ watch' \in Watches /\ picture' \in Pictures
    BY <1>0, <1>3, <2>2 DEF Streams, Watches, Pictures
  <2>4. picture.packets >= watch.delta <=> watch.delta <= picture.packets
    BY <1>2
  <2>5. picture'.packets >= watch'.delta <=> watch'.delta <= picture'.packets
    BY <2>3 DEF Watches, Pictures
  <2> QED
    BY <2>1, <2>2, <2>3, <2>4, <2>5
<1>5. TypeOK'
  BY <1>0, <1>1, <1>3, <1>4, TypedNext
<1>6. StartAsked'
  <2>1. ~Starting(h) /\ stream'.active = stream.active
    BY <1>0, <1>3 DEF Packet, At, Starting, Streams
  <2> QED
    BY <1>0, <1>1, <1>3, <2>1, AskedKept DEF IInv
<1>7. HaltInv'
  <2>1. /\ stream'.decoded = stream.decoded /\ watch'.decoded = watch.decoded
        /\ watch'.change = watch.change /\ picture'.age = picture.age
        /\ picture'.renewed = picture.renewed
    BY <1>0, <1>3 DEF Streams, Watches, Pictures
  <2> QED
    BY <1>4, <2>1 DEF HaltInv, IInv
<1>8. SpacingInv'
  BY DEF Packet, SpacingInv, IInv
<1> QED
  BY <1>5, <1>6, <1>7, <1>8 DEF IInv

(* A new picture makes the decoder's count greater than the stored one. *)
LEMMA DecodeInv == ASSUME IInv, NEW h \in Handlers, Decode(h) PROVE IInv'
<1>0. /\ stream \in Streams /\ watch \in Watches /\ request \in Ages /\ asked \in Ages
      /\ thread \in [Threads -> States] /\ picture \in Pictures
      /\ watch.delta <= stream.received /\ worker \in {Unread, WorkerPort} /\ h \in Threads
  BY Typed, Constants DEF IInv
<1>1. thread' \in [Threads -> States] /\ Elsewhere(h)
  BY <1>0, GotoEffect DEF Decode, Places
<1>2. ~Starting(h) /\ UNCHANGED <<watch, request, asked, worker>>
  BY DEF Decode, At, Starting
<1>3. /\ stream' \in Streams /\ stream'.received = stream.received
      /\ stream'.active = stream.active /\ picture' \in Pictures
      /\ picture'.renewed = picture.renewed
      /\ stream'.decoded = stream.decoded + 1 \/ UNCHANGED <<stream, picture>>
  <2>1. CASE UNCHANGED <<stream, picture>>
    BY <1>0, <2>1
  <2>2. CASE /\ stream.decoded < MaxDecoded
             /\ stream' = [stream EXCEPT !.decoded = stream.decoded + 1]
             /\ picture' = [picture EXCEPT !.age = 0, !.packets = 0]
    <3>1. stream.decoded + 1 \in 0 .. MaxDecoded
      BY <1>0, <2>2, Constants DEF Streams
    <3>2. 0 \in 0 .. Horizon /\ 0 \in 0 .. MinReceived
      BY Constants
    <3>3. /\ stream' \in Streams /\ stream'.received = stream.received
          /\ stream'.active = stream.active /\ stream'.decoded = stream.decoded + 1
      BY <1>0, <2>2, <3>1 DEF Streams
    <3>4. picture' \in Pictures /\ picture'.renewed = picture.renewed
      BY <1>0, <2>2, <3>2 DEF Pictures
    <3> QED
      BY <3>3, <3>4
  <2> QED
    BY <2>1, <2>2 DEF Decode
<1>4. TypeOK'
  BY <1>0, <1>1, <1>2, <1>3, TypedNext
<1>5. StartAsked'
  BY <1>0, <1>1, <1>2, <1>3, AskedKept DEF IInv
<1>6. HaltInv'
  <2>1. CASE UNCHANGED <<stream, picture>>
    BY <1>2, <2>1, HaltKept DEF IInv
  <2>2. CASE stream'.decoded = stream.decoded + 1
    <3>1. watch.decoded \in Nat /\ stream.decoded \in Nat
      BY <1>0, Constants DEF Watches, Streams
    <3> QED
      BY <1>2, <1>3, <2>2, <3>1 DEF HaltInv, IInv
  <2> QED
    BY <1>3, <2>1, <2>2
<1>7. SpacingInv'
  BY DEF Decode, SpacingInv, IInv
<1> QED
  BY <1>4, <1>5, <1>6, <1>7 DEF IInv

LEMMA LookNoneInv == ASSUME IInv, NEW h \in Handlers, LookNone(h) PROVE IInv'
<1>0. /\ stream \in Streams /\ request \in Ages /\ thread \in [Threads -> States]
      /\ worker \in {Unread, WorkerPort} /\ h \in Threads
  BY Typed, Constants DEF IInv
<1>1. ~Starting(h) /\ UNCHANGED <<stream, watch, request, asked, worker, picture>>
  BY DEF LookNone, At, Starting
<1>2. Ask(h, "stall") \/ Goto(h, "stall")
  BY DEF LookNone
<1>3. thread' \in [Threads -> States] /\ Elsewhere(h)
  BY <1>0, <1>2, GotoEffect, AskEffect DEF Places
<1> QED
  BY <1>0, <1>1, <1>3, QuietInv

(* The looks that store the count and the time: the time may be that of a  *)
(* clock read before the last picture, by the lag of the thread.           *)
LEMMA LookInv ==
  ASSUME IInv, NEW h \in Handlers, LookIdle(h) \/ LookProgress(h) PROVE IInv'
<1>0. /\ stream \in Streams /\ watch \in Watches /\ request \in Ages /\ asked \in Ages
      /\ thread \in [Threads -> States] /\ picture \in Pictures
      /\ worker \in {Unread, WorkerPort} /\ h \in Threads
  BY Typed, Constants DEF IInv
<1>1. thread' \in [Threads -> States] /\ Elsewhere(h)
  BY <1>0, GotoEffect DEF LookIdle, LookProgress, Places
<1>2. ~Starting(h) /\ UNCHANGED <<stream, request, asked, worker>>
  BY DEF LookIdle, LookProgress, At, Starting
<1>3. thread[h].lag \in 0 .. MaxLag /\ thread[h].lag \in Ages
  BY <1>0, LagIsAge DEF States
<1>4. /\ watch' \in Watches /\ picture' \in Pictures
      /\ watch'.delta = 0 /\ watch'.decoded = stream.decoded /\ watch'.change = thread[h].lag
  <2>1. picture' = [picture EXCEPT !.renewed = FALSE]
    BY DEF LookIdle, LookProgress
  <2>2. stream.decoded \in 0 .. MaxDecoded /\ 0 \in 0 .. MinReceived
    BY <1>0, Constants DEF Streams
  <2>3. /\ watch' \in Watches
        /\ watch'.delta = 0 /\ watch'.decoded = stream.decoded /\ watch'.change = thread[h].lag
    <3>1. CASE LookIdle(h)
      <4>1. watch' = [watch EXCEPT !.delta = 0, !.decoded = stream.decoded,
                                   !.change = thread[h].lag]
        BY <3>1 DEF LookIdle
      <4> QED
        BY <1>0, <1>3, <2>2, <4>1 DEF Watches
    <3>2. CASE LookProgress(h)
      <4>1. watch' = [watch EXCEPT !.delta = 0, !.decoded = stream.decoded,
                                   !.change = thread[h].lag, !.count = 0]
        BY <3>2 DEF LookProgress
      <4>2. watch' = [delta |-> 0, decoded |-> stream.decoded, change |-> thread[h].lag,
                      stall |-> watch.stall, count |-> 0]
        BY <1>0, <4>1 DEF Watches
      <4>3. watch.stall \in Ages /\ 0 \in 0 .. 2
        BY <1>0 DEF Watches
      <4> QED
        BY <1>3, <2>2, <4>2, <4>3 DEF Watches
    <3> QED
      BY <3>1, <3>2
  <2>4. picture' \in Pictures
    BY <1>0, <2>1 DEF Pictures
  <2> QED
    BY <2>3, <2>4
<1>5. TypeOK'
  <2>1. stream.received \in Nat
    BY <1>0, Constants DEF Streams
  <2> QED
    BY <1>0, <1>1, <1>2, <1>4, <2>1, TypedNext
<1>6. StartAsked'
  BY <1>1, <1>2, <1>0, AskedKept DEF IInv
<1>7. HaltInv'
  <2>1. /\ picture'.age \in Nat /\ picture'.packets \in Nat
        /\ stream'.decoded = stream.decoded /\ stream.decoded \in Nat
    BY <1>0, <1>2, <1>4, Constants DEF Pictures, Streams
  <2> QED
    BY <1>3, <1>4, <2>1, Constants DEF HaltInv
<1>8. SpacingInv'
  BY DEF LookIdle, LookProgress, SpacingInv, IInv
<1> QED
  BY <1>5, <1>6, <1>7, <1>8 DEF IInv

LEMMA LookHaltInv == ASSUME IInv, NEW h \in Handlers, LookHalt(h) PROVE IInv'
<1>0. /\ stream \in Streams /\ watch \in Watches /\ request \in Ages /\ asked \in Ages
      /\ thread \in [Threads -> States] /\ picture \in Pictures
      /\ watch.delta <= stream.received /\ worker \in {Unread, WorkerPort} /\ h \in Threads
  BY Typed, Constants DEF IInv
<1>1. ~Starting(h) /\ UNCHANGED <<stream, request, asked, worker, picture>>
  BY DEF LookHalt, At, Starting
<1>2. Ask(h, "idle") \/ Goto(h, "idle")
  BY DEF LookHalt
<1>3. thread' \in [Threads -> States] /\ Elsewhere(h)
  BY <1>0, <1>2, GotoEffect, AskEffect DEF Places
<1>4. /\ watch' \in Watches /\ watch'.delta = watch.delta
      /\ watch'.decoded = watch.decoded /\ watch'.change = watch.change
  <2>1. thread[h].lag \in Ages /\ watch.count \in 0 .. 2
    BY <1>0, LagIsAge DEF States, Watches
  <2>2. Least(watch.count + 1, 2) \in 0 .. 2
    BY <2>1 DEF Least
  <2>3. \/ watch' = [watch EXCEPT !.stall = thread[h].lag, !.count = Least(watch.count + 1, 2)]
        \/ watch' = watch
    BY DEF LookHalt
  <2> QED
    BY <1>0, <2>1, <2>2, <2>3 DEF Watches
<1>5. TypeOK'
  BY <1>0, <1>1, <1>3, <1>4, TypedNext
<1>6. StartAsked'
  BY <1>1, <1>3, <1>0, AskedKept DEF IInv
<1>7. HaltInv'
  BY <1>1, <1>4, HaltKept DEF IInv
<1>8. SpacingInv'
  BY DEF LookHalt, SpacingInv, IInv
<1> QED
  BY <1>5, <1>6, <1>7, <1>8 DEF IInv

LEMMA NextInv == IInv /\ [Next]_vars => IInv'
<1> SUFFICES ASSUME IInv, [Next]_vars PROVE IInv'
  OBVIOUS
<1>1. CASE Tick
  BY <1>1, TickInv
<1>2. CASE WriterAsks
  BY <1>2, WriterInv
<1>3. ASSUME NEW t \in Threads, Step(t) PROVE IInv'
  BY <1>3, ClockInv, LimitInv, SendInv DEF Step
<1>4. ASSUME NEW h \in Handlers, StartStream(h) \/ CloseDecoder(h) \/ Packet(h) \/ Work(h)
      PROVE  IInv'
  BY <1>4, StartInv, ResetInv, DecoderInv, CloseInv, PacketInv, DecodeInv, LookNoneInv, LookInv,
     LookHaltInv DEF Work
<1>5. CASE UNCHANGED vars
  BY <1>5 DEF vars, IInv, TypeOK, StartAsked, Starting, HaltInv, SpacingInv
<1> QED
  BY <1>1, <1>2, <1>3, <1>4, <1>5 DEF Next

-----------------------------------------------------------------------------
(* The theorems.                                                           *)

LEMMA Always == Spec => []IInv
  BY InitInv, NextInv, PTL DEF Spec

(* The types, and the unsigned difference of packet counts never wraps:    *)
(* maybe_request_idr_for_decode_stall.                                     *)
THEOREM WatchdogTyped == Spec => []TypeOK
<1>1. IInv => TypeOK
  BY DEF IInv
<1> QED
  BY <1>1, Always, PTL

(* A session begins with a request of its own, whichever handlers start    *)
(* and stop sessions at once: handle_packet, request_idr_for_stream.       *)
THEOREM StartsAreAsked == Spec => []StartAsked
<1>1. IInv => StartAsked
  BY DEF IInv
<1> QED
  BY <1>1, Always, PTL

(* Which step takes a thread where. *)
LEMMA Movers ==
  ASSUME IInv, NEW t \in Threads, NEW u \in Threads, thread'[t].at # thread[t].at
  PROVE  /\ Elsewhere(u) => u = t
         /\ \A a \in Places : Goto(u, a) => u = t /\ thread'[t].at = a
         /\ \A on \in {"idle", "stall"} : Ask(u, on) => u = t /\ thread'[t].at = "ask"
<1>0. thread \in [Threads -> States]
  BY Typed DEF IInv
<1>1. Elsewhere(u) => u = t
  BY DEF Elsewhere
<1>2. ASSUME NEW a \in Places, Goto(u, a) PROVE u = t /\ thread'[t].at = a
  BY <1>0, <1>1, <1>2, GotoEffect
<1>3. ASSUME NEW on \in {"idle", "stall"}, Ask(u, on) PROVE u = t /\ thread'[t].at = "ask"
  BY <1>0, <1>1, <1>3, AskEffect
<1> QED
  BY <1>1, <1>2, <1>3

LEMMA StandStill ==
  ASSUME IInv, NEW t \in Threads, Tick \/ UNCHANGED vars
  PROVE  thread'[t].at = thread[t].at
<1>0. thread \in [Threads -> States]
  BY Typed DEF IInv
<1> QED
  BY <1>0 DEF Tick, vars, States

(* Whatever lets a thread pass the limit is the limit's own step. *)
LEMMA GrantedByLimit ==
  ASSUME IInv, [Next]_vars, NEW t \in Threads, Granted(t)
  PROVE  Limit(t)
<1>0. /\ thread \in [Threads -> States] /\ Handlers \subseteq Threads /\ Writer \in Threads
      /\ At(t, "limit") /\ thread'[t].at = "send" /\ thread'[t].at # thread[t].at
  BY Typed, Constants DEF IInv, Granted, At
<1>1. ~Tick /\ ~UNCHANGED vars /\ ~WriterAsks
  BY <1>0, StandStill, Movers DEF WriterAsks
<1>2. ASSUME NEW h \in Handlers, StartStream(h) \/ CloseDecoder(h) \/ Packet(h) \/ Work(h)
      PROVE  FALSE
  <2>1. \/ \E a \in {"reset", "stop", "decode", "init", "idle", "none", "stall"} : Goto(h, a)
        \/ Ask(h, "idle") \/ Ask(h, "stall")
    BY <1>2 DEF StartStream, CloseDecoder, Packet, Work, ResetWatch, InitDecoder, StopStream,
       Decode, LookNone, LookIdle, LookProgress, LookHalt
  <2> QED
    BY <1>0, <2>1, Movers DEF Places
<1>3. ASSUME NEW u \in Threads, ReadClock(u) \/ Send(u) PROVE FALSE
  <2>1. CASE ReadClock(u)
    BY <1>0, <2>1, Movers DEF ReadClock, Places
  <2>2. CASE Send(u)
    <3>1. Goto(u, thread[u].next) /\ thread[u].next \in {"idle", "stall"}
      BY <1>0, <2>2 DEF Send, States
    <3> QED
      BY <1>0, <3>1, Movers DEF Places
  <2> QED
    BY <1>3, <2>1, <2>2
<1>4. ASSUME NEW u \in Threads, Limit(u) PROVE u = t
  <2>1. \E a \in Places : Goto(u, a)
    BY <1>0, <1>4 DEF Limit, States, Places
  <2> QED
    BY <1>0, <2>1, Movers
<1> QED
  BY <1>1, <1>2, <1>3, <1>4 DEF Next, Step

(* The stall watchdog asks where decoding has halted, and nowhere else. *)
LEMMA AskedByHalt ==
  ASSUME IInv, [Next]_vars, NEW h \in Handlers, At(h, "lookStall"), thread'[h].at = "ask"
  PROVE  LookHalt(h) /\ Halted(h)
<1>0. /\ thread \in [Threads -> States] /\ Handlers \subseteq Threads /\ Writer \in Threads
      /\ h \in Threads /\ thread'[h].at # thread[h].at /\ Writer \notin Handlers
  BY Typed, Constants, WatchdogAssumption DEF IInv, At, WatchdogAssumption
<1>1. ~Tick /\ ~UNCHANGED vars /\ ~WriterAsks
  BY <1>0, StandStill, Movers DEF WriterAsks
<1>2. ASSUME NEW t \in Threads, Step(t) PROVE FALSE
  <2>1. thread[t].next \in {"idle", "stall"}
    BY <1>0 DEF States
  <2>2. \E a \in Places \ {"ask"} : Goto(t, a)
    BY <1>2, <2>1 DEF Step, ReadClock, Limit, Send, Places
  <2> QED
    BY <1>0, <2>2, Movers
<1>3. ASSUME NEW g \in Handlers, StartStream(g) \/ CloseDecoder(g) \/ Packet(g) \/ Work(g)
      PROVE  LookHalt(h) /\ Halted(h)
  <2>1. \/ LookHalt(g) /\ Halted(g)
        \/ \E a \in Places \ {"ask"} : Goto(g, a)
        \/ ~At(g, "lookStall") /\ (Ask(g, "idle") \/ Ask(g, "stall"))
    BY <1>3 DEF StartStream, CloseDecoder, Packet, Work, ResetWatch, InitDecoder, StopStream,
       Decode, LookNone, LookIdle, LookProgress, LookHalt, At, Places
  <2>2. CASE LookHalt(g) /\ Halted(g)
    BY <1>0, <2>2, Movers DEF LookHalt
  <2> QED
    BY <1>0, <2>1, <2>2, Movers
<1> QED
  BY <1>1, <1>2, <1>3 DEF Next

(* Between two requests of a session there really passes the interval,     *)
(* less the lag of a thread, over all threads: request_idr_for_stream.     *)
THEOREM RequestsAreSpaced == Spec => RequestsSpaced
<1>1. ASSUME IInv, [Next]_vars, NEW t \in Threads, Granted(t)
      PROVE  \/ asked = Never \/ asked >= RequestInterval - MaxLag
             \/ asked < thread[t].lag
  <2>0. request \in Ages /\ asked \in Ages /\ thread[t] \in States
    BY <1>1, Typed DEF IInv
  <2>1. Limit(t)
    BY <1>1, GrantedByLimit
  <2>2. LongAgo(t, request, RequestInterval)
    <3>1. thread[t].next # "send"
      BY <2>0 DEF States
    <3>2. thread' = [thread EXCEPT ![t].at = thread[t].next, ![t].lag = 0] =>
            thread'[t].at = thread[t].next
      BY <1>1, Typed DEF IInv, States
    <3> QED
      BY <1>1, <2>1, <3>1, <3>2 DEF Limit, Goto, Granted
  <2>3. asked # Never =>
          /\ request # Never /\ request \in Nat /\ asked \in Nat /\ thread[t].lag \in Nat
          /\ asked <= request /\ request <= asked + MaxLag
    BY <1>1, <2>0, Constants DEF SpacingInv, IInv, Ages, Never, States
  <2>4. asked # Never => request < thread[t].lag \/ request - thread[t].lag >= RequestInterval
    BY <2>2, <2>3 DEF LongAgo
  <2> QED
    BY <2>3, <2>4, Constants
<1>2. IInv /\ [Next]_vars =>
        [\A t \in Threads :
           Granted(t) => \/ asked = Never \/ asked >= RequestInterval - MaxLag
                         \/ asked < thread[t].lag]_vars
  BY <1>1
<1> QED
  BY <1>2, Always, PTL DEF Spec, RequestsSpaced

(* A halt that is reported was one, for any number of handlers:            *)
(* maybe_request_idr_for_decode_stall.                                     *)
THEOREM StallsAreReal == Spec => StallIsReal
<1>1. ASSUME IInv, [Next]_vars, NEW h \in Handlers, At(h, "lookStall"), thread'[h].at = "ask"
      PROVE  \/ picture.age >= StallIdle - MaxLag /\ picture.packets = MinReceived
             \/ picture.renewed \/ watch.change < thread[h].lag
  <2>0. /\ stream \in Streams /\ watch \in Watches /\ thread \in [Threads -> States]
        /\ picture \in Pictures /\ h \in Threads
    BY <1>1, Typed, Constants DEF IInv
  <2>1. LookHalt(h) /\ Halted(h)
    BY <1>1, <2>0, AskedByHalt
  <2>2. /\ stream.decoded # 0 /\ watch.change # Never /\ stream.decoded = watch.decoded
        /\ watch.delta = MinReceived /\ LongAgo(h, watch.change, StallIdle)
    BY <2>1 DEF LookHalt, Watching, Halted
  <2>3. ~picture.renewed => picture.age >= watch.change - MaxLag
                            /\ picture.packets >= MinReceived
    BY <1>1, <2>2 DEF IInv, HaltInv
  <2>4. /\ watch.change \in Nat /\ thread[h].lag \in Nat /\ picture.age \in Nat
        /\ picture.packets \in 0 .. MinReceived
    BY <2>0, <2>2, Constants DEF Watches, Ages, Never, States, Pictures
  <2>5. watch.change < thread[h].lag \/ watch.change >= StallIdle
    BY <2>2, <2>4, Constants DEF LongAgo
  <2> QED
    BY <2>3, <2>4, <2>5, Constants
<1>2. IInv /\ [Next]_vars =>
        [\A h \in Handlers :
           At(h, "lookStall") /\ thread'[h].at = "ask" =>
             \/ picture.age >= StallIdle - MaxLag /\ picture.packets = MinReceived
             \/ picture.renewed \/ watch.change < thread[h].lag]_vars
  BY <1>1
<1> QED
  BY <1>2, Always, PTL DEF Spec, StallIsReal
-----------------------------------------------------------------------------
(* The tap.                                                                *)
(*                                                                         *)
(* What the properties need: that one handler at a time starts the tap     *)
(* (h264_tap_start clears the table of slots, whoever is in it), and, of   *)
(* the pictures, that an IDR comes in one packet with its parameter sets.  *)

(* No two handlers are between the test of g_h264_tap_started and its      *)
(* assignment at the same time.                                            *)
InStart   == {"clear", "listen", "run", "tell"}
OneStarter ==
  \A h, k \in Publishers : handler[h] \in InStart /\ handler[k] \in InStart => h = k

(* A packet with an IDR begins with the SPS. *)
IdrsWithSets == \A p \in Payloads : p.idr => p.first = "sps"

(* The start of the tap: its thread runs from then on, and as long as it   *)
(* did not, there was no slot in use.                                      *)
TapStartInv ==
  /\ \A h \in Publishers : handler[h] \in {"clear", "listen", "run"} => acceptor.at = "none"
  /\ main # "run" => \A h \in Publishers : handler[h] = "idle"
  /\ acceptor.at = "none" => \A i \in Slots : ~slot[i].active
  /\ acceptor.at # "none" =>
       started \/ main # "run" \/ \E h \in Publishers : handler[h] = "tell"

(* A descriptor is open as long as it is in one slot or in the accept      *)
(* thread's hand, which has none that is in a slot.                        *)
InSlot(c) == \E i \in Slots : slot[i].active /\ slot[i].conn = c
Descriptors ==
  \A c \in Subscribers :
    /\ \A i, j \in Slots :
         slot[i].active /\ slot[i].conn = c /\ slot[j].active /\ slot[j].conn = c => i = j
    /\ fd[c] = "open" <=> InSlot(c) \/ acceptor.conn = c
    /\ acceptor.conn = c => ~InSlot(c)

TapInv == TapTypeOK /\ TapStartInv /\ Descriptors

(* What a subscriber was sent and what still waits in its slot are one     *)
(* sequence: flushing moves the border between them.                       *)

(* Whole units, one after the other. *)
Whole(q) ==
  /\ \A k \in 1 .. Len(q) - 1 : Continued(q, k) \/ (q[k + 1].part = 1 /\ q[k].part = q[k].of)
  /\ q # <<>> => q[1].part = 1 /\ q[Len(q)].part = q[Len(q)].of

(* Its last unit is whole, and pictures came behind every torn one: what   *)
(* comes next need not be an IDR.                                          *)
Settled(x) ==
  /\ x # <<>> => x[Len(x)].part = x[Len(x)].of
  /\ \A k \in 1 .. Len(x) - 1 :
       Continued(x, k) \/ x[k].part = x[k].of \/ \E m \in k + 1 .. Len(x) : x[m].pic

(* Of units up to number n. *)
UpTo(x, n) == \A k \in DOMAIN x : x[k].unit <= n

(* Fit to be sent, when the buffer does or does not wait for an IDR.       *)
Fit(x, waits, n) ==
  /\ UpTo(x, n)
  /\ DropToIdr => Joined(x) /\ (~waits => Settled(x))
  /\ IdrsWithSets => Ordered(x)

(* Parameter sets as a slot keeps them. *)
Sets(q, n) == Whole(q) /\ UpTo(q, n) /\ \A k \in DOMAIN q : q[k].pic => q[k].idr

(* Slot s, whose connection was sent g. *)
Sound(s, g, n) ==
  /\ Fit(g \o s.out, s.needIdr, n)
  /\ Sets(s.sps, n) /\ Sets(s.pps, n)
  /\ IdrsWithSets => \A k \in DOMAIN s.pps : ~s.pps[k].pic
  /\ ~s.active => g = <<>> /\ s = [FreeSlot EXCEPT !.out = s.out]

SentTo(s)  == IF s.active THEN got[s.conn] ELSE <<>>
ContentInv == \A i \in Slots : Sound(slot[i], SentTo(slot[i]), units)
SentInv    == \A c \in Subscribers : Fit(got[c], TRUE, units)
FreshInv   == \A c \in Subscribers : fd[c] = "none" \/ acceptor.conn = c => got[c] = <<>>

SentWell == ContentInv /\ SentInv /\ FreshInv

-----------------------------------------------------------------------------
(* Sequences of chunks, one behind the other.                              *)

(* What is where. *)
LEMMA Cat ==
  ASSUME NEW a \in Seq(Chunks), NEW b \in Seq(Chunks)
  PROVE  /\ a \o b \in Seq(Chunks) /\ Len(a \o b) = Len(a) + Len(b)
         /\ Len(a) \in Nat /\ Len(b) \in Nat
         /\ \A k \in 1 .. Len(a) : (a \o b)[k] = a[k]
         /\ \A k \in 1 .. Len(b) : (a \o b)[Len(a) + k] = b[k]
         /\ \A k \in Len(a) + 1 .. Len(a) + Len(b) : (a \o b)[k] = b[k - Len(a)]
  OBVIOUS

Among(c, a, b) ==
  \A k \in DOMAIN c : (\E i \in DOMAIN a : c[k] = a[i]) \/ (\E i \in DOMAIN b : c[k] = b[i])

LEMMA CatMember ==
  ASSUME NEW a \in Seq(Chunks), NEW b \in Seq(Chunks), NEW c, c = a \o b
  PROVE  Among(c, a, b)
<1>0. DOMAIN c = 1 .. Len(a) + Len(b) /\ DOMAIN a = 1 .. Len(a) /\ DOMAIN b = 1 .. Len(b)
  BY Cat
<1> SUFFICES ASSUME NEW k \in 1 .. Len(a) + Len(b)
             PROVE  (\E i \in DOMAIN a : c[k] = a[i]) \/ (\E i \in DOMAIN b : c[k] = b[i])
  BY <1>0 DEF Among
<1>1. CASE k <= Len(a)
  <2>1. k \in DOMAIN a /\ c[k] = a[k]
    BY <1>0, <1>1, Cat
  <2> QED BY <2>1
<1>2. CASE k > Len(a)
  <2>1. k - Len(a) \in DOMAIN b /\ c[k] = b[k - Len(a)]
    BY <1>0, <1>2, Cat
  <2> QED BY <2>1
<1> QED BY <1>1, <1>2, Cat

LEMMA Assoc ==
  ASSUME NEW a \in Seq(Chunks), NEW b \in Seq(Chunks), NEW c \in Seq(Chunks)
  PROVE  a \o (b \o c) = (a \o b) \o c
<1>1. PICK x \in Seq(Chunks), y \in Seq(Chunks) : x = a \o b /\ y = b \o c
  BY Cat
<1>2. /\ Len(x) = Len(a) + Len(b) /\ Len(y) = Len(b) + Len(c)
      /\ Len(a) \in Nat /\ Len(b) \in Nat /\ Len(c) \in Nat
  BY <1>1, Cat
<1>3. /\ a \o y \in Seq(Chunks) /\ x \o c \in Seq(Chunks)
      /\ Len(a \o y) = Len(a) + (Len(b) + Len(c)) /\ Len(x \o c) = Len(a) + (Len(b) + Len(c))
  BY <1>1, <1>2, Cat
<1>4. ASSUME NEW i \in 1 .. Len(a) + (Len(b) + Len(c)) PROVE (a \o y)[i] = (x \o c)[i]
  <2>1. CASE i <= Len(a)
    <3>1. i \in 1 .. Len(a) /\ i \in 1 .. Len(x)
      BY <1>2, <1>4, <2>1
    <3>2. (a \o y)[i] = a[i] /\ (x \o c)[i] = x[i] /\ x[i] = a[i]
      BY <1>1, <3>1, Cat
    <3> QED BY <3>2
  <2>2. CASE i > Len(a) /\ i <= Len(a) + Len(b)
    <3>1. PICK j \in 1 .. Len(b) : i = Len(a) + j
      <4>1. i - Len(a) \in 1 .. Len(b) /\ i = Len(a) + (i - Len(a))
        BY <1>2, <1>4, <2>2
      <4> QED BY <4>1
    <3>2. i \in 1 .. Len(x) /\ j \in 1 .. Len(y)
      BY <1>2, <3>1
    <3>3. (a \o y)[Len(a) + j] = y[j] /\ y[j] = b[j]
      BY <1>1, <3>1, <3>2, Cat
    <3>4. (x \o c)[i] = x[i] /\ x[Len(a) + j] = b[j]
      BY <1>1, <3>1, <3>2, Cat
    <3> QED BY <3>1, <3>3, <3>4
  <2>3. CASE i > Len(a) + Len(b)
    <3>1. PICK j \in 1 .. Len(c) : i = Len(x) + j
      <4>1. i - Len(x) \in 1 .. Len(c) /\ i = Len(x) + (i - Len(x))
        BY <1>2, <1>4, <2>3
      <4> QED BY <4>1
    <3>2. Len(b) + j \in 1 .. Len(y) /\ i = Len(a) + (Len(b) + j)
      BY <1>2, <3>1
    <3>3. (a \o y)[Len(a) + (Len(b) + j)] = y[Len(b) + j] /\ y[Len(b) + j] = c[j]
      BY <1>1, <3>1, <3>2, Cat
    <3>4. (x \o c)[Len(x) + j] = c[j]
      BY <1>1, <3>1, Cat
    <3> QED BY <3>1, <3>2, <3>3, <3>4
  <2>4. i <= Len(a) \/ (i > Len(a) /\ i <= Len(a) + Len(b)) \/ i > Len(a) + Len(b)
    BY <1>2, <1>4
  <2> QED BY <2>1, <2>2, <2>3, <2>4
<1>5. a \o y = x \o c
  <2> DEFINE v == a \o y
             w == x \o c
  <2> HIDE DEF v, w
  <2>1. v \in Seq(Chunks) /\ w \in Seq(Chunks) /\ Len(v) = Len(w) /\ \A i \in 1 .. Len(v) : v[i] = w[i]
    BY <1>3, <1>4 DEF v, w
  <2>2. v = w
    BY <2>1, SeqEqual
  <2> QED BY <2>2 DEF v, w
<1> QED BY <1>1, <1>5

(* Two neighbours are in a, at the border, or in b. *)
LEMMA Border ==
  ASSUME NEW a \in Seq(Chunks), NEW b \in Seq(Chunks), NEW k \in 1 .. Len(a \o b) - 1, k = Len(a)
  PROVE  (a \o b)[k] = a[Len(a)] /\ (a \o b)[k + 1] = b[1] /\ a # <<>> /\ b # <<>>
<1>1. k \in 1 .. Len(a) /\ 1 \in 1 .. Len(b)
  BY Cat
<1>2. (a \o b)[k] = a[k] /\ (a \o b)[k + 1] = b[1]
  BY <1>1, Cat
<1>3. a # <<>> /\ b # <<>>
  BY <1>1
<1> QED BY <1>2, <1>3

LEMMA Behind ==
  ASSUME NEW a \in Seq(Chunks), NEW b \in Seq(Chunks), NEW k \in 1 .. Len(a \o b) - 1, k > Len(a)
  PROVE  \E j \in 1 .. Len(b) - 1 : (a \o b)[k] = b[j] /\ (a \o b)[k + 1] = b[j + 1]
<1>0. /\ k \in Int /\ Len(a) \in Nat /\ Len(b) \in Nat
      /\ k > Len(a) /\ k <= Len(a) + Len(b) - 1
  <2>1. Len(a \o b) = Len(a) + Len(b) /\ Len(a) \in Nat /\ Len(b) \in Nat
    BY Cat
  <2> QED BY <2>1
<1>1. PICK j \in Int : j = k - Len(a)
  <2>1. k - Len(a) \in Int
    BY <1>0
  <2> QED BY <2>1, Zenon
<1>2. j \in 1 .. Len(b) - 1 /\ j + 1 \in 1 .. Len(b) /\ k = Len(a) + j /\ k + 1 = Len(a) + (j + 1)
  BY <1>0, <1>1
<1>3. (a \o b)[k] = b[j] /\ (a \o b)[k + 1] = b[j + 1]
  <2>1. \A i \in 1 .. Len(b) : (a \o b)[Len(a) + i] = b[i]
    BY Cat
  <2>2. j \in 1 .. Len(b)
    BY <1>2
  <2> QED BY <1>2, <2>1, <2>2
<1> QED BY <1>2, <1>3

(* A chunk. *)
LEMMA ChunkIs ==
  ASSUME NEW a \in Seq(Chunks), NEW k \in 1 .. Len(a)
  PROVE  a[k] \in Chunks /\ a[k].unit \in Nat /\ a[k].part \in Nat /\ a[k].of \in Nat
<1>1. a[k] \in Chunks
  OBVIOUS
<1> QED BY <1>1 DEF Chunks

(* Nothing is a sequence of whole units. *)
LEMMA EmptyIs ==
  ASSUME NEW n \in Nat, NEW waits
  PROVE  /\ Whole(<<>>) /\ Fit(<<>>, waits, n) /\ Sets(<<>>, n)
         /\ <<>> \in Seq(Chunks)
<1>1. Len(<<>>) = 0 /\ 1 .. 0 = {} /\ 1 .. 0 - 1 = {} /\ DOMAIN <<>> = {} /\ <<>> \in Seq(Chunks)
  OBVIOUS
<1>2. Whole(<<>>) /\ UpTo(<<>>, n) /\ Joined(<<>>) /\ Settled(<<>>) /\ Ordered(<<>>)
  BY <1>1 DEF Whole, UpTo, Joined, Settled, Ordered
<1> QED BY <1>1, <1>2 DEF Fit, Sets

(* Whole units behind whole units. *)
LEMMA CatWhole ==
  ASSUME NEW a \in Seq(Chunks), NEW b \in Seq(Chunks), Whole(a), Whole(b)
  PROVE  Whole(a \o b)
<1> DEFINE x == a \o b
<1> HIDE DEF x
<1>1. /\ x \in Seq(Chunks) /\ Len(x) = Len(a) + Len(b) /\ Len(a) \in Nat /\ Len(b) \in Nat
      /\ \A k \in 1 .. Len(a) : x[k] = a[k]
      /\ \A k \in Len(a) + 1 .. Len(x) : x[k] = b[k - Len(a)]
  BY Cat DEF x
<1>2. ASSUME NEW k \in 1 .. Len(x) - 1
      PROVE  Continued(x, k) \/ (x[k + 1].part = 1 /\ x[k].part = x[k].of)
  <2>1. CASE k < Len(a)
    <3>0. k \in 1 .. Len(a) - 1 /\ k \in 1 .. Len(a) /\ k + 1 \in 1 .. Len(a)
      BY <1>1, <1>2, <2>1
    <3>1. k \in 1 .. Len(a) - 1 /\ x[k] = a[k] /\ x[k + 1] = a[k + 1]
      BY <1>1, <3>0
    <3> QED BY <3>1 DEF Whole, Continued
  <2>2. CASE k = Len(a)
    <3>1. x[k] = a[Len(a)] /\ x[k + 1] = b[1] /\ a # <<>> /\ b # <<>>
      BY <1>1, <1>2, <2>2, Border DEF x
    <3> QED BY <3>1 DEF Whole
  <2>3. CASE k > Len(a)
    <3>1. PICK j \in 1 .. Len(b) - 1 : x[k] = b[j] /\ x[k + 1] = b[j + 1]
      BY <1>1, <1>2, <2>3, Behind DEF x
    <3> QED BY <3>1 DEF Whole, Continued
  <2> QED BY <1>1, <1>2, <2>1, <2>2, <2>3
<1>3. x # <<>> => x[1].part = 1 /\ x[Len(x)].part = x[Len(x)].of
  <2>1. CASE a = <<>> /\ b = <<>>
    BY <2>1 DEF x
  <2>2. CASE a = <<>> /\ b # <<>>
    <3>1. Len(a) = 0 /\ Len(x) = Len(b) /\ Len(b) >= 1 /\ x[1] = b[1] /\ x[Len(x)] = b[Len(b)]
      BY <1>1, <2>2
    <3> QED BY <3>1, <2>2 DEF Whole
  <2>3. CASE a # <<>> /\ b = <<>>
    <3>1. Len(b) = 0 /\ Len(x) = Len(a) /\ Len(a) >= 1 /\ x[1] = a[1] /\ x[Len(x)] = a[Len(a)]
      BY <1>1, <2>3
    <3> QED BY <3>1, <2>3 DEF Whole
  <2>4. CASE a # <<>> /\ b # <<>>
    <3>1. Len(a) >= 1 /\ Len(b) >= 1 /\ x[1] = a[1] /\ x[Len(x)] = b[Len(b)]
      BY <1>1, <2>4
    <3> QED BY <3>1, <2>4 DEF Whole
  <2> QED BY <2>1, <2>2, <2>3, <2>4
<1> QED BY <1>2, <1>3 DEF Whole, x

(* Pictures that need no other: all of them are IDRs. *)
AllIdr(b)  == \A k \in DOMAIN b : b[k].pic => b[k].idr
Shows(b)   == \E k \in DOMAIN b : b[k].pic

(* Whole units behind what is settled, or with an IDR first. *)
LEMMA CatJoined ==
  ASSUME NEW a \in Seq(Chunks), NEW b \in Seq(Chunks), Joined(a), Whole(b), Settled(a) \/ AllIdr(b)
  PROVE  Joined(a \o b)
<1> DEFINE x == a \o b
<1> HIDE DEF x
<1>1. /\ x \in Seq(Chunks) /\ Len(x) = Len(a) + Len(b) /\ Len(a) \in Nat /\ Len(b) \in Nat
      /\ \A k \in 1 .. Len(a) : x[k] = a[k]
      /\ \A k \in Len(a) + 1 .. Len(x) : x[k] = b[k - Len(a)]
  BY Cat DEF x
<1>2. ASSUME AllIdr(b), NEW m \in Len(a) + 1 .. Len(x), x[m].pic PROVE x[m].idr
  <2>1. m - Len(a) \in 1 .. Len(b) /\ x[m] = b[m - Len(a)]
    BY <1>1
  <2>2. PICK j \in 1 .. Len(b) : x[m] = b[j]
    BY <2>1
  <2> QED BY <1>2, <2>2 DEF AllIdr
<1>3. ASSUME NEW k \in 1 .. Len(x) - 1
      PROVE  Continued(x, k) \/ (x[k + 1].part = 1 /\ (x[k].part = x[k].of \/ Resumed(x, k)))
  <2>1. CASE k < Len(a)
    <3>0. k \in 1 .. Len(a) - 1 /\ k \in 1 .. Len(a) /\ k + 1 \in 1 .. Len(a)
      BY <1>1, <1>3, <2>1
    <3>1. k \in 1 .. Len(a) - 1 /\ x[k] = a[k] /\ x[k + 1] = a[k + 1]
      BY <1>1, <3>0
    <3>2. CASE Continued(a, k) \/ (a[k + 1].part = 1 /\ a[k].part = a[k].of)
      BY <3>1, <3>2 DEF Continued
    <3>3. CASE a[k + 1].part = 1 /\ Resumed(a, k) /\ ~Continued(a, k) /\ a[k].part # a[k].of
      <4>1. ASSUME NEW m \in k + 1 .. Len(x), x[m].pic, \A j \in k + 1 .. m - 1 : ~x[j].pic
            PROVE  x[m].idr
        <5>1. CASE m <= Len(a)
          <6>1. m \in k + 1 .. Len(a) /\ x[m] = a[m]
            BY <1>1, <3>1, <4>1, <5>1
          <6>2. ASSUME NEW j \in k + 1 .. m - 1 PROVE ~a[j].pic
            <7>1. j \in 1 .. Len(a) /\ x[j] = a[j]
              BY <1>1, <3>1, <6>1
            <7> QED BY <4>1, <7>1
          <6> QED BY <6>1, <6>2, <4>1, <3>3 DEF Resumed
        <5>2. CASE m > Len(a) /\ AllIdr(b)
          BY <1>1, <1>2, <4>1, <5>2
        <5>3. CASE m > Len(a) /\ Settled(a)
          <6>1. PICK i \in k + 1 .. Len(a) : a[i].pic
            BY <5>3, <3>1, <3>3 DEF Settled
          <6>2. i \in k + 1 .. m - 1 /\ x[i] = a[i]
            BY <1>1, <3>1, <4>1, <5>3, <6>1
          <6> QED BY <6>1, <6>2, <4>1
        <5> QED BY <1>1, <3>1, <4>1, <5>1, <5>2, <5>3
      <4> QED BY <3>1, <3>3, <4>1 DEF Resumed
    <3> QED BY <3>1, <3>2, <3>3 DEF Joined
  <2>2. CASE k = Len(a)
    <3>1. x[k] = a[Len(a)] /\ x[k + 1] = b[1] /\ a # <<>> /\ b # <<>>
      BY <1>1, <1>3, <2>2, Border DEF x
    <3>2. x[k + 1].part = 1
      BY <3>1 DEF Whole
    <3>3. CASE Settled(a)
      BY <3>1, <3>2, <3>3 DEF Settled
    <3>4. CASE AllIdr(b)
      <4>1. \A m \in k + 1 .. Len(x) : x[m].pic => x[m].idr
        BY <1>2, <2>2, <3>4
      <4> QED BY <3>2, <4>1 DEF Resumed
    <3> QED BY <3>3, <3>4
  <2>3. CASE k > Len(a)
    <3>1. PICK j \in 1 .. Len(b) - 1 : x[k] = b[j] /\ x[k + 1] = b[j + 1]
      BY <1>1, <1>3, <2>3, Behind DEF x
    <3> QED BY <3>1 DEF Whole, Continued
  <2> QED BY <1>1, <1>3, <2>1, <2>2, <2>3
<1> QED BY <1>3 DEF Joined, x

(* Whole units settle what had been settled, or show a picture. *)
LEMMA CatSettled ==
  ASSUME NEW a \in Seq(Chunks), NEW b \in Seq(Chunks), Whole(b), b # <<>>, Settled(a) \/ Shows(b)
  PROVE  Settled(a \o b)
<1> DEFINE x == a \o b
<1> HIDE DEF x
<1>1. /\ x \in Seq(Chunks) /\ Len(x) = Len(a) + Len(b) /\ Len(a) \in Nat /\ Len(b) \in Nat
      /\ \A k \in 1 .. Len(a) : x[k] = a[k]
      /\ \A k \in 1 .. Len(b) : x[Len(a) + k] = b[k]
      /\ \A k \in Len(a) + 1 .. Len(x) : x[k] = b[k - Len(a)]
  BY Cat DEF x
<1>2. x[Len(x)].part = x[Len(x)].of
  <2>1. Len(b) >= 1 /\ x[Len(x)] = b[Len(b)]
    BY <1>1
  <2> QED BY <2>1 DEF Whole
<1>3. ASSUME NEW k \in 1 .. Len(x) - 1
      PROVE  Continued(x, k) \/ x[k].part = x[k].of \/ \E m \in k + 1 .. Len(x) : x[m].pic
  <2>1. CASE k <= Len(a) /\ Shows(b)
    <3>1. PICK j \in 1 .. Len(b) : b[j].pic
      BY <2>1, <1>1 DEF Shows
    <3>2. Len(a) + j \in k + 1 .. Len(x) /\ x[Len(a) + j].pic
      BY <1>1, <1>3, <2>1, <3>1
    <3> QED BY <3>2
  <2>2. CASE k < Len(a) /\ Settled(a)
    <3>0. k \in 1 .. Len(a) - 1 /\ k \in 1 .. Len(a) /\ k + 1 \in 1 .. Len(a)
      BY <1>1, <1>3, <2>2
    <3>1. k \in 1 .. Len(a) - 1 /\ x[k] = a[k] /\ x[k + 1] = a[k + 1]
      BY <1>1, <3>0
    <3>2. CASE \E m \in k + 1 .. Len(a) : a[m].pic
      <4>1. PICK m \in k + 1 .. Len(a) : a[m].pic
        BY <3>2
      <4>2. m \in k + 1 .. Len(x) /\ x[m] = a[m]
        BY <1>1, <3>1, <4>1
      <4> QED BY <4>1, <4>2
    <3>3. CASE Continued(a, k) \/ a[k].part = a[k].of
      BY <3>1, <3>3 DEF Continued
    <3> QED BY <3>1, <3>2, <3>3, <2>2 DEF Settled
  <2>3. CASE k = Len(a) /\ Settled(a)
    <3>1. x[k] = a[Len(a)] /\ a # <<>>
      BY <1>1, <1>3, <2>3, Border DEF x
    <3> QED BY <3>1, <2>3 DEF Settled
  <2>4. CASE k > Len(a)
    <3>1. PICK j \in 1 .. Len(b) - 1 : x[k] = b[j] /\ x[k + 1] = b[j + 1]
      BY <1>1, <1>3, <2>4, Behind DEF x
    <3> QED BY <3>1 DEF Whole, Continued
  <2> QED BY <1>1, <1>3, <2>1, <2>2, <2>3, <2>4
<1> QED BY <1>2, <1>3 DEF Settled, x

(* Pictures of the last unit come behind those of earlier ones. *)
LEMMA CatOrdered ==
  ASSUME NEW a \in Seq(Chunks), NEW b \in Seq(Chunks), NEW n \in Nat, Ordered(a), UpTo(a, n),
         \A k \in DOMAIN b : b[k].pic => b[k].unit = n
  PROVE  Ordered(a \o b)
<1> DEFINE x == a \o b
<1> HIDE DEF x
<1>1. /\ x \in Seq(Chunks) /\ Len(x) = Len(a) + Len(b) /\ Len(a) \in Nat /\ Len(b) \in Nat
      /\ \A k \in 1 .. Len(a) : x[k] = a[k]
      /\ \A k \in Len(a) + 1 .. Len(x) : x[k] = b[k - Len(a)]
      /\ DOMAIN x = 1 .. Len(x) /\ DOMAIN a = 1 .. Len(a) /\ DOMAIN b = 1 .. Len(b)
  BY Cat DEF x
<1>2. ASSUME NEW k \in 1 .. Len(x), k > Len(a), x[k].pic PROVE x[k].unit = n
  <2>1. k - Len(a) \in 1 .. Len(b) /\ k \in Len(a) + 1 .. Len(x)
    BY <1>1, <1>2
  <2>2. PICK j \in 1 .. Len(b) : x[k] = b[j]
    BY <1>1, <2>1
  <2> QED BY <1>1, <1>2, <2>2
<1>3. ASSUME NEW k \in 1 .. Len(x), NEW m \in 1 .. Len(x), k < m, x[k].pic, x[m].pic
      PROVE  x[k].unit <= x[m].unit
  <2>1. CASE m <= Len(a)
    <3>1. k \in 1 .. Len(a) /\ m \in 1 .. Len(a)
      BY <1>1, <1>3, <2>1
    <3>2. x[k] = a[k] /\ x[m] = a[m]
      BY <1>1, <3>1
    <3> QED BY <1>1, <1>3, <3>1, <3>2 DEF Ordered
  <2>2. CASE m > Len(a) /\ k > Len(a)
    BY <1>2, <1>3, <2>2
  <2>3. CASE m > Len(a) /\ k <= Len(a)
    <3>1. x[k].unit <= n /\ x[k].unit \in Nat /\ x[m].unit = n
      <4>1. k \in 1 .. Len(a) /\ k \in DOMAIN a /\ x[k] = a[k]
        BY <1>1, <1>3, <2>3
      <4>2. a[k].unit <= n /\ a[k].unit \in Nat
        BY <4>1, ChunkIs DEF UpTo
      <4>3. x[m].unit = n
        BY <1>2, <1>3, <2>3
      <4> QED BY <4>1, <4>2, <4>3
    <3> QED BY <3>1
  <2> QED BY <1>1, <1>3, <2>1, <2>2, <2>3
<1> QED BY <1>1, <1>3 DEF Ordered, x

(* Of units up to a number, and of one more. *)
LEMMA CatUpTo ==
  ASSUME NEW a \in Seq(Chunks), NEW b \in Seq(Chunks), NEW n \in Nat, UpTo(a, n), UpTo(b, n)
  PROVE  UpTo(a \o b, n)
<1>1. ASSUME NEW k \in 1 .. Len(a) + Len(b) PROVE (a \o b)[k].unit <= n
  <2>1. CASE k <= Len(a)
    BY <2>1, Cat DEF UpTo
  <2>2. CASE k > Len(a)
    <3>1. k - Len(a) \in 1 .. Len(b) /\ (a \o b)[k] = b[k - Len(a)]
      BY <2>2, <1>1, Cat
    <3> QED BY <3>1 DEF UpTo
  <2> QED BY <1>1, <2>1, <2>2
<1> QED BY <1>1, Cat DEF UpTo

LEMMA UpToMore ==
  ASSUME NEW a \in Seq(Chunks), NEW n \in Nat, UpTo(a, n) PROVE UpTo(a, n + 1)
<1>1. ASSUME NEW k \in DOMAIN a PROVE a[k].unit <= n + 1
  <2>1. a[k].unit \in Nat /\ a[k].unit <= n
    BY ChunkIs DEF UpTo
  <2> QED BY <2>1
<1> QED BY <1>1 DEF UpTo

(* What was sent is fit without what is still to be sent. *)
LEMMA PrefixFit ==
  ASSUME NEW a \in Seq(Chunks), NEW b \in Seq(Chunks), NEW n \in Nat, NEW waits, Fit(a \o b, waits, n)
  PROVE  Fit(a, TRUE, n)
<1> DEFINE x == a \o b
<1>1. /\ x \in Seq(Chunks) /\ Len(x) = Len(a) + Len(b) /\ Len(a) \in Nat /\ Len(b) \in Nat
      /\ \A k \in 1 .. Len(a) : x[k] = a[k]
      /\ DOMAIN x = 1 .. Len(x) /\ DOMAIN a = 1 .. Len(a)
  BY Cat
<1> HIDE DEF x
<1>2. UpTo(a, n)
  <2>1. UpTo(x, n)
    BY DEF Fit, x
  <2>2. \A k \in DOMAIN a : k \in DOMAIN x
    BY <1>1
  <2> QED BY <1>1, <2>1, <2>2 DEF UpTo
<1>3. ASSUME Ordered(x) PROVE Ordered(a)
  <2>1. \A k \in DOMAIN a : k \in DOMAIN x /\ a[k] = x[k]
    BY <1>1
  <2> QED BY <1>3, <2>1 DEF Ordered
<1>4. ASSUME Joined(x) PROVE Joined(a)
  <2>1. ASSUME NEW k \in 1 .. Len(a) - 1
        PROVE  Continued(a, k) \/ (a[k + 1].part = 1 /\ (a[k].part = a[k].of \/ Resumed(a, k)))
    <3>1. k \in 1 .. Len(x) - 1 /\ x[k] = a[k] /\ x[k + 1] = a[k + 1]
      BY <1>1, <2>1
    <3>2. ASSUME Resumed(x, k) PROVE Resumed(a, k)
      <4>1. ASSUME NEW m \in k + 1 .. Len(a), a[m].pic, \A j \in k + 1 .. m - 1 : ~a[j].pic
            PROVE  a[m].idr
        <5>1. m \in k + 1 .. Len(x) /\ x[m] = a[m] /\ \A j \in k + 1 .. m - 1 : x[j] = a[j]
          BY <1>1, <2>1, <4>1
        <5> QED BY <3>2, <4>1, <5>1 DEF Resumed
      <4> QED BY <4>1 DEF Resumed
    <3> QED BY <1>4, <3>1, <3>2 DEF Joined, Continued
  <2> QED BY <2>1 DEF Joined
<1> QED BY <1>2, <1>3, <1>4 DEF Fit, x

(* What is fit while the slot does not wait is fit while it does, and later. *)
LEMMA FitWeaker ==
  ASSUME NEW x \in Seq(Chunks), NEW n \in Nat, NEW waits, Fit(x, waits, n)
  PROVE  Fit(x, TRUE, n) /\ Fit(x, waits, n + 1)
BY UpToMore DEF Fit

-----------------------------------------------------------------------------
(* A unit, and what a publication does to a slot.                          *)

LEMMA UnitIs ==
  ASSUME units \in Nat, NEW sid \in Sids, NEW p \in Payloads
  PROVE  /\ Unit(sid, p) \in Seq(Chunks) /\ Unit(sid, p) # <<>> /\ Whole(Unit(sid, p))
         /\ UpTo(Unit(sid, p), units + 1)
         /\ \A k \in DOMAIN Unit(sid, p) :
              /\ Unit(sid, p)[k].unit = units + 1
              /\ Unit(sid, p)[k].pic = (p.idr \/ p.first = "slice")
              /\ Unit(sid, p)[k].idr = p.idr
<1> DEFINE u == Unit(sid, p)
           pic == p.idr \/ p.first = "slice"
<1>1. p.size \in Nat /\ p.size >= 1 /\ p.idr \in BOOLEAN /\ pic \in BOOLEAN
  BY TapAssumption
<1>2. u = [k \in 1 .. p.size |-> [unit |-> units + 1, sid |-> sid, pic |-> pic,
                                  idr |-> p.idr, part |-> k, of |-> p.size]]
  BY DEF Unit
<1> HIDE DEF u, pic
<1>3. \A k \in 1 .. p.size : u[k] = [unit |-> units + 1, sid |-> sid, pic |-> pic,
                                     idr |-> p.idr, part |-> k, of |-> p.size]
  BY <1>2
<1>4. ASSUME NEW k \in 1 .. p.size PROVE u[k] \in Chunks
  <2>1. PICK c : c = [unit |-> units + 1, sid |-> sid, pic |-> pic,
                      idr |-> p.idr, part |-> k, of |-> p.size]
    OBVIOUS
  <2>2. k \in Nat /\ units + 1 \in Nat
    BY <1>1
  <2>3. c \in Chunks
    BY <2>1, <2>2, <1>1, ZenonT(20) DEF Chunks
  <2> QED BY <2>1, <2>3, <1>3
<1>5. u \in Seq(Chunks) /\ Len(u) = p.size /\ DOMAIN u = 1 .. p.size
  BY <1>1, <1>2, <1>4
<1>6. u # <<>>
  BY <1>1, <1>5
<1>7. Whole(u)
  <2>1. ASSUME NEW k \in 1 .. Len(u) - 1 PROVE Continued(u, k)
    <3>1. k \in 1 .. p.size /\ k + 1 \in 1 .. p.size
      BY <1>1, <1>5
    <3>2. u[k + 1] = [unit |-> units + 1, sid |-> sid, pic |-> pic,
                      idr |-> p.idr, part |-> k + 1, of |-> p.size]
      BY <1>3, <3>1
    <3>3. u[k] = [unit |-> units + 1, sid |-> sid, pic |-> pic,
                  idr |-> p.idr, part |-> k, of |-> p.size]
      BY <1>3, <3>1
    <3> QED BY <3>2, <3>3 DEF Continued
  <2>2. u[1].part = 1 /\ u[Len(u)].part = u[Len(u)].of
    <3>1. 1 \in 1 .. p.size /\ Len(u) \in 1 .. p.size /\ Len(u) = p.size
      BY <1>1, <1>5
    <3>2. u[1] = [unit |-> units + 1, sid |-> sid, pic |-> pic,
                  idr |-> p.idr, part |-> 1, of |-> p.size]
      BY <1>3, <3>1, Zenon
    <3>3. u[p.size] = [unit |-> units + 1, sid |-> sid, pic |-> pic,
                       idr |-> p.idr, part |-> p.size, of |-> p.size]
      BY <1>3, <3>1, Zenon
    <3> QED BY <3>1, <3>2, <3>3
  <2> QED BY <2>1, <2>2 DEF Whole
<1>8. ASSUME NEW k \in DOMAIN u
      PROVE  u[k].unit = units + 1 /\ u[k].pic = pic /\ u[k].idr = p.idr
  <2>1. u[k] = [unit |-> units + 1, sid |-> sid, pic |-> pic,
                idr |-> p.idr, part |-> k, of |-> p.size]
    BY <1>3, <1>5
  <2>2. PICK x : x = [unit |-> units + 1, sid |-> sid, pic |-> pic,
                      idr |-> p.idr, part |-> k, of |-> p.size]
    OBVIOUS
  <2>3. x.unit = units + 1 /\ x.pic = pic /\ x.idr = p.idr
    <3> HIDE <2>1
    <3> QED BY <2>2, Zenon
  <2> QED BY <2>1, <2>2, <2>3
<1>9. UpTo(u, units + 1)
  BY <1>8 DEF UpTo
<1>10. \A k \in DOMAIN u : u[k].unit = units + 1 /\ u[k].pic = pic /\ u[k].idr = p.idr
  BY <1>8, Zenon
<1> QED BY <1>5, <1>6, <1>7, <1>9, <1>10, Zenon DEF u, pic

(* The fields of a slot. *)
LEMMA SlotIs ==
  ASSUME NEW s \in TapClients
  PROVE  /\ s.active \in BOOLEAN /\ s.conn \in Subscribers \cup {NoConn} /\ s.sid \in Sids \cup {0}
         /\ s.out \in Seq(Chunks) /\ s.needIdr \in BOOLEAN
         /\ s.sps \in Seq(Chunks) /\ s.pps \in Seq(Chunks)
  BY DEF TapClients

LEMMA FreeIs ==
  /\ FreeSlot \in TapClients /\ ~FreeSlot.active /\ FreeSlot.conn = NoConn /\ FreeSlot.sid = 0
  /\ FreeSlot.out = <<>> /\ ~FreeSlot.needIdr /\ FreeSlot.sps = <<>> /\ FreeSlot.pps = <<>>
<1>1. <<>> \in Seq(Chunks)
  OBVIOUS
<1> QED BY <1>1 DEF FreeSlot, TapClients

LEMMA WithOut ==
  ASSUME NEW s \in TapClients, NEW q \in Seq(Chunks), NEW t, t = [s EXCEPT !.out = q]
  PROVE  /\ t \in TapClients /\ t.out = q
         /\ t.active = s.active /\ t.conn = s.conn /\ t.sid = s.sid /\ t.needIdr = s.needIdr
         /\ t.sps = s.sps /\ t.pps = s.pps
  BY DEF TapClients

LEMMA WithWait ==
  ASSUME NEW s \in TapClients, NEW w \in BOOLEAN, NEW t, t = [s EXCEPT !.needIdr = w]
  PROVE  /\ t \in TapClients /\ t.needIdr = w
         /\ t.active = s.active /\ t.conn = s.conn /\ t.sid = s.sid /\ t.out = s.out
         /\ t.sps = s.sps /\ t.pps = s.pps
  BY DEF TapClients

(* A slot that is free and empty, and one that goes on into the next unit. *)
LEMMA FreeSound ==
  ASSUME NEW n \in Nat PROVE Sound(FreeSlot, <<>>, n)
<1>1. <<>> \o <<>> = <<>> /\ DOMAIN <<>> = {}
  OBVIOUS
<1>2. FreeSlot = [FreeSlot EXCEPT !.out = FreeSlot.out]
  BY DEF FreeSlot
<1>3. Fit(<<>> \o FreeSlot.out, FreeSlot.needIdr, n)
  BY <1>1, FreeIs, EmptyIs
<1> QED BY <1>1, <1>2, <1>3, FreeIs, EmptyIs DEF Sound

LEMMA SetsMore ==
  ASSUME NEW q \in Seq(Chunks), NEW n \in Nat, Sets(q, n) PROVE Sets(q, n + 1)
BY UpToMore DEF Sets

LEMMA SoundMore ==
  ASSUME NEW s \in TapClients, NEW g \in Seq(Chunks), NEW n \in Nat, Sound(s, g, n)
  PROVE  Sound(s, g, n + 1)
<1>1. g \o s.out \in Seq(Chunks)
  BY SlotIs
<1>2. Fit(g \o s.out, s.needIdr, n + 1)
  BY <1>1, FitWeaker DEF Sound
<1>3. Sets(s.sps, n + 1) /\ Sets(s.pps, n + 1)
  BY SetsMore, SlotIs DEF Sound
<1> QED BY <1>2, <1>3 DEF Sound

(* The parameter sets of the unit are kept (maybe_cache_param_sets). *)
LEMMA CachedIs ==
  ASSUME units \in Nat, NEW sid \in Sids, NEW p \in Payloads,
         NEW s \in TapClients, s.active, NEW g \in Seq(Chunks), Sound(s, g, units),
         NEW c, c = Cached(s, p, Unit(sid, p))
  PROVE  /\ c \in TapClients /\ Sound(c, g, units + 1)
         /\ c.active /\ c.conn = s.conn /\ c.sid = s.sid
         /\ c.out = s.out /\ c.needIdr = s.needIdr
         /\ p.first = "sps" => c.sps = Unit(sid, p)
<1>1. PICK u \in Seq(Chunks) : u = Unit(sid, p)
  BY UnitIs
<1>2. p.first \in {"sps", "pps", "slice"} /\ p.idr \in BOOLEAN
  BY TapAssumption
<1>3. Sound(s, g, units + 1)
  BY SoundMore
<1>4. p.first # "slice" => Sets(u, units + 1)
  BY <1>1, UnitIs DEF Sets
<1>5. IdrsWithSets /\ p.first = "pps" => \A k \in DOMAIN u : ~u[k].pic
  BY <1>1, <1>2, UnitIs DEF IdrsWithSets
<1>6. CASE p.first = "slice"
  <2>1. c = s
    BY <1>1, <1>6 DEF Cached
  <2> QED BY <2>1, <1>3, <1>6
<1>7. CASE p.first = "sps"
  <2>1. c = [s EXCEPT !.sps = u]
    BY <1>1, <1>7 DEF Cached
  <2>2. /\ c \in TapClients /\ c.sps = u /\ c.pps = s.pps /\ c.out = s.out
        /\ c.conn = s.conn /\ c.sid = s.sid
    BY <2>1 DEF TapClients
  <2>3. c.active = s.active /\ c.needIdr = s.needIdr
    BY <2>1 DEF TapClients
  <2>4. Sound(c, g, units + 1)
    BY <2>2, <2>3, <1>3, <1>4, <1>7 DEF Sound
  <2> QED BY <2>2, <2>3, <2>4, <1>1
<1>8. CASE p.first = "pps"
  <2>1. c = [s EXCEPT !.pps = u]
    BY <1>1, <1>8 DEF Cached
  <2>2. /\ c \in TapClients /\ c.pps = u /\ c.sps = s.sps /\ c.out = s.out
        /\ c.conn = s.conn /\ c.sid = s.sid
    BY <2>1 DEF TapClients
  <2>3. c.active = s.active /\ c.needIdr = s.needIdr
    BY <2>1 DEF TapClients
  <2>4. Sound(c, g, units + 1)
    BY <2>2, <2>3, <1>3, <1>4, <1>5, <1>8 DEF Sound
  <2> QED BY <2>2, <2>3, <2>4, <1>8
<1> QED BY <1>2, <1>6, <1>7, <1>8

(* A buffer is given up, in the middle of a unit perhaps. *)
LEMMA GivenUpIs ==
  ASSUME NEW n \in Nat, NEW s \in TapClients, s.active, NEW g \in Seq(Chunks), Sound(s, g, n),
         NEW d, d = GivenUp(s)
  PROVE  /\ d \in TapClients /\ Sound(d, g, n)
         /\ d.active /\ d.conn = s.conn /\ d.sid = s.sid /\ d.sps = s.sps
<1>1. d = [s EXCEPT !.out = <<>>, !.needIdr = s.needIdr \/ DropToIdr]
  BY DEF GivenUp
<1>2. <<>> \in Seq(Chunks) /\ (s.needIdr \/ DropToIdr) \in BOOLEAN
  BY TapAssumption, SlotIs
<1>3. /\ d \in TapClients /\ d.out = <<>> /\ d.conn = s.conn /\ d.sid = s.sid
      /\ d.sps = s.sps /\ d.pps = s.pps
  BY <1>1, <1>2 DEF TapClients
<1>4. d.active = s.active /\ d.needIdr = (s.needIdr \/ DropToIdr)
  BY <1>1, <1>2 DEF TapClients
<1>5. Fit(g, TRUE, n)
  BY PrefixFit, SlotIs DEF Sound
<1>6. g \o d.out = g
  BY <1>3
<1>7. Fit(g \o d.out, d.needIdr, n)
  BY <1>4, <1>5, <1>6 DEF Fit
<1> QED BY <1>3, <1>4, <1>7 DEF Sound

(* The border between sent and unsent is moved. *)
LEMMA Moved ==
  ASSUME NEW g \in Seq(Chunks), NEW o \in Seq(Chunks), NEW k \in 0 .. Len(o)
  PROVE  /\ SubSeq(o, 1, k) \in Seq(Chunks) /\ Len(SubSeq(o, 1, k)) = k
         /\ SubSeq(o, k + 1, Len(o)) \in Seq(Chunks)
         /\ (g \o SubSeq(o, 1, k)) \o SubSeq(o, k + 1, Len(o)) = g \o o
<1>0. Len(o) \in Nat /\ k \in Nat /\ k <= Len(o)
  OBVIOUS
<1>1. PICK a : a = SubSeq(o, 1, k)
  OBVIOUS
<1>2. PICK b : b = SubSeq(o, k + 1, Len(o))
  OBVIOUS
<1>3. a \in Seq(Chunks) /\ Len(a) = k /\ \A i \in 1 .. k : a[i] = o[i]
  <2>1. 1 \in 1 .. Len(o) + 1 /\ k \in 1 - 1 .. Len(o)
    BY <1>0
  <2>2. /\ a \in Seq(Chunks) /\ Len(a) = IF 1 <= k THEN k - 1 + 1 ELSE 0
        /\ \A i \in 1 .. k - 1 + 1 : a[i] = o[1 + i - 1]
    BY <2>1, <1>1, SubSeqProperties
  <2> QED BY <1>0, <2>2
<1>4. b \in Seq(Chunks) /\ Len(b) = Len(o) - k /\ \A i \in 1 .. Len(o) - k : b[i] = o[k + i]
  <2>1. k + 1 \in 1 .. Len(o) + 1 /\ Len(o) \in k + 1 - 1 .. Len(o)
    BY <1>0
  <2>2. /\ b \in Seq(Chunks)
        /\ Len(b) = IF k + 1 <= Len(o) THEN Len(o) - (k + 1) + 1 ELSE 0
        /\ \A i \in 1 .. Len(o) - (k + 1) + 1 : b[i] = o[k + 1 + i - 1]
    BY <2>1, <1>2, SubSeqProperties
  <2> QED BY <1>0, <2>2
<1>5. (g \o a) \o b = g \o o
  <2>1. /\ (g \o a) \o b \in Seq(Chunks) /\ g \o o \in Seq(Chunks)
        /\ Len((g \o a) \o b) = Len(g) + Len(o) /\ Len(g \o o) = Len(g) + Len(o)
    <3>1. g \o a \in Seq(Chunks) /\ Len(g \o a) = Len(g) + k
      BY <1>3, Cat
    <3>2. (g \o a) \o b \in Seq(Chunks) /\ Len((g \o a) \o b) = (Len(g) + k) + (Len(o) - k)
      BY <3>1, <1>4, Cat
    <3>3. Len(g) \in Nat /\ (Len(g) + k) + (Len(o) - k) = Len(g) + Len(o)
      BY <1>0
    <3> QED BY <3>2, <3>3, Cat
  <2>2. ASSUME NEW i \in 1 .. Len(g) + Len(o) PROVE ((g \o a) \o b)[i] = (g \o o)[i]
    <3>0. /\ Len(g) \in Nat /\ Len(o) \in Nat /\ k \in Nat /\ k <= Len(o) /\ i \in Nat
          /\ g \o a \in Seq(Chunks) /\ Len(g \o a) = Len(g) + k
      <4>1. Len(g) \in Nat /\ g \o a \in Seq(Chunks) /\ Len(g \o a) = Len(g) + k
        BY <1>3, Cat
      <4>2. i \in Nat
        BY <4>1, <1>0, <2>2
      <4> QED BY <4>1, <4>2, <1>0
    <3> DEFINE ga == g \o a
    <3> HIDE DEF ga
    <3>9. /\ ga \in Seq(Chunks) /\ Len(ga) = Len(g) + k
          /\ \A l \in 1 .. Len(g) : ga[l] = g[l]
          /\ \A l \in 1 .. k : ga[Len(g) + l] = a[l]
          /\ \A l \in 1 .. Len(ga) : (ga \o b)[l] = ga[l]
          /\ \A l \in 1 .. Len(b) : (ga \o b)[Len(ga) + l] = b[l]
      <4>1. ga \in Seq(Chunks) /\ Len(ga) = Len(g) + k
        BY <3>0 DEF ga
      <4>2. \A l \in 1 .. Len(g) : ga[l] = g[l]
        BY <1>3, Cat DEF ga
      <4>3. \A l \in 1 .. k : ga[Len(g) + l] = a[l]
        BY <1>3, Cat DEF ga
      <4>4. /\ \A l \in 1 .. Len(ga) : (ga \o b)[l] = ga[l]
            /\ \A l \in 1 .. Len(b) : (ga \o b)[Len(ga) + l] = b[l]
        BY <4>1, <1>4, Cat
      <4> QED BY <4>1, <4>2, <4>3, <4>4
    <3>10. /\ \A l \in 1 .. Len(g) : (g \o o)[l] = g[l]
           /\ \A l \in 1 .. Len(o) : (g \o o)[Len(g) + l] = o[l]
      BY Cat
    <3>1. CASE i <= Len(g)
      <4>1. i \in 1 .. Len(g) /\ i \in 1 .. Len(ga)
        BY <3>0, <3>1, <3>9
      <4>2. (ga \o b)[i] = ga[i] /\ ga[i] = g[i] /\ (g \o o)[i] = g[i]
        BY <4>1, <3>9, <3>10, Zenon
      <4> QED BY <4>2 DEF ga
    <3>2. CASE i > Len(g) /\ i <= Len(g) + k
      <4>1. PICK j \in 1 .. k : i = Len(g) + j
        <5>1. i - Len(g) \in 1 .. k /\ i = Len(g) + (i - Len(g))
          BY <3>0, <3>2
        <5> QED BY <5>1
      <4>2. j \in 1 .. Len(a) /\ j \in 1 .. Len(o) /\ i \in 1 .. Len(ga)
        BY <3>0, <3>2, <3>9, <4>1, <1>3
      <4>3. (ga \o b)[i] = ga[i] /\ ga[i] = a[j] /\ (g \o o)[i] = o[j]
        BY <4>1, <4>2, <3>9, <3>10, Zenon
      <4> QED BY <4>1, <4>3, <1>3 DEF ga
    <3>3. CASE i > Len(g) + k
      <4>1. PICK j \in 1 .. Len(o) - k : i = Len(ga) + j
        <5>1. i - (Len(g) + k) \in 1 .. Len(o) - k /\ i = Len(ga) + (i - (Len(g) + k))
          BY <3>0, <3>3, <3>9
        <5> QED BY <5>1
      <4>2. j \in 1 .. Len(b) /\ k + j \in 1 .. Len(o) /\ i = Len(g) + (k + j)
        BY <3>0, <3>3, <3>9, <4>1, <1>4
      <4>3. (ga \o b)[i] = b[j] /\ (g \o o)[i] = o[k + j]
        BY <4>1, <4>2, <3>9, <3>10, Zenon
      <4> QED BY <4>1, <4>2, <4>3, <1>4 DEF ga
    <3>8. i <= Len(g) \/ (i > Len(g) /\ i <= Len(g) + k) \/ i > Len(g) + k
      BY <3>0
    <3> QED BY <3>8, <3>1, <3>2, <3>3, Zenon
  <2> HIDE <1>1, <1>2
  <2> DEFINE x == (g \o a) \o b
             y == g \o o
  <2> HIDE DEF x, y
  <2>3. x \in Seq(Chunks) /\ y \in Seq(Chunks) /\ Len(x) = Len(g) + Len(o) /\ Len(y) = Len(x)
    BY <2>1 DEF x, y
  <2>4. \A i \in 1 .. Len(x) : x[i] = y[i]
    BY <2>2, <2>3 DEF x, y
  <2>5. x = y
    BY <2>3, <2>4, SeqEqual
  <2> QED BY <2>5 DEF x, y
<1> QED BY <1>1, <1>2, <1>3, <1>4, <1>5, Zenon

(* Flushing a slot (flush_out_buf): what it sends was the first to wait.   *)
Flushed(f, s, g, room, n) ==
  /\ f.slot \in TapClients /\ f.sent \in Seq(Chunks) /\ Len(f.sent) <= room
  /\ f = [slot |-> f.slot, sent |-> f.sent]
  /\ ~f.slot.active => f.sent = <<>>
  /\ f.slot.active =>
       /\ s.active /\ f.slot.conn = s.conn /\ f.slot.sid = s.sid
       /\ f.slot.needIdr = s.needIdr /\ f.slot.sps = s.sps
       /\ (g \o f.sent) \o f.slot.out = g \o s.out
  /\ f.slot.active => Sound(f.slot, g \o f.sent, n)
  /\ ~f.slot.active => Sound(f.slot, <<>>, n)
  /\ Fit(g \o f.sent, TRUE, n)

LEMMA FlushIs ==
  ASSUME NEW n \in Nat, NEW s \in TapClients, NEW g \in Seq(Chunks), Sound(s, g, n),
         NEW room \in Nat, NEW f, f = Flush(s, room)
  PROVE  Flushed(f, s, g, room, n)
<1> DEFINE k == IF Len(s.out) <= room THEN Len(s.out) ELSE room
<1>0. <<>> \in Seq(Chunks) /\ Len(<<>>) = 0 /\ g \o <<>> = g
  OBVIOUS
<1>1. CASE ~s.active
  <2>1. f = [slot |-> s, sent |-> <<>>]
    BY <1>1 DEF Flush
  <2>2. f.slot = s /\ f.sent = <<>> /\ ~f.slot.active
    BY <2>1, <1>1
  <2>3. g = <<>> /\ Fit(g \o f.sent, TRUE, n)
    BY <1>0, <1>1, <2>2, EmptyIs DEF Sound
  <2>4. Sound(f.slot, <<>>, n)
    BY <2>2, <2>3
  <2>5. f.slot \in TapClients /\ f.sent \in Seq(Chunks) /\ Len(f.sent) <= room
    BY <2>2, <1>0
  <2>6. f = [slot |-> f.slot, sent |-> f.sent]
    BY <2>1, <2>2
  <2> QED BY <2>2, <2>3, <2>4, <2>5, <2>6, Zenon DEF Flushed
<1>2. CASE s.active /\ peer[s.conn].state = "gone" /\ s.out # <<>>
  <2>1. f = [slot |-> FreeSlot, sent |-> <<>>]
    BY <1>2 DEF Flush
  <2>2. f.slot = FreeSlot /\ f.sent = <<>> /\ ~f.slot.active
    BY <2>1, FreeIs
  <2>3. Fit(g \o f.sent, TRUE, n)
    BY <1>0, <2>2, PrefixFit, SlotIs DEF Sound
  <2>4. Sound(f.slot, <<>>, n)
    BY <2>2, FreeSound
  <2>5. f.slot \in TapClients /\ f.sent \in Seq(Chunks) /\ Len(f.sent) <= room
    BY <2>2, <1>0, FreeIs
  <2>6. f = [slot |-> f.slot, sent |-> f.sent]
    BY <2>1, <2>2
  <2> QED BY <2>2, <2>3, <2>4, <2>5, <2>6, Zenon DEF Flushed
<1>3. CASE s.active /\ ~(peer[s.conn].state = "gone" /\ s.out # <<>>)
  <2>0. s.out \in Seq(Chunks) /\ k \in 0 .. Len(s.out) /\ k <= room
    BY SlotIs
  <2>1. f = [slot |-> [s EXCEPT !.out = SubSeq(s.out, k + 1, Len(s.out))],
             sent |-> SubSeq(s.out, 1, k)]
    BY <1>3 DEF Flush
  <2> HIDE DEF k
  <2>2. PICK a \in Seq(Chunks) : a = SubSeq(s.out, 1, k) /\ Len(a) = k
    BY <2>0, Moved
  <2>3. PICK b \in Seq(Chunks) : b = SubSeq(s.out, k + 1, Len(s.out))
    BY <2>0, Moved
  <2>4. (g \o a) \o b = g \o s.out
    BY <2>0, <2>2, <2>3, Moved
  <2>5. PICK t \in TapClients : t = [s EXCEPT !.out = b]
    BY WithOut
  <2>6. f = [slot |-> t, sent |-> a] /\ f.slot = t /\ f.sent = a
    BY <2>1, <2>2, <2>3, <2>5
  <2>7. /\ t.out = b /\ t.active = s.active /\ t.conn = s.conn /\ t.sid = s.sid
        /\ t.needIdr = s.needIdr /\ t.sps = s.sps /\ t.pps = s.pps
    BY <2>5, WithOut
  <2>8. Sound(t, g \o a, n)
    BY <2>4, <2>7, <1>3 DEF Sound
  <2>9. Fit(g \o a, TRUE, n)
    <3>1. Fit((g \o a) \o b, s.needIdr, n) /\ g \o a \in Seq(Chunks)
      BY <2>4 DEF Sound
    <3> QED BY <3>1, PrefixFit
  <2>10. f.slot.active
    BY <2>6, <2>7, <1>3
  <2>11. Len(f.sent) <= room
    BY <2>0, <2>2, <2>6
  <2>12. Sound(f.slot, g \o f.sent, n) /\ Fit(g \o f.sent, TRUE, n)
    BY <2>6, <2>8, <2>9
  <2> QED BY <2>4, <2>6, <2>7, <2>10, <2>11, <2>12, <1>3 DEF Flushed
<1> QED BY <1>1, <1>2, <1>3

(* A slot that is closed has nothing of its last connection. *)
LEMMA ClosedIs ==
  ASSUME NEW s \in TapClients, NEW g, NEW n, Sound(s, g, n), ~s.active
  PROVE  /\ g = <<>> /\ s.conn = NoConn /\ s.sid = 0 /\ s.needIdr = FALSE
         /\ s.sps = <<>> /\ s.pps = <<>> /\ s = [FreeSlot EXCEPT !.out = s.out]
<1>1. g = <<>> /\ s = [FreeSlot EXCEPT !.out = s.out]
  BY DEF Sound
<1>2. PICK q \in Seq(Chunks) : q = s.out
  BY SlotIs
<1>3. s = [FreeSlot EXCEPT !.out = q]
  BY <1>1, <1>2
<1>4. s.conn = NoConn /\ s.sid = 0 /\ s.sps = <<>> /\ s.pps = <<>> /\ ~s.needIdr
  BY <1>2, <1>3, FreeIs, WithOut
<1>5. s.needIdr = FALSE
  BY <1>4, SlotIs
<1> QED BY <1>1, <1>4, <1>5

(* The new unit behind what was sent: it shows a picture, or goes on.      *)
LEMMA AssembledIs ==
  ASSUME units \in Nat, NEW sid \in Sids, NEW p \in Payloads, NEW u, u = Unit(sid, p),
         NEW s \in TapClients, NEW g \in Seq(Chunks), NEW n \in Nat, n = units + 1,
         Fit(g, s.needIdr, n), Sets(s.sps, n), Sets(s.pps, n),
         IdrsWithSets => \A k \in DOMAIN s.pps : ~s.pps[k].pic,
         s.needIdr => p.idr, p.first = "sps" => s.sps = u \/ ~s.needIdr,
         NEW q, q = Assembled(s, u)
  PROVE  q \in Seq(Chunks) /\ \A waits \in BOOLEAN : Fit(g \o q, waits, n)
<1>0. s.sps \in Seq(Chunks) /\ s.pps \in Seq(Chunks)
  BY SlotIs
<1>9. PICK sps \in Seq(Chunks), pps \in Seq(Chunks) : sps = s.sps /\ pps = s.pps
  BY <1>0
<1>10. sps \o pps \in Seq(Chunks)
  BY <1>9, Cat
<1>11. ASSUME NEW a, a = sps \o pps PROVE Among(a, s.sps, s.pps)
  <2>1. Among(a, sps, pps)
    BY <1>9, <1>11, CatMember
  <2> QED BY <2>1, <1>9
<1>1. /\ u \in Seq(Chunks) /\ u # <<>> /\ Whole(u) /\ UpTo(u, n)
      /\ \A k \in DOMAIN u : u[k].unit = n /\ u[k].idr = p.idr
      /\ \A k \in DOMAIN u : u[k].pic = (p.idr \/ p.first = "slice")
  BY UnitIs
<1>2. UpTo(g, n) /\ (DropToIdr => Joined(g) /\ (~s.needIdr => Settled(g)))
      /\ (IdrsWithSets => Ordered(g))
  BY DEF Fit
<1>3. q \in Seq(Chunks) /\ q # <<>> /\ Whole(q) /\ UpTo(q, n)
  <2>1. CASE ~s.needIdr
    <3>1. q = u
      BY <2>1 DEF Assembled
    <3> QED BY <3>1, <1>1
  <2>2. CASE s.needIdr
    <3>1. PICK a \in Seq(Chunks) : a = sps \o pps
      BY <1>10
    <3>2. q = a \o u
      BY <2>2, <3>1, <1>9 DEF Assembled
    <3>3. Whole(a) /\ UpTo(a, n)
      BY <3>1, <1>9, CatWhole, CatUpTo DEF Sets
    <3>4. q \in Seq(Chunks) /\ Whole(q) /\ UpTo(q, n)
      BY <3>2, <3>3, <1>1, CatWhole, CatUpTo
    <3>5. Len(q) = Len(a) + Len(u) /\ Len(u) >= 1 /\ Len(a) \in Nat
      BY <3>2, <1>1
    <3>6. q # <<>>
      BY <3>5
    <3> QED BY <3>4, <3>6
  <2> QED BY <2>1, <2>2
<1>4. s.needIdr => AllIdr(q) /\ Shows(q)
  <2> SUFFICES ASSUME s.needIdr PROVE AllIdr(q) /\ Shows(q)
    OBVIOUS
  <2>1. PICK a \in Seq(Chunks) : a = sps \o pps
    BY <1>10
  <2>2. q = a \o u
    BY <2>1, <1>9 DEF Assembled
  <2>3. AllIdr(a)
    <3>1. ASSUME NEW k \in DOMAIN a, a[k].pic PROVE a[k].idr
      <4>1. (\E i \in DOMAIN s.sps : a[k] = s.sps[i]) \/ (\E i \in DOMAIN s.pps : a[k] = s.pps[i])
        BY <2>1, <3>1, <1>11 DEF Among
      <4> QED BY <4>1, <3>1 DEF Sets
    <3> QED BY <3>1 DEF AllIdr
  <2>4. AllIdr(q)
    <3>0. Among(q, a, u)
      BY <2>2, <1>1, CatMember
    <3>1. ASSUME NEW k \in DOMAIN q, q[k].pic PROVE q[k].idr
      <4>1. (\E i \in DOMAIN a : q[k] = a[i]) \/ (\E i \in DOMAIN u : q[k] = u[i])
        BY <3>0, <3>1 DEF Among
      <4>2. CASE \E i \in DOMAIN a : q[k] = a[i]
        BY <4>2, <3>1, <2>3 DEF AllIdr
      <4>3. CASE \E i \in DOMAIN u : q[k] = u[i]
        BY <4>3, <1>1
      <4> QED BY <4>1, <4>2, <4>3
    <3> QED BY <3>1 DEF AllIdr
  <2>5. Shows(q)
    <3>1. Len(u) \in 1 .. Len(u) /\ Len(u) \in DOMAIN u /\ Len(a) + Len(u) \in DOMAIN q
      BY <2>2, <1>1, <1>3
    <3>2. q[Len(a) + Len(u)] = u[Len(u)]
      BY <3>1, <2>2, <1>1, Cat
    <3>3. u[Len(u)].pic
      BY <3>1, <1>1
    <3> QED BY <3>1, <3>2, <3>3 DEF Shows
  <2> QED BY <2>4, <2>5
<1>5. IdrsWithSets => \A k \in DOMAIN q : q[k].pic => q[k].unit = n
  <2> SUFFICES ASSUME IdrsWithSets, NEW k \in DOMAIN q, q[k].pic PROVE q[k].unit = n
    OBVIOUS
  <2>1. CASE ~s.needIdr
    <3>1. q = u
      BY <2>1 DEF Assembled
    <3> QED BY <3>1, <1>1
  <2>2. CASE s.needIdr
    <3>1. PICK a \in Seq(Chunks) : a = sps \o pps
      BY <1>10
    <3>2. q = a \o u
      BY <2>2, <3>1, <1>9 DEF Assembled
    <3>3. s.sps = u
      BY <2>2 DEF IdrsWithSets
    <3>4. (\E i \in DOMAIN a : q[k] = a[i]) \/ (\E i \in DOMAIN u : q[k] = u[i])
      <4>1. Among(q, a, u)
        BY <3>2, <1>1, CatMember
      <4> QED BY <4>1 DEF Among
    <3>5. CASE \E i \in DOMAIN u : q[k] = u[i]
      BY <3>5, <1>1
    <3>6. CASE \E i \in DOMAIN a : q[k] = a[i]
      <4>1. PICK i \in DOMAIN a : q[k] = a[i]
        BY <3>6
      <4>2. (\E j \in DOMAIN s.sps : a[i] = s.sps[j]) \/ (\E j \in DOMAIN s.pps : a[i] = s.pps[j])
        BY <3>1, <4>1, <1>11 DEF Among
      <4>3. ~(\E j \in DOMAIN s.pps : a[i] = s.pps[j])
        BY <4>1
      <4> QED BY <4>1, <4>2, <4>3, <3>3, <1>1
    <3> QED BY <3>4, <3>5, <3>6
  <2> QED BY <2>1, <2>2
<1>6. UpTo(g \o q, n)
  BY <1>2, <1>3, CatUpTo
<1>7. DropToIdr => Joined(g \o q) /\ Settled(g \o q)
  BY <1>2, <1>3, <1>4, CatJoined, CatSettled
<1>8. IdrsWithSets => Ordered(g \o q)
  BY <1>2, <1>3, <1>5, CatOrdered
<1> QED BY <1>3, <1>6, <1>7, <1>8 DEF Fit

(* The new unit is delivered. *)
Delivered(r, s, g, room, n) ==
  /\ r.slot \in TapClients /\ r.sent \in Seq(Chunks) /\ Len(r.sent) <= room
  /\ r = [slot |-> r.slot, sent |-> r.sent]
  /\ ~s.active => ~r.slot.active /\ r.sent = <<>>
  /\ r.slot.active => r.slot.conn = s.conn /\ r.slot.sid = s.sid
  /\ r.slot.active => Sound(r.slot, g \o r.sent, n)
  /\ ~r.slot.active => Sound(r.slot, <<>>, n)
  /\ Fit(g \o r.sent, TRUE, n)

LEMMA DeliverIs ==
  ASSUME units \in Nat, NEW sid \in Sids, NEW p \in Payloads, NEW u, u = Unit(sid, p),
         NEW s \in TapClients, NEW g \in Seq(Chunks), NEW n \in Nat, n = units + 1,
         Sound(s, g, n), s.active => s.out = <<>>,
         s.needIdr => p.idr, p.first = "sps" => s.sps = u \/ ~s.needIdr,
         NEW room \in Nat, NEW r, r = Deliver(s, p, u, room)
  PROVE  Delivered(r, s, g, room, n)
<1>1. PICK q : q = Assembled(s, u)
  OBVIOUS
<1>2. Fit(g, s.needIdr, n)
  <2>1. CASE s.active
    <3>1. g \o s.out = g
      BY <2>1
    <3> QED BY <3>1 DEF Sound
  <2>2. CASE ~s.active
    BY <2>2, ClosedIs, EmptyIs
  <2> QED BY <2>1, <2>2
<1>3. q \in Seq(Chunks) /\ \A waits \in BOOLEAN : Fit(g \o q, waits, n)
  <2>1. /\ Sets(s.sps, n) /\ Sets(s.pps, n)
        /\ IdrsWithSets => \A k \in DOMAIN s.pps : ~s.pps[k].pic
    BY DEF Sound
  <2> QED BY <1>1, <1>2, <2>1, AssembledIs
<1>4. PICK t \in TapClients : t = [s EXCEPT !.out = q]
  BY <1>3, WithOut
<1>5. /\ t.out = q /\ t.active = s.active /\ t.conn = s.conn /\ t.sid = s.sid
      /\ t.needIdr = s.needIdr /\ t.sps = s.sps /\ t.pps = s.pps
  BY <1>3, <1>4, WithOut
<1>6. Sound(t, g, n)
  <2>1. Fit(g \o t.out, t.needIdr, n)
    BY <1>3, <1>5, SlotIs
  <2>2. ASSUME ~t.active PROVE g = <<>> /\ t = [FreeSlot EXCEPT !.out = t.out]
    <3>1. g = <<>> /\ s = [FreeSlot EXCEPT !.out = s.out]
      BY <2>2, <1>5, ClosedIs
    <3>2. [[FreeSlot EXCEPT !.out = s.out] EXCEPT !.out = q] = [FreeSlot EXCEPT !.out = q]
      BY DEF FreeSlot
    <3> QED BY <3>1, <3>2, <1>4, <1>5
  <2> QED BY <2>1, <2>2, <1>5 DEF Sound
<1>7. PICK f : f = Flush(t, room)
  OBVIOUS
<1>20. t \in TapClients /\ Sound(t, g, n) /\ f = Flush(t, room)
  BY <1>4, <1>6, <1>7
<1>23. Flushed(f, t, g, room, n)
  BY <1>20, FlushIs
<1>8. /\ f.slot \in TapClients /\ f.sent \in Seq(Chunks)
      /\ Len(f.sent) <= room
      /\ ~f.slot.active => f.sent = <<>>
      /\ f.slot.active => t.active
      /\ f.slot.active => f.slot.conn = t.conn /\ f.slot.sid = t.sid
      /\ f.slot.active => (g \o f.sent) \o f.slot.out = g \o t.out
      /\ f.slot.active => Sound(f.slot, g \o f.sent, n)
      /\ ~f.slot.active => Sound(f.slot, <<>>, n)
      /\ Fit(g \o f.sent, TRUE, n)
  BY <1>23 DEF Flushed
<1>21. f = [slot |-> f.slot, sent |-> f.sent]
  BY <1>23 DEF Flushed
<1>9. PICK e \in TapClients : e = f.slot
  BY <1>8
<1>10. PICK w \in BOOLEAN : w = (e.needIdr /\ ~(p.idr /\ e.out = <<>>))
  OBVIOUS
<1>11. PICK z \in TapClients : z = [e EXCEPT !.needIdr = w]
  BY WithWait
<1>12. r = [f EXCEPT !.slot.needIdr = w]
  BY <1>1, <1>4, <1>7, <1>9, <1>10 DEF Deliver
<1>13. r.slot = z /\ r.sent = f.sent
  <2>1. r = [[slot |-> e, sent |-> f.sent] EXCEPT !.slot.needIdr = w]
    BY <1>21, <1>9, <1>12
  <2> QED BY <2>1, <1>11
<1>14. /\ z.needIdr = w /\ z.active = e.active /\ z.conn = e.conn /\ z.sid = e.sid
       /\ z.out = e.out /\ z.sps = e.sps /\ z.pps = e.pps
  BY <1>11, WithWait
<1>15. ASSUME e.active PROVE Sound(z, g \o r.sent, n)
  <2>1. (g \o r.sent) \o z.out = g \o q /\ Sound(e, g \o r.sent, n)
    BY <1>15, <1>5, <1>8, <1>9, <1>13, <1>14
  <2>2. Fit((g \o r.sent) \o z.out, z.needIdr, n)
    BY <2>1, <1>3, <1>14
  <2> QED BY <2>1, <2>2, <1>14, <1>15 DEF Sound
<1>16. ASSUME ~e.active PROVE Sound(z, <<>>, n)
  <2>1. Sound(e, <<>>, n)
    BY <1>8, <1>9, <1>16
  <2>2. e.needIdr = FALSE
    BY <2>1, <1>16, ClosedIs
  <2>3. w = e.needIdr
    BY <2>2, <1>10
  <2>4. z = e
    BY <2>3, <1>11 DEF TapClients
  <2> QED BY <2>1, <2>4
<1>17. Len(r.sent) <= room /\ r.sent \in Seq(Chunks) /\ Fit(g \o r.sent, TRUE, n)
  BY <1>8, <1>13
<1>18. ~s.active => ~z.active /\ r.sent = <<>>
  BY <1>5, <1>8, <1>9, <1>13, <1>14
<1>19. z.active => e.active /\ z.conn = s.conn /\ z.sid = s.sid
  BY <1>5, <1>8, <1>9, <1>14
<1>22. ~z.active => ~e.active
  BY <1>14
<1>24. r = [slot |-> r.slot, sent |-> r.sent]
  <2>1. r = [[slot |-> e, sent |-> f.sent] EXCEPT !.slot.needIdr = w]
    BY <1>21, <1>9, <1>12
  <2> QED BY <2>1
<1> QED BY <1>13, <1>24, <1>15, <1>16, <1>17, <1>18, <1>19, <1>22, Zenon DEF Delivered

(* All stages of h264_tap_publish for one slot. *)
LEMMA PublishIs ==
  ASSUME units \in Nat, NEW sid \in Sids, NEW p \in Payloads, NEW u, u = Unit(sid, p),
         NEW s \in TapClients, s.active, NEW g \in Seq(Chunks), Sound(s, g, units),
         NEW n \in Nat, n = units + 1, NEW stalled, NEW room \in Nat,
         NEW r, r = PublishTo(s, p, u, stalled, room)
  PROVE  Delivered(r, s, g, room, n)
<1>1. PICK c \in TapClients : c = Cached(s, p, u)
  BY CachedIs
<1>2. /\ Sound(c, g, n) /\ c.active /\ c.conn = s.conn /\ c.sid = s.sid
      /\ p.first = "sps" => c.sps = u
  BY <1>1, CachedIs
<1>3. PICK d : d = IF c.out # <<>> /\ stalled THEN GivenUp(c) ELSE c
  OBVIOUS
<1>4. /\ d \in TapClients /\ Sound(d, g, n) /\ d.active /\ d.conn = c.conn /\ d.sid = c.sid
      /\ d.sps = c.sps
  <2>1. CASE c.out # <<>> /\ stalled
    <3>1. d = GivenUp(c)
      BY <1>3, <2>1
    <3> QED BY <3>1, <1>1, <1>2, GivenUpIs
  <2>2. CASE ~(c.out # <<>> /\ stalled)
    <3>1. d = c
      BY <1>3, <2>2
    <3> QED BY <3>1, <1>1, <1>2
  <2> QED BY <2>1, <2>2
<1>5. PICK f : f = Flush(d, room)
  OBVIOUS
<1>6. Flushed(f, d, g, room, n)
  BY <1>4, <1>5, FlushIs
<1>7. PICK e \in TapClients : e = f.slot
  BY <1>6 DEF Flushed
<1>8. /\ f.sent \in Seq(Chunks) /\ Len(f.sent) <= room /\ Fit(g \o f.sent, TRUE, n)
      /\ f = [slot |-> e, sent |-> f.sent]
      /\ e.active => e.conn = s.conn /\ e.sid = s.sid /\ e.sps = c.sps
      /\ e.active => Sound(e, g \o f.sent, n)
      /\ ~e.active => f.sent = <<>> /\ Sound(e, <<>>, n)
  BY <1>2, <1>4, <1>6, <1>7 DEF Flushed
<1>9. CASE (e.active /\ e.out # <<>>) \/ (e.needIdr /\ ~p.idr)
  <2>1. r = f
    BY <1>1, <1>3, <1>5, <1>7, <1>9 DEF PublishTo
  <2> QED BY <2>1, <1>7, <1>8 DEF Delivered
<1>10. CASE ~((e.active /\ e.out # <<>>) \/ (e.needIdr /\ ~p.idr))
  <2>1. PICK h : h = IF e.active THEN g \o f.sent ELSE <<>>
    OBVIOUS
  <2>2. h \in Seq(Chunks) /\ Sound(e, h, n)
    <3>1. CASE e.active
      <4>1. h = g \o f.sent
        BY <2>1, <3>1
      <4> QED BY <4>1, <3>1, <1>8, Cat
    <3>2. CASE ~e.active
      <4>1. h = <<>>
        BY <2>1, <3>2
      <4> QED BY <4>1, <3>2, <1>8, EmptyIs
    <3> QED BY <3>1, <3>2
  <2>3. PICK left \in Nat : left = room - Len(f.sent)
    BY <1>8
  <2>4. e.active => e.out = <<>>
    BY <1>10
  <2>5. e.needIdr => p.idr
    BY <1>10
  <2>6. p.first = "sps" => e.sps = u \/ ~e.needIdr
    <3>1. CASE e.active
      BY <3>1, <1>2, <1>8
    <3>2. CASE ~e.active
      BY <3>2, <1>7, <2>2, ClosedIs
    <3> QED BY <3>1, <3>2
  <2>7. PICK l : l = Deliver(e, p, u, left)
    OBVIOUS
  <2>8. Delivered(l, e, h, left, n)
    BY <1>7, <2>2, <2>4, <2>5, <2>6, <2>7, DeliverIs
  <2>9. r = [l EXCEPT !.sent = f.sent \o l.sent]
    BY <1>1, <1>3, <1>5, <1>7, <1>10, <2>3, <2>7 DEF PublishTo
  <2>10. PICK y \in TapClients, z \in Seq(Chunks) : y = l.slot /\ z = l.sent
    BY <2>8 DEF Delivered
  <2>11. l = [slot |-> y, sent |-> z]
    BY <2>8, <2>10 DEF Delivered
  <2>12. r.slot = y /\ r.sent = f.sent \o z
    BY <2>9, <2>10, <2>11
  <2>13. f.sent \o z \in Seq(Chunks) /\ Len(f.sent \o z) = Len(f.sent) + Len(z)
         /\ g \o (f.sent \o z) = (g \o f.sent) \o z
    <3>1. f.sent \in Seq(Chunks)
      BY <1>8
    <3>2. PICK v \in Seq(Chunks) : v = f.sent
      BY <3>1
    <3>3. v \o z \in Seq(Chunks) /\ Len(v \o z) = Len(v) + Len(z)
      BY Cat
    <3>4. g \o (v \o z) = (g \o v) \o z
      BY Assoc
    <3> QED BY <3>2, <3>3, <3>4
  <2>14. Len(r.sent) <= room
    <3>1. Len(z) <= left /\ Len(z) \in Nat /\ Len(f.sent) \in Nat
      BY <1>8, <2>8, <2>10 DEF Delivered
    <3> QED BY <3>1, <2>3, <2>12, <2>13
  <2>17. r = [slot |-> r.slot, sent |-> r.sent]
    <3>1. r = [slot |-> y, sent |-> f.sent \o z]
      BY <2>9, <2>11
    <3> QED BY <3>1
  <2>15. ASSUME e.active PROVE Delivered(r, s, g, room, n)
    <3>1. g \o r.sent = h \o z
      BY <2>1, <2>12, <2>13, <2>15
    <3>2. /\ y.active => y.conn = e.conn /\ y.sid = e.sid
          /\ y.active => Sound(y, h \o z, n)
          /\ ~y.active => Sound(y, <<>>, n)
          /\ Fit(h \o z, TRUE, n)
      BY <2>8, <2>10 DEF Delivered
    <3> QED BY <3>1, <3>2, <2>10, <2>12, <2>13, <2>14, <2>15, <2>17, <1>8 DEF Delivered
  <2>16. ASSUME ~e.active PROVE Delivered(r, s, g, room, n)
    <3>1. ~y.active /\ z = <<>> /\ Sound(y, <<>>, n)
      BY <2>8, <2>10, <2>16 DEF Delivered
    <3>2. r.sent = f.sent
      BY <3>1, <2>12, <1>8
    <3> QED BY <3>1, <3>2, <2>10, <2>12, <2>14, <2>17, <1>8 DEF Delivered
  <2> QED BY <2>15, <2>16
<1> QED BY <1>9, <1>10

-----------------------------------------------------------------------------
(* The invariant is kept.                                                  *)
TapIInv == TapInv /\ SentWell

(* The accept thread has a connection only on the way to the table. *)
LEMMA AcceptorIs ==
  ASSUME TapTypeOK
  PROVE  /\ acceptor.at = "place" => acceptor.conn \in Subscribers /\ acceptor.sid \in Sids
         /\ acceptor.at # "place" => acceptor.conn = NoConn /\ acceptor.sid = 0
         /\ acceptor.at \in {"none", "loop", "ended", "place"}
BY DEF TapTypeOK

LEMMA IdleAt ==
  ASSUME NEW a \in {"none", "loop", "ended"}, NEW x, x = [Idle EXCEPT !.at = a]
  PROVE  /\ x \in [at : {"none", "loop", "ended"}, conn : {NoConn}, sid : {0}]
         /\ x.at = a /\ x.conn = NoConn /\ x.sid = 0
BY DEF Idle

LEMMA InUse ==
  ASSUME TapTypeOK, NEW i \in Slots
  PROVE  /\ slot[i] \in TapClients
         /\ slot[i].active => slot[i].conn \in Subscribers
         /\ ~slot[i].active => slot[i].conn = NoConn
         /\ slot[i].active \in BOOLEAN
<1>1. slot[i] \in TapClients
  BY DEF TapTypeOK
<1>2. slot[i].conn \in Subscribers \cup {NoConn} /\ slot[i].active \in BOOLEAN
  BY <1>1, SlotIs
<1>3. slot[i].active <=> slot[i].conn # NoConn
  BY DEF TapTypeOK
<1> QED BY <1>1, <1>2, <1>3, Zenon

LEMMA TapInitIInv ==
  ASSUME TapInit PROVE TapIInv
<1>1. TapTypeOK
  <2>1. slot \in [Slots -> TapClients] /\ \A i \in Slots : slot[i] = FreeSlot
    BY FreeIs DEF TapInit
  <2>2. \A i \in Slots : slot[i].active <=> slot[i].conn # NoConn
    BY <2>1, FreeIs
  <2>3. got \in [Subscribers -> Seq(Chunks)]
    BY EmptyIs DEF TapInit
  <2>4. unread \in [Subscribers -> 0 .. Room]
    BY TapAssumption DEF TapInit
  <2>5. acceptor \in [at : {"none", "loop", "ended"}, conn : {NoConn}, sid : {0}]
    BY DEF TapInit, Idle
  <2>6. peer \in [Subscribers -> [state : {"away", "open", "gone"}, asked : Sids,
                                  line : {"unsent", "arrived", "read"}]]
    BY TapAssumption DEF TapInit
  <2>7. /\ started \in BOOLEAN /\ running \in BOOLEAN /\ port \in {"free", "listening"}
        /\ handler \in [Publishers -> {"idle", "clear", "listen", "run", "tell", "publish"}]
        /\ fd \in [Subscribers -> {"none", "open", "closed"}]
        /\ units \in Nat /\ main \in {"run", "stopping", "stopped"}
    BY DEF TapInit
  <2> QED BY <2>1, <2>2, <2>3, <2>4, <2>5, <2>6, <2>7 DEF TapTypeOK
<1>2. \A i \in Slots : slot[i] = FreeSlot /\ ~slot[i].active
  BY FreeIs DEF TapInit
<1>3. acceptor.at = "none" /\ acceptor.conn = NoConn
  BY DEF TapInit, Idle
<1>4. TapStartInv
  BY <1>2, <1>3 DEF TapInit, TapStartInv
<1>5. Descriptors
  <2>1. \A c \in Subscribers : fd[c] = "none" /\ acceptor.conn # c
    BY <1>3, TapAssumption DEF TapInit
  <2> QED BY <1>2, <2>1 DEF Descriptors, InSlot
<1>6. ContentInv
  <2>1. ASSUME NEW i \in Slots PROVE Sound(slot[i], SentTo(slot[i]), units)
    <3>1. SentTo(slot[i]) = <<>> /\ slot[i] = FreeSlot
      BY <1>2 DEF SentTo
    <3>2. units \in Nat
      BY DEF TapInit
    <3> QED BY <3>1, <3>2, FreeSound
  <2> QED BY <2>1 DEF ContentInv
<1>7. SentInv /\ FreshInv
  <2>1. \A c \in Subscribers : got[c] = <<>>
    BY DEF TapInit
  <2>2. units \in Nat
    BY DEF TapInit
  <2>3. \A c \in Subscribers : Fit(got[c], TRUE, units)
    BY <2>1, <2>2, EmptyIs
  <2> QED BY <2>1, <2>3 DEF SentInv, FreshInv
<1> QED BY <1>1, <1>4, <1>5, <1>6, <1>7 DEF TapIInv, TapInv, SentWell

(* A step that touches neither slots nor descriptors nor what is sent. *)
LEMMA SlotsKept ==
  ASSUME TapIInv, slot' = slot, fd' = fd, got' = got, units' = units,
         acceptor'.conn = acceptor.conn
  PROVE  Descriptors' /\ SentWell'
<1>1. Descriptors'
  BY DEF TapIInv, TapInv, Descriptors, InSlot
<1>2. ContentInv' /\ SentInv' /\ FreshInv'
  BY DEF TapIInv, SentWell, ContentInv, SentInv, FreshInv, SentTo
<1> QED BY <1>1, <1>2 DEF SentWell

(* A handler on its way through maybe_start_h264_tap. *)
LEMMA LookKeeps ==
  ASSUME TapIInv, OneStarter', NEW h \in Publishers, LookStarted(h) PROVE TapIInv'
<1>1. TapTypeOK'
  BY DEF TapIInv, TapInv, TapTypeOK, LookStarted, GoOn, StartQuiet, connVars
<1>2. TapStartInv'
  <2>1. /\ acceptor' = acceptor /\ slot' = slot /\ main' = main /\ started' = started
        /\ main = "run" /\ handler[h] = "idle"
        /\ handler' = [handler EXCEPT ![h] = IF started THEN "publish" ELSE "clear"]
        /\ handler \in [Publishers -> {"idle", "clear", "listen", "run", "tell", "publish"}]
    BY DEF LookStarted, GoOn, StartQuiet, connVars, TapIInv, TapInv, TapTypeOK
  <2>2. \A k \in Publishers : k # h => handler'[k] = handler[k]
    BY <2>1
  <2>3. handler'[h] = IF started THEN "publish" ELSE "clear"
    BY <2>1
  <2>4. ASSUME acceptor.at # "none", ~started PROVE FALSE
    <3>1. PICK k \in Publishers : handler[k] = "tell"
      BY <2>1, <2>4 DEF TapIInv, TapInv, TapStartInv
    <3>2. k # h /\ handler'[k] = "tell" /\ handler'[h] = "clear"
      BY <2>1, <2>2, <2>3, <2>4, <3>1
    <3> QED BY <3>2 DEF OneStarter, InStart
  <2>5. \A k \in Publishers : handler'[k] \in {"clear", "listen", "run"} => acceptor.at = "none"
    BY <2>2, <2>3, <2>4 DEF TapIInv, TapInv, TapStartInv
  <2>6. /\ main' # "run" => \A k \in Publishers : handler'[k] = "idle"
        /\ acceptor'.at = "none" => \A i \in Slots : ~slot'[i].active
    BY <2>1 DEF TapIInv, TapInv, TapStartInv
  <2>7. acceptor'.at # "none" => started'
    BY <2>1, <2>4
  <2> QED BY <2>1, <2>5, <2>6, <2>7 DEF TapStartInv
<1>3. Descriptors' /\ SentWell'
  BY SlotsKept DEF LookStarted, StartQuiet, connVars
<1> QED BY <1>1, <1>2, <1>3 DEF TapIInv, TapInv

LEMMA ClearKeeps ==
  ASSUME TapIInv, NEW h \in Publishers, ClearTap(h) PROVE TapIInv'
<1>0. /\ handler[h] = "clear" /\ acceptor' = acceptor /\ main' = main /\ started' = started
      /\ handler' = [handler EXCEPT ![h] = "listen"]
      /\ slot' = [i \in Slots |-> FreeSlot]
      /\ fd' = fd /\ got' = got /\ units' = units /\ unread' = unread /\ peer' = peer
      /\ running' = FALSE /\ port' = port
      /\ handler \in [Publishers -> {"idle", "clear", "listen", "run", "tell", "publish"}]
  BY DEF ClearTap, GoOn, StartQuiet, connVars, TapIInv, TapInv, TapTypeOK
<1>1. acceptor.at = "none" /\ \A i \in Slots : ~slot[i].active
  BY <1>0 DEF TapIInv, TapInv, TapStartInv
<1>2. \A i \in Slots : slot'[i] = FreeSlot /\ ~slot'[i].active /\ slot'[i].conn = NoConn
  BY <1>0, FreeIs
<1>3. TapTypeOK'
  <2>1. slot' \in [Slots -> TapClients] /\ \A i \in Slots : slot'[i].active <=> slot'[i].conn # NoConn
    BY <1>0, <1>2, FreeIs
  <2>2. handler' \in [Publishers -> {"idle", "clear", "listen", "run", "tell", "publish"}]
    BY <1>0
  <2> QED BY <1>0, <2>1, <2>2 DEF TapIInv, TapInv, TapTypeOK
<1>4. TapStartInv'
  BY <1>0, <1>1, <1>2 DEF TapIInv, TapInv, TapStartInv
<1>5. Descriptors'
  BY <1>0, <1>1, <1>2 DEF TapIInv, TapInv, Descriptors, InSlot
<1>6. ContentInv'
  <2>1. ASSUME NEW i \in Slots
        PROVE  Sound(slot'[i], IF slot'[i].active THEN got'[slot'[i].conn] ELSE <<>>, units')
    <3>1. units' \in Nat
      BY <1>3 DEF TapTypeOK
    <3>2. Sound(FreeSlot, <<>>, units')
      BY <3>1, FreeSound
    <3> QED BY <3>2, <1>2
  <2> QED BY <2>1 DEF ContentInv, SentTo
<1>7. SentInv' /\ FreshInv'
  BY <1>0 DEF TapIInv, SentWell, SentInv, FreshInv
<1> QED BY <1>3, <1>4, <1>5, <1>6, <1>7 DEF TapIInv, TapInv, SentWell

LEMMA ListenKeeps ==
  ASSUME TapIInv, NEW h \in Publishers, Listen(h) \/ RunFails(h) PROVE TapIInv'
<1>0. /\ handler[h] \in {"listen", "run"} /\ acceptor' = acceptor /\ main' = main
      /\ started' = started /\ slot' = slot /\ port' \in {"free", "listening"}
      /\ running' \in BOOLEAN
      /\ \E to \in {"run", "publish"} : handler' = [handler EXCEPT ![h] = to]
      /\ fd' = fd /\ got' = got /\ units' = units /\ unread' = unread /\ peer' = peer
      /\ handler \in [Publishers -> {"idle", "clear", "listen", "run", "tell", "publish"}]
  BY DEF Listen, RunFails, GoOn, StartQuiet, connVars, TapIInv, TapInv, TapTypeOK
<1>1. PICK to \in {"run", "publish"} : handler' = [handler EXCEPT ![h] = to]
  BY <1>0
<1>2. acceptor.at = "none"
  BY <1>0 DEF TapIInv, TapInv, TapStartInv
<1>3. TapTypeOK'
  <2>1. handler' \in [Publishers -> {"idle", "clear", "listen", "run", "tell", "publish"}]
    BY <1>0, <1>1
  <2> QED BY <1>0, <2>1 DEF TapIInv, TapInv, TapTypeOK
<1>4. TapStartInv'
  BY <1>0, <1>2 DEF TapIInv, TapInv, TapStartInv
<1>5. Descriptors' /\ SentWell'
  BY <1>0, SlotsKept
<1> QED BY <1>3, <1>4, <1>5 DEF TapIInv, TapInv

LEMMA RunKeeps ==
  ASSUME TapIInv, OneStarter, NEW h \in Publishers, RunTap(h) PROVE TapIInv'
<1>0. /\ handler[h] = "run" /\ acceptor' = [Idle EXCEPT !.at = "loop"] /\ main' = main
      /\ started' = started /\ slot' = slot /\ port' = port /\ running' = TRUE
      /\ handler' = [handler EXCEPT ![h] = "tell"]
      /\ fd' = fd /\ got' = got /\ units' = units /\ unread' = unread /\ peer' = peer
      /\ handler \in [Publishers -> {"idle", "clear", "listen", "run", "tell", "publish"}]
  BY DEF RunTap, GoOn, StartQuiet, connVars, TapIInv, TapInv, TapTypeOK
<1>1. acceptor.at = "none" /\ acceptor.conn = NoConn
  BY <1>0, AcceptorIs DEF TapIInv, TapInv, TapStartInv
<1>2. /\ acceptor' \in [at : {"none", "loop", "ended"}, conn : {NoConn}, sid : {0}]
      /\ acceptor'.at = "loop" /\ acceptor'.conn = NoConn
  BY <1>0, IdleAt
<1>3. TapTypeOK'
  <2>1. handler' \in [Publishers -> {"idle", "clear", "listen", "run", "tell", "publish"}]
    BY <1>0
  <2> QED BY <1>0, <1>2, <2>1 DEF TapIInv, TapInv, TapTypeOK
<1>4. TapStartInv'
  <2>1. handler'[h] = "tell" /\ \A k \in Publishers : k # h => handler'[k] = handler[k]
    BY <1>0
  <2>2. \A k \in Publishers : k # h => handler[k] \notin InStart
    BY <1>0 DEF OneStarter, InStart
  <2>3. \A k \in Publishers : handler'[k] \notin {"clear", "listen", "run"}
    BY <2>1, <2>2 DEF InStart
  <2>4. main = "run"
    BY <1>0 DEF TapIInv, TapInv, TapStartInv
  <2> QED BY <1>0, <1>2, <2>1, <2>3, <2>4 DEF TapStartInv
<1>5. Descriptors' /\ SentWell'
  BY <1>0, <1>1, <1>2, SlotsKept
<1> QED BY <1>3, <1>4, <1>5 DEF TapIInv, TapInv

LEMMA TellKeeps ==
  ASSUME TapIInv, NEW h \in Publishers, TellStarted(h) PROVE TapIInv'
<1>0. /\ handler[h] = "tell" /\ acceptor' = acceptor /\ main' = main
      /\ started' = TRUE /\ slot' = slot /\ port' = port /\ running' = running
      /\ handler' = [handler EXCEPT ![h] = "publish"]
      /\ fd' = fd /\ got' = got /\ units' = units /\ unread' = unread /\ peer' = peer
      /\ handler \in [Publishers -> {"idle", "clear", "listen", "run", "tell", "publish"}]
  BY DEF TellStarted, GoOn, StartQuiet, connVars, TapIInv, TapInv, TapTypeOK
<1>1. TapTypeOK'
  <2>1. handler' \in [Publishers -> {"idle", "clear", "listen", "run", "tell", "publish"}]
    BY <1>0
  <2> QED BY <1>0, <2>1 DEF TapIInv, TapInv, TapTypeOK
<1>2. TapStartInv'
  BY <1>0 DEF TapIInv, TapInv, TapStartInv
<1>3. Descriptors' /\ SentWell'
  BY <1>0, SlotsKept
<1> QED BY <1>1, <1>2, <1>3 DEF TapIInv, TapInv

(* The subscribers. *)
LEMMA PeersKeep ==
  ASSUME TapIInv, NEW c \in Subscribers, Subscribe(c) \/ SendLine(c) \/ ReadChunk(c) \/ Leave(c)
  PROVE  TapIInv'
<1>0. /\ handler' = handler /\ acceptor' = acceptor /\ main' = main
      /\ started' = started /\ slot' = slot /\ port' = port /\ running' = running
      /\ fd' = fd /\ got' = got /\ units' = units
  BY DEF Subscribe, SendLine, ReadChunk, Leave, PeerQuiet, startVars
<1>1. /\ peer' \in [Subscribers -> [state : {"away", "open", "gone"}, asked : Sids,
                                   line : {"unsent", "arrived", "read"}]]
      /\ unread' \in [Subscribers -> 0 .. Room]
  <2>1. /\ peer \in [Subscribers -> [state : {"away", "open", "gone"}, asked : Sids,
                                     line : {"unsent", "arrived", "read"}]]
        /\ unread \in [Subscribers -> 0 .. Room] /\ Room \in Nat
    BY TapAssumption DEF TapIInv, TapInv, TapTypeOK
  <2>2. CASE Subscribe(c)
    <3>1. PICK sid \in Sids : peer' = [peer EXCEPT ![c].state = "open", ![c].asked = sid]
      BY <2>2 DEF Subscribe
    <3>2. peer[c] \in [state : {"away", "open", "gone"}, asked : Sids,
                       line : {"unsent", "arrived", "read"}]
      BY <2>1
    <3>3. unread' = unread
      BY <2>2 DEF Subscribe
    <3>4. PICK r : r = [peer[c] EXCEPT !.state = "open", !.asked = sid]
      OBVIOUS
    <3>5. r \in [state : {"away", "open", "gone"}, asked : Sids,
                 line : {"unsent", "arrived", "read"}]
      BY <3>2, <3>4
    <3>6. peer' = [peer EXCEPT ![c] = r]
      BY <2>1, <3>1, <3>4
    <3>7. peer' \in [Subscribers -> [state : {"away", "open", "gone"}, asked : Sids,
                                     line : {"unsent", "arrived", "read"}]]
      BY <2>1, <3>5, <3>6
    <3> QED BY <2>1, <3>3, <3>7
  <2>3. CASE SendLine(c)
    BY <2>1, <2>3 DEF SendLine
  <2>4. CASE ReadChunk(c)
    <3>1. peer' = peer /\ unread[c] > 0 /\ unread' = [unread EXCEPT ![c] = unread[c] - 1]
      BY <2>4 DEF ReadChunk
    <3> QED BY <2>1, <3>1
  <2>5. CASE Leave(c)
    BY <2>1, <2>5 DEF Leave
  <2> QED BY <2>2, <2>3, <2>4, <2>5
<1>2. TapTypeOK'
  BY <1>0, <1>1 DEF TapIInv, TapInv, TapTypeOK
<1>3. TapStartInv'
  BY <1>0 DEF TapIInv, TapInv, TapStartInv
<1>4. Descriptors' /\ SentWell'
  BY <1>0, SlotsKept
<1> QED BY <1>2, <1>3, <1>4 DEF TapIInv, TapInv

(* The accept thread. *)
LEMMA AcceptKeeps ==
  ASSUME TapIInv, Accept PROVE TapIInv'
<1>0. /\ handler' = handler /\ main' = main /\ started' = started /\ slot' = slot
      /\ port' = port /\ running' = running /\ unread' = unread
      /\ got' = got /\ units' = units /\ acceptor.at = "loop"
  BY DEF Accept, AcceptQuiet, startVars
<1>1. PICK c \in Subscribers, sid \in Sids :
        /\ fd[c] = "none" /\ fd' = [fd EXCEPT ![c] = "open"]
        /\ acceptor' = [at |-> "place", conn |-> c, sid |-> sid]
        /\ peer' = [peer EXCEPT ![c].line = "read"] \/ peer' = peer
  <2>1. PICK c \in Subscribers :
          /\ fd[c] = "none" /\ fd' = [fd EXCEPT ![c] = "open"]
          /\ acceptor' = [at |-> "place", conn |-> c,
                          sid |-> IF peer[c].line = "arrived" THEN peer[c].asked ELSE 1]
          /\ peer' = IF peer[c].line = "arrived" THEN [peer EXCEPT ![c].line = "read"] ELSE peer
    BY DEF Accept
  <2>2. peer[c].asked \in Sids /\ 1 \in Sids
    BY TapAssumption DEF TapIInv, TapInv, TapTypeOK
  <2>3. PICK sid \in Sids : sid = IF peer[c].line = "arrived" THEN peer[c].asked ELSE 1
    BY <2>2
  <2>4. acceptor' = [at |-> "place", conn |-> c, sid |-> sid]
    BY <2>1, <2>3
  <2>5. peer' = [peer EXCEPT ![c].line = "read"] \/ peer' = peer
    BY <2>1
  <2> QED BY <2>1, <2>4, <2>5
<1>2. acceptor.conn = NoConn
  BY <1>0, AcceptorIs DEF TapIInv, TapInv
<1>3. TapTypeOK'
  <2>1. acceptor' \in [at : {"place"}, conn : Subscribers, sid : Sids]
    BY <1>1
  <2>2. /\ peer' \in [Subscribers -> [state : {"away", "open", "gone"}, asked : Sids,
                                     line : {"unsent", "arrived", "read"}]]
        /\ fd' \in [Subscribers -> {"none", "open", "closed"}]
    <3>1. /\ peer \in [Subscribers -> [state : {"away", "open", "gone"}, asked : Sids,
                                       line : {"unsent", "arrived", "read"}]]
          /\ fd \in [Subscribers -> {"none", "open", "closed"}]
      BY DEF TapIInv, TapInv, TapTypeOK
    <3>2. fd' \in [Subscribers -> {"none", "open", "closed"}]
      BY <1>1, <3>1
    <3>3. CASE peer' = peer
      BY <3>1, <3>2, <3>3
    <3>4. CASE peer' = [peer EXCEPT ![c].line = "read"]
      <4>1. peer' \in [Subscribers -> [state : {"away", "open", "gone"}, asked : Sids,
                                       line : {"unsent", "arrived", "read"}]]
        BY <3>1, <3>4
      <4> QED BY <4>1, <3>2
    <3> QED BY <1>1, <3>3, <3>4
  <2> QED BY <1>0, <2>1, <2>2 DEF TapIInv, TapInv, TapTypeOK
<1>4. TapStartInv'
  <2>1. acceptor'.at = "place"
    BY <1>1
  <2> QED BY <1>0, <2>1 DEF TapIInv, TapInv, TapStartInv
<1>5. fd'[c] = "open" /\ \A d \in Subscribers : d # c => fd'[d] = fd[d]
  BY <1>1 DEF TapIInv, TapInv, TapTypeOK
<1>6. acceptor'.conn = c
  BY <1>1
<1>7. \A d \in Subscribers : acceptor.conn # d
  BY <1>2, TapAssumption
<1>8. Descriptors'
  <2>1. ~InSlot(c)
    BY <1>1 DEF TapIInv, TapInv, Descriptors
  <2>2. \A d : InSlot(d)' <=> InSlot(d)
    BY <1>0 DEF InSlot
  <2>3. ASSUME NEW d \in Subscribers
        PROVE  /\ fd'[d] = "open" <=> InSlot(d)' \/ acceptor'.conn = d
               /\ acceptor'.conn = d => ~InSlot(d)'
    BY <1>5, <1>6, <1>7, <2>1, <2>2, <2>3 DEF TapIInv, TapInv, Descriptors
  <2>4. \A d \in Subscribers : \A i, j \in Slots :
          slot'[i].active /\ slot'[i].conn = d /\ slot'[j].active /\ slot'[j].conn = d => i = j
    BY <1>0 DEF TapIInv, TapInv, Descriptors
  <2> QED BY <2>3, <2>4 DEF Descriptors
<1>9. ContentInv' /\ SentInv'
  BY <1>0 DEF TapIInv, SentWell, ContentInv, SentInv, SentTo
<1>10. FreshInv'
  <2>1. got[c] = <<>>
    BY <1>1 DEF TapIInv, SentWell, FreshInv
  <2>2. \A d \in Subscribers : fd'[d] = "none" \/ acceptor'.conn = d => got'[d] = <<>>
    BY <1>0, <1>5, <1>6, <2>1 DEF TapIInv, SentWell, FreshInv
  <2> QED BY <2>2 DEF FreshInv
<1> QED BY <1>3, <1>4, <1>8, <1>9, <1>10 DEF TapIInv, TapInv, SentWell

LEMMA EndKeeps ==
  ASSUME TapIInv, AcceptorEnds \/ StopTap PROVE TapIInv'
<1>0. /\ handler' = handler /\ started' = started /\ slot' = slot
      /\ unread' = unread /\ peer' = peer /\ fd' = fd
      /\ got' = got /\ units' = units
  BY DEF AcceptorEnds, StopTap, AcceptQuiet, startVars, connVars
<1>1. CASE AcceptorEnds
  <2>1. /\ acceptor.at = "loop" /\ acceptor' = [Idle EXCEPT !.at = "ended"]
        /\ main' = main /\ running' = running /\ port' = port
    BY <1>1 DEF AcceptorEnds, AcceptQuiet, startVars
  <2>2. /\ acceptor' \in [at : {"none", "loop", "ended"}, conn : {NoConn}, sid : {0}]
        /\ acceptor'.at = "ended" /\ acceptor'.conn = NoConn
    BY <2>1, IdleAt
  <2>3. acceptor.conn = NoConn
    BY <2>1, AcceptorIs DEF TapIInv, TapInv
  <2>4. TapTypeOK'
    BY <1>0, <2>1, <2>2 DEF TapIInv, TapInv, TapTypeOK
  <2>5. TapStartInv'
    BY <1>0, <2>1, <2>2 DEF TapIInv, TapInv, TapStartInv
  <2>6. Descriptors' /\ SentWell'
    BY <1>0, <2>2, <2>3, SlotsKept
  <2> QED BY <2>4, <2>5, <2>6 DEF TapIInv, TapInv
<1>2. CASE StopTap
  <2>1. /\ acceptor' = acceptor /\ main' = "stopping" /\ running' = FALSE /\ port' = "free"
        /\ \A h \in Publishers : handler[h] = "idle"
    BY <1>2 DEF StopTap
  <2>2. TapTypeOK'
    BY <1>0, <2>1 DEF TapIInv, TapInv, TapTypeOK
  <2>3. TapStartInv'
    BY <1>0, <2>1 DEF TapIInv, TapInv, TapStartInv
  <2>4. Descriptors' /\ SentWell'
    BY <1>0, <2>1, SlotsKept
  <2> QED BY <2>2, <2>3, <2>4 DEF TapIInv, TapInv
<1> QED BY <1>1, <1>2

(* h264_tap_stop closes what is in the table. *)
LEMMA CloseKeeps ==
  ASSUME TapIInv, CloseSlots PROVE TapIInv'
<1>0. /\ main = "stopping" /\ acceptor.at = "ended"
      /\ main' = "stopped" /\ started' = FALSE
      /\ fd' = [c \in Subscribers |->
                  IF \E i \in Slots : slot[i].active /\ slot[i].conn = c THEN "closed" ELSE fd[c]]
      /\ slot' = [i \in Slots |-> IF slot[i].active THEN FreeSlot ELSE slot[i]]
      /\ running' = running /\ port' = port /\ handler' = handler /\ acceptor' = acceptor
      /\ peer' = peer /\ unread' = unread /\ got' = got /\ units' = units
  BY DEF CloseSlots
<1>1. acceptor.conn = NoConn
  BY <1>0, AcceptorIs DEF TapIInv, TapInv
<1>2. ASSUME NEW i \in Slots
      PROVE  /\ slot'[i] = IF slot[i].active THEN FreeSlot ELSE slot[i]
             /\ slot'[i] \in TapClients /\ ~slot'[i].active /\ slot'[i].conn = NoConn
  <2>1. slot'[i] = IF slot[i].active THEN FreeSlot ELSE slot[i]
    BY <1>0
  <2>2. CASE slot[i].active
    BY <2>1, <2>2, FreeIs
  <2>3. CASE ~slot[i].active
    BY <2>1, <2>3, InUse DEF TapIInv, TapInv
  <2> QED BY <2>1, <2>2, <2>3
<1>3. TapTypeOK'
  <2>1. slot' \in [Slots -> TapClients]
    BY <1>0, <1>2
  <2>2. \A i \in Slots : slot'[i].active <=> slot'[i].conn # NoConn
    BY <1>2
  <2>3. fd' \in [Subscribers -> {"none", "open", "closed"}]
    BY <1>0 DEF TapIInv, TapInv, TapTypeOK
  <2> QED BY <1>0, <2>1, <2>2, <2>3 DEF TapIInv, TapInv, TapTypeOK
<1>4. TapStartInv'
  BY <1>0, <1>2 DEF TapIInv, TapInv, TapStartInv
<1>5. Descriptors'
  <2>1. \A c : ~InSlot(c)'
    BY <1>2 DEF InSlot
  <2>2. ASSUME NEW c \in Subscribers PROVE fd'[c] # "open" /\ acceptor'.conn # c
    <3>1. acceptor'.conn # c /\ acceptor.conn # c
      BY <1>0, <1>1, TapAssumption
    <3>2. CASE InSlot(c)
      BY <1>0, <3>1, <3>2 DEF InSlot
    <3>3. CASE ~InSlot(c)
      <4>1. fd'[c] = fd[c]
        BY <1>0, <3>3 DEF InSlot
      <4>2. fd[c] # "open"
        BY <3>1, <3>3 DEF TapIInv, TapInv, Descriptors
      <4> QED BY <3>1, <4>1, <4>2
    <3> QED BY <3>2, <3>3
  <2>3. \A c \in Subscribers : \A i, j \in Slots :
          slot'[i].active /\ slot'[i].conn = c /\ slot'[j].active /\ slot'[j].conn = c => i = j
    BY <1>2
  <2> QED BY <2>1, <2>2, <2>3 DEF Descriptors
<1>6. ContentInv'
  <2>1. ASSUME NEW i \in Slots
        PROVE  Sound(slot'[i], IF slot'[i].active THEN got'[slot'[i].conn] ELSE <<>>, units')
    <3>1. units \in Nat /\ units' = units
      BY <1>0 DEF TapIInv, TapInv, TapTypeOK
    <3>2. ~slot'[i].active
      BY <1>2
    <3>3. Sound(slot'[i], <<>>, units')
      <4>1. CASE slot[i].active
        BY <1>2, <3>1, <4>1, FreeSound
      <4>2. CASE ~slot[i].active
        <5>1. Sound(slot[i], <<>>, units)
          BY <4>2 DEF TapIInv, SentWell, ContentInv, SentTo
        <5> QED BY <5>1, <1>2, <3>1, <4>2
      <4> QED BY <4>1, <4>2
    <3> QED BY <3>2, <3>3
  <2> QED BY <2>1 DEF ContentInv, SentTo
<1>7. SentInv' /\ FreshInv'
  <2>1. \A c \in Subscribers : fd'[c] = "none" => fd[c] = "none"
    BY <1>0
  <2> QED BY <1>0, <2>1 DEF TapIInv, SentWell, SentInv, FreshInv
<1> QED BY <1>3, <1>4, <1>5, <1>6, <1>7 DEF TapIInv, TapInv, SentWell

(* prune_dead_clients_locked, and the first free slot. *)
LEMMA PrunedIs ==
  ASSUME TapIInv, NEW i \in Slots
  PROVE  /\ Pruned[i] \in TapClients
         /\ Pruned[i].active => ~Dead(i) /\ Pruned[i] = slot[i] /\ slot[i].active
         /\ ~Pruned[i].active => Pruned[i].conn = NoConn /\ Sound(Pruned[i], <<>>, units)
         /\ slot[i].active /\ ~Dead(i) => Pruned[i] = slot[i]
<1>1. Pruned[i] = IF Dead(i) THEN FreeSlot ELSE slot[i]
  BY DEF Pruned
<1>2. Dead(i) => slot[i].active
  BY DEF Dead
<1>3. units \in Nat /\ slot[i] \in TapClients /\ (~slot[i].active => slot[i].conn = NoConn)
  BY InUse DEF TapIInv, TapInv, TapTypeOK
<1>4. CASE Dead(i)
  BY <1>1, <1>3, <1>4, FreeIs, FreeSound
<1>5. CASE ~Dead(i)
  <2>1. ~slot[i].active => Sound(slot[i], <<>>, units)
    BY DEF TapIInv, SentWell, ContentInv, SentTo
  <2> QED BY <1>1, <1>3, <1>5, <2>1
<1> QED BY <1>4, <1>5

LEMMA LeastIs ==
  ASSUME NEW S, S \subseteq Nat, S # {}
  PROVE  \E m \in S : \A k \in S : m <= k
<1>1. IsWellFoundedOn(OpToRel(<, Nat), Nat)
  BY NatLessThanWellFounded
<1>2. PICK m \in S : \A k \in S : ~(<<k, m>> \in OpToRel(<, Nat))
  BY <1>1, WFMin
<1>3. \A k \in S : m <= k
  <2>1. ASSUME NEW k \in S PROVE m <= k
    <3>1. m \in Nat /\ k \in Nat /\ ~(k < m)
      BY <1>2 DEF OpToRel
    <3> QED BY <3>1
  <2> QED BY <2>1
<1> QED BY <1>3

(* The connection is put into the first free slot, or closed. *)
LEMMA PlaceKeeps ==
  ASSUME TapIInv, Place PROVE TapIInv'
<1>a. PICK cn, sd : cn = acceptor.conn /\ sd = acceptor.sid
  OBVIOUS
<1> DEFINE free == {i \in Slots : ~Pruned[i].active}
           First(i) == i \in free /\ \A j \in free : i <= j
           gone == {slot[i].conn : i \in {j \in Slots : Dead(j)}}
<1>0. /\ acceptor.at = "place" /\ acceptor' = [Idle EXCEPT !.at = "loop"]
      /\ fd' = [c \in Subscribers |->
                  IF c \in gone \cup (IF free = {} THEN {cn} ELSE {}) THEN "closed" ELSE fd[c]]
      /\ slot' = [i \in Slots |->
                    IF First(i) THEN [Pruned[i] EXCEPT !.active = TRUE, !.conn = cn, !.sid = sd]
                    ELSE Pruned[i]]
      /\ handler' = handler /\ main' = main /\ started' = started /\ peer' = peer
      /\ port' = port /\ running' = running /\ unread' = unread
      /\ got' = got /\ units' = units
  BY <1>a DEF Place, AcceptQuiet, startVars
<1>1. /\ cn \in Subscribers /\ cn # NoConn /\ sd \in Sids
      /\ units \in Nat /\ TapTypeOK
  BY <1>0, <1>a, AcceptorIs, TapAssumption DEF TapIInv, TapInv, TapTypeOK
<1>2. free # {} => \E i \in Slots : First(i)
  <2> SUFFICES ASSUME free # {} PROVE \E i \in Slots : First(i)
    OBVIOUS
  <2>1. free \subseteq Nat
    BY TapAssumption
  <2>2. PICK m \in free : \A k \in free : m <= k
    BY <2>1, LeastIs
  <2> QED BY <2>2
<1>3. \A i, j \in Slots : First(i) /\ First(j) => i = j
  BY TapAssumption
<1>4. \A i \in Slots : First(i) => ~Pruned[i].active
  OBVIOUS
<1>40. \A i \in Slots : ~Pruned[i].active => free # {}
  OBVIOUS
<1>41. gone \cup (IF free = {} THEN {cn} ELSE {}) \subseteq
         {c \in Subscribers \cup {NoConn} : \E i \in Slots : Dead(i) /\ slot[i].conn = c} \cup {cn}
  <2>1. \A i \in Slots : slot[i].conn \in Subscribers \cup {NoConn}
    BY <1>1, InUse, SlotIs
  <2> QED BY <2>1
<1>5. ASSUME NEW c \in Subscribers
      PROVE  /\ (\E i \in Slots : Dead(i) /\ slot[i].conn = c) => fd'[c] = "closed"
             /\ free = {} /\ c = cn => fd'[c] = "closed"
             /\ ~(\E i \in Slots : Dead(i) /\ slot[i].conn = c) /\ ~(free = {} /\ c = cn)
                  => fd'[c] = fd[c]
  <2>1. c \in gone <=> \E i \in Slots : Dead(i) /\ slot[i].conn = c
    OBVIOUS
  <2>2. c \in (IF free = {} THEN {cn} ELSE {}) <=> free = {} /\ c = cn
    OBVIOUS
  <2>3. fd'[c] = IF c \in gone \cup (IF free = {} THEN {cn} ELSE {}) THEN "closed" ELSE fd[c]
    BY <1>0
  <2> HIDE DEF gone, free
  <2> QED BY <2>1, <2>2, <2>3
<1>6. acceptor'.at = "loop" /\ acceptor'.conn = NoConn
      /\ acceptor' \in [at : {"none", "loop", "ended"}, conn : {NoConn}, sid : {0}]
  BY <1>0, IdleAt
<1>7. ASSUME NEW i \in Slots, First(i)
      PROVE  /\ slot'[i] \in TapClients /\ slot'[i].active /\ slot'[i].conn = cn
             /\ Sound(slot'[i], <<>>, units)
  <2>1. PICK s \in TapClients : s = Pruned[i]
    BY PrunedIs
  <2>2. ~s.active /\ Sound(s, <<>>, units)
    BY <2>1, <1>4, <1>7, PrunedIs
  <2>3. slot'[i] = [s EXCEPT !.active = TRUE, !.conn = cn, !.sid = sd]
    BY <1>0, <1>7, <2>1
  <2>4. PICK t : t = [s EXCEPT !.active = TRUE, !.conn = cn, !.sid = sd]
    OBVIOUS
  <2>5. /\ t \in TapClients /\ t.conn = cn /\ t.out = s.out
        /\ t.sps = s.sps /\ t.pps = s.pps
    BY <2>4, <1>1 DEF TapClients
  <2>6. t.active = TRUE /\ t.needIdr = s.needIdr
    BY <2>4, <1>1 DEF TapClients
  <2>7. Sound(t, <<>>, units)
    BY <2>2, <2>5, <2>6 DEF Sound
  <2> QED BY <2>3, <2>4, <2>5, <2>6, <2>7
<1>8. \A i \in Slots : ~First(i) => slot'[i] = Pruned[i]
  BY <1>0
<1> HIDE DEF First, gone
<1>9. \A i \in Slots : slot'[i].active <=> First(i) \/ (slot[i].active /\ ~Dead(i))
  <2>1. ASSUME NEW i \in Slots PROVE slot'[i].active <=> First(i) \/ (slot[i].active /\ ~Dead(i))
    <3>1. CASE First(i)
      BY <3>1, <1>7
    <3>2. CASE ~First(i)
      <4>1. slot'[i] = Pruned[i]
        BY <1>8, <3>2
      <4>2. Pruned[i].active => slot[i].active /\ ~Dead(i)
        BY PrunedIs
      <4>3. slot[i].active /\ ~Dead(i) => Pruned[i] = slot[i]
        BY PrunedIs
      <4> QED BY <4>1, <4>2, <4>3, <3>2
    <3> QED BY <3>1, <3>2
  <2> QED BY <2>1
<1>10. \A i \in Slots : slot'[i].active /\ ~First(i) => slot'[i] = slot[i] /\ slot[i].active /\ ~Dead(i)
  BY <1>8, PrunedIs
<1>11. TapTypeOK'
  <2>1. ASSUME NEW i \in Slots
        PROVE  slot'[i] \in TapClients /\ (slot'[i].active <=> slot'[i].conn # NoConn)
    <3>1. CASE First(i)
      BY <3>1, <1>1, <1>7
    <3>2. CASE ~First(i)
      <4>1. slot'[i] = Pruned[i] /\ Pruned[i] \in TapClients
        BY <1>8, <3>2, PrunedIs
      <4>2. ~Pruned[i].active => Pruned[i].conn = NoConn
        BY PrunedIs
      <4>3. Pruned[i].active => Pruned[i].conn # NoConn
        BY <1>1, PrunedIs, InUse, TapAssumption
      <4> QED BY <4>1, <4>2, <4>3
    <3> QED BY <3>1, <3>2
  <2>2. slot' \in [Slots -> TapClients]
    <3>1. \E q : slot' = [i \in Slots |-> q[i]]
      <4>1. slot' = [i \in Slots |-> slot'[i]]
        BY <1>0
      <4> QED BY <4>1
    <3> QED BY <3>1, <2>1
  <2>3. fd' \in [Subscribers -> {"none", "open", "closed"}]
    BY <1>0, <1>1 DEF TapTypeOK
  <2> QED BY <1>0, <1>1, <1>6, <2>1, <2>2, <2>3 DEF TapTypeOK
<1>12. TapStartInv'
  BY <1>0, <1>6 DEF TapIInv, TapInv, TapStartInv
<1>13. ~InSlot(cn) /\ fd[cn] = "open"
  BY <1>1, <1>a DEF TapIInv, TapInv, Descriptors
<1>14. \A i \in Slots : slot[i].active => slot[i].conn # cn
  BY <1>13 DEF InSlot
<1>15. \A i \in Slots : Dead(i) => slot[i].active
  BY DEF Dead
<1>16. \A i, j \in Slots : slot[i].active /\ slot[j].active /\ slot[i].conn = slot[j].conn
                            => i = j
  BY <1>1, InUse DEF TapIInv, TapInv, Descriptors
<1>17. ASSUME NEW c \in Subscribers, c # cn
       PROVE  InSlot(c)' <=> \E i \in Slots : slot[i].active /\ slot[i].conn = c /\ ~Dead(i)
  <2>1. ASSUME NEW i \in Slots
        PROVE  slot'[i].active /\ slot'[i].conn = c
                 <=> slot[i].active /\ slot[i].conn = c /\ ~Dead(i)
    <3>1. CASE First(i)
      <4>1. slot'[i].conn = cn
        BY <3>1, <1>7
      <4>2. ~(slot[i].active /\ ~Dead(i))
        BY <3>1, <1>4, PrunedIs
      <4> QED BY <4>1, <4>2, <1>17
    <3>2. CASE ~First(i)
      <4>1. slot'[i].active <=> slot[i].active /\ ~Dead(i)
        BY <1>9, <3>2
      <4>2. slot'[i].active => slot'[i] = slot[i]
        BY <1>10, <3>2
      <4> QED BY <4>1, <4>2
    <3> QED BY <3>1, <3>2
  <2> QED BY <2>1 DEF InSlot
<1>18. InSlot(cn)' <=> free # {}
  <2>1. free = {} => ~InSlot(cn)'
    <3>1. ASSUME free = {}, NEW i \in Slots, slot'[i].active, slot'[i].conn = cn PROVE FALSE
      <4>1. ~First(i)
        BY <3>1 DEF First
      <4>2. slot'[i] = slot[i] /\ slot[i].active
        BY <1>10, <3>1, <4>1
      <4> QED BY <1>14, <3>1, <4>2
    <3> QED BY <3>1 DEF InSlot
  <2>2. free # {} => InSlot(cn)'
    BY <1>2, <1>7 DEF InSlot
  <2> QED BY <2>1, <2>2
<1>19. Descriptors'
  <2>1. ASSUME NEW c \in Subscribers, NEW i \in Slots, NEW j \in Slots,
               slot'[i].active, slot'[i].conn = c, slot'[j].active, slot'[j].conn = c
        PROVE  i = j
    <3>1. CASE First(i) /\ First(j)
      BY <3>1, <1>3
    <3>2. CASE First(i) /\ ~First(j)
      BY <3>2, <2>1, <1>7, <1>10, <1>14
    <3>3. CASE ~First(i) /\ First(j)
      BY <3>3, <2>1, <1>7, <1>10, <1>14
    <3>4. CASE ~First(i) /\ ~First(j)
      <4>1. slot'[i] = slot[i] /\ slot'[j] = slot[j] /\ slot[i].active /\ slot[j].active
        BY <3>4, <2>1, <1>10
      <4> QED BY <4>1, <2>1, <1>16
    <3> QED BY <3>1, <3>2, <3>3, <3>4
  <2>2. ASSUME NEW c \in Subscribers PROVE acceptor'.conn # c
    BY <1>6, TapAssumption
  <2>3. ASSUME NEW c \in Subscribers PROVE fd'[c] = "open" <=> InSlot(c)'
    <3>1. CASE c = cn
      <4>1. ~\E i \in Slots : Dead(i) /\ slot[i].conn = c
        BY <3>1, <1>14, <1>15
      <4> QED BY <4>1, <3>1, <1>5, <1>13, <1>18
    <3>2. CASE c # cn
      <4>1. fd[c] = "open" <=> InSlot(c)
        BY <3>2, <1>a DEF TapIInv, TapInv, Descriptors
      <4>2. CASE \E i \in Slots : Dead(i) /\ slot[i].conn = c
        <5>1. fd'[c] = "closed"
          BY <4>2, <1>5
        <5>2. PICK i \in Slots : Dead(i) /\ slot[i].conn = c
          BY <4>2
        <5>3. ~\E j \in Slots : slot[j].active /\ slot[j].conn = c /\ ~Dead(j)
          BY <5>2, <1>15, <1>16
        <5> QED BY <5>1, <5>3, <3>2, <1>17
      <4>3. CASE ~\E i \in Slots : Dead(i) /\ slot[i].conn = c
        <5>1. fd'[c] = fd[c]
          BY <4>3, <3>2, <1>5
        <5>2. InSlot(c)' <=> InSlot(c)
          BY <4>3, <3>2, <1>17 DEF InSlot
        <5> QED BY <4>1, <5>1, <5>2
      <4> QED BY <4>2, <4>3
    <3> QED BY <3>1, <3>2
  <2> QED BY <2>1, <2>2, <2>3 DEF Descriptors
<1>20. ContentInv'
  <2>1. ASSUME NEW i \in Slots
        PROVE  Sound(slot'[i], IF slot'[i].active THEN got'[slot'[i].conn] ELSE <<>>, units')
    <3>1. CASE First(i)
      <4>1. got[cn] = <<>>
        BY <1>1, <1>a DEF TapIInv, SentWell, FreshInv
      <4>2. slot'[i].active /\ slot'[i].conn = cn /\ Sound(slot'[i], <<>>, units)
        BY <3>1, <1>7
      <4> QED BY <4>1, <4>2, <1>0
    <3>2. CASE ~First(i) /\ slot'[i].active
      <4>1. slot'[i] = slot[i]
        BY <3>2, <1>10
      <4>2. Sound(slot[i], IF slot[i].active THEN got[slot[i].conn] ELSE <<>>, units)
        BY DEF TapIInv, SentWell, ContentInv, SentTo
      <4> QED BY <4>1, <4>2, <1>0
    <3>3. CASE ~First(i) /\ ~slot'[i].active
      <4>1. slot'[i] = Pruned[i]
        BY <3>3, <1>8
      <4>2. Sound(Pruned[i], <<>>, units)
        BY <3>3, <4>1, PrunedIs
      <4> QED BY <3>3, <4>1, <4>2, <1>0
    <3> QED BY <3>1, <3>2, <3>3
  <2> QED BY <2>1 DEF ContentInv, SentTo
<1>21. SentInv' /\ FreshInv'
  <2>1. \A c \in Subscribers : fd'[c] = "none" => fd[c] = "none"
    BY <1>5
  <2>2. \A c \in Subscribers : acceptor'.conn # c
    BY <1>6, TapAssumption
  <2> QED BY <1>0, <2>1, <2>2 DEF TapIInv, SentWell, SentInv, FreshInv
<1> QED BY <1>11, <1>12, <1>19, <1>20, <1>21 DEF TapIInv, TapInv, SentWell

LEMMA Within ==
  ASSUME NEW r \in Nat, NEW v \in 0 .. r, NEW l \in 0 .. r - v
  PROVE  v + l \in 0 .. r /\ 0 \in 0 .. r - v
  OBVIOUS

(* A publication, with a name for each part of it: whom it reaches, what   *)
(* comes of each, and the subscriber's slot.                               *)
Reached(i, sid) == slot[i].active /\ slot[i].sid = sid
Result(i, sid, p, stalled) ==
  PublishTo(slot[i], p, Unit(sid, p), stalled[i], Room - unread[slot[i].conn])
Hit(c, sid) == {i \in Slots : Reached(i, sid) /\ slot[i].conn = c}

LEMMA PublishParts ==
  ASSUME NEW h \in Publishers, Publish(h), started, running
  PROVE  \E sid \in Sids, p \in Payloads, stalled \in [Slots -> BOOLEAN] :
           /\ units' = units + 1
           /\ slot' = [i \in Slots |-> IF Reached(i, sid) THEN Result(i, sid, p, stalled).slot
                                       ELSE slot[i]]
           /\ got' = [c \in Subscribers |->
                        IF Hit(c, sid) = {} THEN got[c]
                        ELSE got[c] \o Result(CHOOSE i \in Hit(c, sid) : TRUE, sid, p, stalled).sent]
           /\ unread' = [c \in Subscribers |-> unread[c] + Len(got'[c]) - Len(got[c])]
           /\ fd' = [c \in Subscribers |->
                       IF \E i \in Hit(c, sid) : ~Result(i, sid, p, stalled).slot.active
                       THEN "closed" ELSE fd[c]]
<1>1. ~(~started \/ ~running)
  OBVIOUS
<1>2. PICK sid \in Sids, payload \in Payloads, stalled \in [Slots -> BOOLEAN] :
        LET to(i)   == slot[i].active /\ slot[i].sid = sid
            done(i) == PublishTo(slot[i], payload, Unit(sid, payload), stalled[i],
                                 Room - unread[slot[i].conn])
            hit(c)  == {i \in Slots : to(i) /\ slot[i].conn = c}
        IN
        /\ \A i \in Slots : stalled[i] => to(i) /\ slot[i].out # <<>>
        /\ units' = units + 1
        /\ slot' = [i \in Slots |-> IF to(i) THEN done(i).slot ELSE slot[i]]
        /\ got' = [c \in Subscribers |->
                     IF hit(c) = {} THEN got[c]
                     ELSE got[c] \o done(CHOOSE i \in hit(c) : TRUE).sent]
        /\ unread' = [c \in Subscribers |-> unread[c] + Len(got'[c]) - Len(got[c])]
        /\ fd' = [c \in Subscribers |->
                    IF \E i \in hit(c) : ~done(i).slot.active THEN "closed" ELSE fd[c]]
  BY <1>1, Zenon DEF Publish
<1> WITNESS sid \in Sids, payload \in Payloads, stalled \in [Slots -> BOOLEAN]
<1> QED BY <1>2, Zenon DEF Reached, Result, Hit

LEMMA PublishKeeps ==
  ASSUME TapIInv, NEW h \in Publishers, Publish(h), started, running PROVE TapIInv'
<1>0. /\ handler' = [handler EXCEPT ![h] = "idle"] /\ handler[h] = "publish"
      /\ started' = started /\ running' = running /\ port' = port /\ acceptor' = acceptor
      /\ peer' = peer /\ main' = main /\ TapTypeOK /\ units \in Nat
  BY DEF Publish, GoOn, TapIInv, TapInv, TapTypeOK
<1>1. PICK sid \in Sids, p \in Payloads, stalled \in [Slots -> BOOLEAN] :
        /\ units' = units + 1
        /\ slot' = [i \in Slots |-> IF Reached(i, sid) THEN Result(i, sid, p, stalled).slot
                                    ELSE slot[i]]
        /\ got' = [c \in Subscribers |->
                     IF Hit(c, sid) = {} THEN got[c]
                     ELSE got[c] \o Result(CHOOSE i \in Hit(c, sid) : TRUE, sid, p, stalled).sent]
        /\ unread' = [c \in Subscribers |-> unread[c] + Len(got'[c]) - Len(got[c])]
        /\ fd' = [c \in Subscribers |->
                    IF \E i \in Hit(c, sid) : ~Result(i, sid, p, stalled).slot.active
                    THEN "closed" ELSE fd[c]]
  BY PublishParts
<1> DEFINE R(i) == Result(i, sid, p, stalled)
<1>2. ASSUME NEW i \in Slots, Reached(i, sid)
      PROVE  /\ Delivered(R(i), slot[i], got[slot[i].conn], Room - unread[slot[i].conn], units + 1)
             /\ slot[i].active /\ slot[i].conn \in Subscribers
  <2>1. slot[i].active /\ slot[i] \in TapClients /\ slot[i].conn \in Subscribers
    BY <1>0, <1>2, InUse DEF Reached
  <2>2. PICK s \in TapClients : s = slot[i]
    BY <2>1
  <2>3. PICK room \in Nat : room = Room - unread[s.conn]
    <3>1. unread[s.conn] \in 0 .. Room /\ Room \in Nat
      BY <1>0, <2>1, <2>2, TapAssumption DEF TapTypeOK
    <3> QED BY <3>1
  <2>4. PICK g \in Seq(Chunks) : g = got[s.conn]
    BY <1>0, <2>1, <2>2 DEF TapTypeOK
  <2>5. Sound(s, g, units)
    BY <2>1, <2>2, <2>4 DEF TapIInv, SentWell, ContentInv, SentTo
  <2>6. PICK r : r = R(i)
    OBVIOUS
  <2>7. r = PublishTo(s, p, Unit(sid, p), stalled[i], room)
    BY <2>2, <2>3, <2>6 DEF Result
  <2>8. PICK n \in Nat : n = units + 1
    BY <1>0
  <2>9. s.active
    BY <2>1, <2>2
  <2> HIDE DEF R
  <2>10. Delivered(r, s, g, room, n)
    BY <1>0, <1>1, <2>5, <2>7, <2>8, <2>9, PublishIs
  <2> QED BY <2>1, <2>2, <2>3, <2>4, <2>6, <2>8, <2>10
<1> HIDE DEF R
<1>3. ASSUME NEW i \in Slots, Reached(i, sid)
      PROVE  /\ R(i).slot \in TapClients /\ R(i).sent \in Seq(Chunks)
             /\ Len(R(i).sent) <= Room - unread[slot[i].conn]
             /\ R(i).slot.active => R(i).slot.conn = slot[i].conn
             /\ R(i).slot.active => Sound(R(i).slot, got[slot[i].conn] \o R(i).sent, units + 1)
             /\ ~R(i).slot.active => Sound(R(i).slot, <<>>, units + 1)
             /\ Fit(got[slot[i].conn] \o R(i).sent, TRUE, units + 1)
  BY <1>2, <1>3 DEF Delivered
<1>4. \A i, j \in Slots : slot[i].active /\ slot[j].active /\ slot[i].conn = slot[j].conn => i = j
  BY <1>0, InUse DEF TapIInv, TapInv, Descriptors
<1>5. ASSUME NEW i \in Slots, Reached(i, sid)
      PROVE  /\ Hit(slot[i].conn, sid) = {i} /\ (CHOOSE j \in Hit(slot[i].conn, sid) : TRUE) = i
             /\ got'[slot[i].conn] = got[slot[i].conn] \o R(i).sent
  <2>1. Hit(slot[i].conn, sid) = {i}
    BY <1>4, <1>5 DEF Hit, Reached
  <2>2. (CHOOSE j \in Hit(slot[i].conn, sid) : TRUE) = i
    BY <2>1
  <2>3. slot[i].conn \in Subscribers
    BY <1>2, <1>5
  <2> QED BY <1>1, <2>1, <2>2, <2>3 DEF R
<1>6. \A c \in Subscribers : Hit(c, sid) = {} => got'[c] = got[c] /\ fd'[c] = fd[c]
  BY <1>1
<1>7. ASSUME NEW c \in Subscribers, Hit(c, sid) # {}
      PROVE  \E i \in Slots : Reached(i, sid) /\ slot[i].conn = c
  BY <1>7 DEF Hit
<1>8. \A i \in Slots : slot'[i] = IF Reached(i, sid) THEN R(i).slot ELSE slot[i]
  BY <1>1 DEF R
<1>9. ASSUME NEW c \in Subscribers
      PROVE  /\ got'[c] \in Seq(Chunks) /\ Fit(got'[c], TRUE, units + 1)
             /\ Len(got'[c]) - Len(got[c]) \in 0 .. Room - unread[c]
  <2>1. got[c] \in Seq(Chunks) /\ Fit(got[c], TRUE, units)
    BY <1>0 DEF TapTypeOK, TapIInv, SentWell, SentInv
  <2>2. unread[c] \in 0 .. Room /\ Room \in Nat
    BY <1>0, TapAssumption DEF TapTypeOK
  <2>3. CASE Hit(c, sid) = {}
    <3>1. got'[c] = got[c]
      BY <1>6, <2>3
    <3>2. Fit(got[c], TRUE, units + 1)
      BY <1>0, <2>1, FitWeaker
    <3>3. Len(got[c]) \in Nat /\ Len(got'[c]) - Len(got[c]) = 0
      BY <2>1, <3>1
    <3>4. Len(got'[c]) - Len(got[c]) \in 0 .. Room - unread[c]
      <4>1. PICK v \in 0 .. Room : v = unread[c]
        BY <2>2
      <4>2. 0 \in 0 .. Room - v
        BY <2>2, <4>1
      <4> QED BY <4>1, <4>2, <3>3
    <3> QED BY <2>1, <3>1, <3>2, <3>4
  <2>4. CASE Hit(c, sid) # {}
    <3>1. PICK i \in Slots : Reached(i, sid) /\ slot[i].conn = c
      BY <1>7, <2>4
    <3>2. PICK q \in Seq(Chunks) : q = R(i).sent
      BY <1>3, <3>1
    <3>3. /\ got'[c] = got[c] \o q /\ Fit(got[c] \o q, TRUE, units + 1)
          /\ Len(q) <= Room - unread[c]
      BY <1>3, <1>5, <3>1, <3>2
    <3>4. got[c] \o q \in Seq(Chunks) /\ Len(got[c] \o q) = Len(got[c]) + Len(q)
          /\ Len(got[c]) \in Nat /\ Len(q) \in Nat
      BY <2>1, <3>2, Cat
    <3>5. Len(got'[c]) - Len(got[c]) = Len(q)
      BY <3>3, <3>4
    <3>6. Len(q) \in 0 .. Room - unread[c]
      BY <3>3, <3>4, <2>2
    <3> QED BY <3>3, <3>4, <3>5, <3>6
  <2> QED BY <2>3, <2>4
<1>10. ASSUME NEW i \in Slots
       PROVE  slot'[i] \in TapClients /\ (slot'[i].active <=> slot'[i].conn # NoConn)
  <2>1. CASE ~Reached(i, sid)
    BY <1>0, <1>8, <2>1, InUse DEF TapTypeOK
  <2>2. CASE Reached(i, sid)
    <3>1. slot'[i] = R(i).slot /\ R(i).slot \in TapClients
      BY <1>3, <1>8, <2>2
    <3>2. R(i).slot.active => R(i).slot.conn # NoConn
      BY <1>2, <1>3, <2>2, TapAssumption
    <3>3. ~R(i).slot.active => R(i).slot.conn = NoConn
      BY <1>3, <2>2, ClosedIs
    <3> QED BY <3>1, <3>2, <3>3
  <2> QED BY <2>1, <2>2
<1>11. TapTypeOK'
  <2>1. slot' \in [Slots -> TapClients]
    BY <1>1, <1>10
  <2>2. got' \in [Subscribers -> Seq(Chunks)]
    BY <1>1, <1>9
  <2>3. unread' \in [Subscribers -> 0 .. Room]
    <3>1. ASSUME NEW c \in Subscribers PROVE unread[c] + Len(got'[c]) - Len(got[c]) \in 0 .. Room
      <4>1. unread[c] \in 0 .. Room /\ Room \in Nat
        BY <1>0, TapAssumption DEF TapTypeOK
      <4>2. got'[c] \in Seq(Chunks) /\ got[c] \in Seq(Chunks)
        BY <1>0, <1>9 DEF TapTypeOK
      <4>3. Len(got'[c]) \in Nat /\ Len(got[c]) \in Nat
        BY <4>2
      <4>4. PICK l \in 0 .. Room - unread[c] : l = Len(got'[c]) - Len(got[c])
        BY <1>9
      <4>5. unread[c] + Len(got'[c]) - Len(got[c]) = unread[c] + l
        BY <4>1, <4>3, <4>4
      <4>6. unread[c] + l \in 0 .. Room
        BY <4>1, <4>4, Within
      <4> QED BY <4>5, <4>6
    <3> QED BY <1>1, <3>1
  <2>4. fd' \in [Subscribers -> {"none", "open", "closed"}]
    BY <1>0, <1>1 DEF TapTypeOK
  <2>5. units' \in Nat
    BY <1>0, <1>1
  <2>6. handler' \in [Publishers -> {"idle", "clear", "listen", "run", "tell", "publish"}]
    BY <1>0 DEF TapTypeOK
  <2> QED BY <1>0, <1>10, <2>1, <2>2, <2>3, <2>4, <2>5, <2>6 DEF TapTypeOK
<1>12. ASSUME NEW i \in Slots, slot'[i].active
       PROVE  slot[i].active /\ slot'[i].conn = slot[i].conn
  <2>1. CASE Reached(i, sid)
    BY <2>1, <1>3, <1>8, <1>12 DEF Reached
  <2>2. CASE ~Reached(i, sid)
    BY <2>2, <1>8, <1>12
  <2> QED BY <2>1, <2>2
<1>13. TapStartInv'
  <2>1. \A k \in Publishers : handler'[k] = IF k = h THEN "idle" ELSE handler[k]
    BY <1>0 DEF TapTypeOK
  <2>2. \A i \in Slots : slot'[i].active => slot[i].active
    BY <1>12
  <2> QED BY <1>0, <2>1, <2>2 DEF TapIInv, TapInv, TapStartInv
<1>14. \A c \in Subscribers : InSlot(c)' => InSlot(c)
  BY <1>12 DEF InSlot
<1>15. ASSUME NEW c \in Subscribers
       PROVE  fd'[c] = "open" <=> InSlot(c)' \/ acceptor.conn = c
  <2>1. /\ fd[c] = "open" <=> InSlot(c) \/ acceptor.conn = c
        /\ acceptor.conn = c => ~InSlot(c)
    BY DEF TapIInv, TapInv, Descriptors
  <2>2. CASE Hit(c, sid) = {}
    <3>1. \A i \in Slots : slot[i].active /\ slot[i].conn = c => slot'[i] = slot[i]
      BY <1>8, <2>2 DEF Hit
    <3>2. InSlot(c)' <=> InSlot(c)
      BY <1>14, <3>1 DEF InSlot
    <3> QED BY <1>6, <2>1, <2>2, <3>2
  <2>3. CASE Hit(c, sid) # {}
    <3>1. PICK i \in Slots : Reached(i, sid) /\ slot[i].conn = c
      BY <1>7, <2>3
    <3>2. InSlot(c) /\ Hit(c, sid) = {i} /\ slot'[i] = R(i).slot
      BY <1>5, <1>8, <3>1 DEF InSlot, Reached
    <3>3. fd[c] = "open" /\ acceptor.conn # c
      BY <2>1, <3>2
    <3>4. fd'[c] = IF ~R(i).slot.active THEN "closed" ELSE fd[c]
      <4>1. fd'[c] = IF \E j \in Hit(c, sid) : ~R(j).slot.active THEN "closed" ELSE fd[c]
        BY <1>1 DEF R
      <4> QED BY <3>2, <4>1
    <3>5. CASE R(i).slot.active
      <4>1. slot'[i].active /\ slot'[i].conn = c
        BY <1>3, <3>1, <3>2, <3>5
      <4>2. InSlot(c)'
        BY <4>1 DEF InSlot
      <4> QED BY <4>2, <3>3, <3>4, <3>5
    <3>6. CASE ~R(i).slot.active
      <4>1. ASSUME NEW j \in Slots, slot'[j].active, slot'[j].conn = c PROVE FALSE
        <5>1. slot[j].active /\ slot[j].conn = c
          BY <1>12, <4>1
        <5>2. j = i
          BY <1>4, <3>1, <5>1 DEF Reached
        <5> QED BY <5>2, <4>1, <3>2, <3>6
      <4>2. ~InSlot(c)'
        BY <4>1 DEF InSlot
      <4> QED BY <4>2, <3>3, <3>4, <3>6
    <3> QED BY <3>5, <3>6
  <2> QED BY <2>2, <2>3
<1>16. Descriptors'
  <2>1. \A c \in Subscribers : acceptor'.conn = c => ~InSlot(c)'
    BY <1>0, <1>14 DEF TapIInv, TapInv, Descriptors
  <2>2. ASSUME NEW c \in Subscribers, NEW i \in Slots, NEW j \in Slots,
               slot'[i].active, slot'[i].conn = c, slot'[j].active, slot'[j].conn = c
        PROVE  i = j
    BY <2>2, <1>4, <1>12
  <2>3. \A c \in Subscribers : fd'[c] = "open" <=> InSlot(c)' \/ acceptor'.conn = c
    BY <1>0, <1>15
  <2> QED BY <2>1, <2>2, <2>3 DEF Descriptors
<1>17. ContentInv'
  <2>1. ASSUME NEW i \in Slots
        PROVE  Sound(slot'[i], IF slot'[i].active THEN got'[slot'[i].conn] ELSE <<>>, units')
    <3>1. CASE Reached(i, sid) /\ R(i).slot.active
      <4>1. slot'[i] = R(i).slot /\ slot'[i].active /\ slot'[i].conn = slot[i].conn
        BY <3>1, <1>3, <1>8
      <4>2. got'[slot[i].conn] = got[slot[i].conn] \o R(i).sent
        BY <3>1, <1>5
      <4>3. Sound(R(i).slot, got[slot[i].conn] \o R(i).sent, units + 1)
        BY <3>1, <1>3
      <4> QED BY <4>1, <4>2, <4>3, <1>1
    <3>2. CASE Reached(i, sid) /\ ~R(i).slot.active
      BY <3>2, <1>1, <1>3, <1>8
    <3>3. CASE ~Reached(i, sid)
      <4>1. slot'[i] = slot[i] /\ slot[i] \in TapClients
        BY <1>0, <1>8, <3>3, InUse
      <4>2. PICK g : g = IF slot[i].active THEN got[slot[i].conn] ELSE <<>>
        OBVIOUS
      <4>3. Sound(slot[i], g, units)
        BY <4>2 DEF TapIInv, SentWell, ContentInv, SentTo
      <4>4. g \in Seq(Chunks)
        BY <1>0, <4>2, InUse, EmptyIs DEF TapTypeOK
      <4>5. Sound(slot[i], g, units + 1)
        BY <1>0, <4>1, <4>3, <4>4, SoundMore
      <4>6. slot[i].active => got'[slot[i].conn] = got[slot[i].conn]
        <5>1. slot[i].active => slot[i].conn \in Subscribers
          BY <1>0, InUse
        <5>2. slot[i].active => Hit(slot[i].conn, sid) = {}
          BY <1>4, <3>3 DEF Hit, Reached
        <5> QED BY <1>6, <5>1, <5>2
      <4> QED BY <1>1, <4>1, <4>2, <4>5, <4>6
    <3> QED BY <3>1, <3>2, <3>3
  <2> QED BY <2>1 DEF ContentInv, SentTo
<1>18. SentInv'
  BY <1>1, <1>9 DEF SentInv
<1>19. FreshInv'
  <2>1. ASSUME NEW c \in Subscribers, fd'[c] = "none" \/ acceptor'.conn = c PROVE got'[c] = <<>>
    <3>1. fd[c] = "none" \/ acceptor.conn = c
      BY <1>0, <1>1, <2>1
    <3>2. ~InSlot(c)
      BY <3>1 DEF TapIInv, TapInv, Descriptors
    <3>3. Hit(c, sid) = {}
      BY <3>2 DEF InSlot, Hit, Reached
    <3>4. got[c] = <<>>
      BY <3>1 DEF TapIInv, SentWell, FreshInv
    <3> QED BY <1>6, <3>3, <3>4
  <2> QED BY <2>1 DEF FreshInv
<1> QED BY <1>11, <1>13, <1>16, <1>17, <1>18, <1>19 DEF TapIInv, TapInv, SentWell

(* No tap to publish to. *)
LEMMA PassKeeps ==
  ASSUME TapIInv, NEW h \in Publishers, Publish(h), ~started \/ ~running PROVE TapIInv'
<1>0. /\ handler' = [handler EXCEPT ![h] = "idle"] /\ handler[h] = "publish"
      /\ started' = started /\ running' = running /\ port' = port /\ acceptor' = acceptor
      /\ peer' = peer /\ main' = main /\ TapTypeOK
      /\ slot' = slot /\ fd' = fd /\ unread' = unread /\ got' = got /\ units' = units
  BY DEF Publish, GoOn, TapIInv, TapInv
<1>1. TapTypeOK'
  BY <1>0 DEF TapTypeOK
<1>2. TapStartInv'
  <2>1. \A k \in Publishers : handler'[k] = IF k = h THEN "idle" ELSE handler[k]
    BY <1>0 DEF TapTypeOK
  <2> QED BY <1>0, <2>1 DEF TapIInv, TapInv, TapStartInv
<1>3. Descriptors' /\ SentWell'
  BY <1>0, SlotsKept
<1> QED BY <1>1, <1>2, <1>3 DEF TapIInv, TapInv

LEMMA TapNextKeeps ==
  ASSUME TapIInv, OneStarter, OneStarter', [TapNext]_tapVars PROVE TapIInv'
<1>1. ASSUME NEW h \in Publishers, Start(h) PROVE TapIInv'
  BY <1>1, LookKeeps, ClearKeeps, ListenKeeps, RunKeeps, TellKeeps DEF Start
<1>2. ASSUME NEW h \in Publishers, Publish(h) PROVE TapIInv'
  BY <1>2, PublishKeeps, PassKeeps
<1>3. ASSUME NEW c \in Subscribers, Subscribe(c) \/ SendLine(c) \/ ReadChunk(c) \/ Leave(c)
      PROVE  TapIInv'
  BY <1>3, PeersKeep
<1>4. CASE Accept
  BY <1>4, AcceptKeeps
<1>5. CASE Place
  BY <1>5, PlaceKeeps
<1>6. CASE AcceptorEnds \/ StopTap
  BY <1>6, EndKeeps
<1>7. CASE CloseSlots
  BY <1>7, CloseKeeps
<1>8. CASE UNCHANGED tapVars
  <2>1. TapTypeOK' /\ TapStartInv'
    BY <1>8 DEF tapVars, startVars, connVars, TapIInv, TapInv, TapTypeOK, TapStartInv
  <2>2. Descriptors' /\ SentWell'
    BY <1>8, SlotsKept DEF tapVars, startVars, connVars
  <2> QED BY <2>1, <2>2 DEF TapIInv, TapInv
<1> QED BY <1>1, <1>2, <1>3, <1>4, <1>5, <1>6, <1>7, <1>8 DEF TapNext

LEMMA TapInductive == TapSpec /\ []OneStarter => []TapIInv
<1>1. TapInit => TapIInv
  BY TapInitIInv
<1>2. TapIInv /\ OneStarter /\ OneStarter' /\ [TapNext]_tapVars => TapIInv'
  BY TapNextKeeps
<1> QED BY <1>1, <1>2, PTL DEF TapSpec

(* A single handler, as with one worker, is one starter: what the theorems *)
(* ask of the start of the tap (maybe_start_h264_tap) then holds of itself. *)
LEMMA OneHandlerStarts == (\A h, k \in Publishers : h = k) => []OneStarter
<1>1. ASSUME \A h, k \in Publishers : h = k PROVE []OneStarter
  <2>1. OneStarter
    BY <1>1 DEF OneStarter
  <2> QED BY <2>1, PTL
<1> QED BY <1>1

(* Descriptors: every one the accept thread took (accept_loop) is closed   *)
(* or in exactly one slot or in its hand, whoever closes it - publish,     *)
(* prune or stop; as long as no two handlers start the tap at once.        *)
THEOREM TapDescriptors == TapSpec /\ []OneStarter => []DescriptorsAccounted
<1>1. TapIInv => DescriptorsAccounted
  <2> SUFFICES ASSUME TapIInv PROVE DescriptorsAccounted
    OBVIOUS
  <2>1. TapTypeOK /\ Descriptors
    BY DEF TapIInv, TapInv
  <2> QED BY <2>1 DEF DescriptorsAccounted, Descriptors, InSlot
<1> QED BY <1>1, TapInductive, PTL

(* h264_tap_publish after a drop: behind a unit that was given up half     *)
(* sent, the next picture a subscriber gets is an IDR.                     *)
THEOREM TapResumes == TapSpec /\ []OneStarter => []ResumesAtIdr
<1>1. TapIInv => ResumesAtIdr
  BY DEF TapIInv, SentWell, SentInv, Fit, ResumesAtIdr
<1> QED BY <1>1, TapInductive, PTL

(* No subscriber gets a picture behind a later one: neither a buffer that  *)
(* waited nor the cached parameter sets bring one back, provided that an   *)
(* IDR comes in one packet with the SPS first.                             *)
THEOREM TapKeepsOrder == IdrsWithSets => (TapSpec /\ []OneStarter => []InOrder)
<1>1. ASSUME IdrsWithSets PROVE TapIInv => InOrder
  BY <1>1 DEF TapIInv, SentWell, SentInv, Fit, InOrder
<1>2. IdrsWithSets => (TapIInv => InOrder)
  BY <1>1
<1>3. IdrsWithSets => [](TapIInv => InOrder)
  <2>1. ASSUME IdrsWithSets PROVE [](TapIInv => InOrder)
    <3>1. TapIInv => InOrder
      BY <1>2, <2>1
    <3> QED BY <3>1, PTL
  <2> QED BY <2>1
<1> QED BY <1>3, TapInductive, PTL
=============================================================================
