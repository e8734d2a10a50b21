---------------------------- MODULE WorkerProofs -----------------------------
(***************************************************************************)
(* Proofs about Worker, for every bound and every pair of intervals: its   *)
(* types, its descriptors, what may end it, when it tries to connect, and  *)
(* that every connection it makes is a Session.                            *)
(***************************************************************************)
EXTENDS Worker, TLAPS

(* Where the threads can be at the same time. *)
ThreadsInv ==
  /\ main \in {"setup", "mismatch", "mismatchSet", "noSender", "noSenderSet", "connect",
               "start"} => video = "none"
  /\ main \in {"stop", "close", "judge", "exit"} => video \in {"none", "ended"}
  /\ video = "heartbeat" => senderState = "connected"
  /\ main \in {"setup", "mismatch", "mismatchSet", "noSender", "noSenderSet", "connect",
               "judge"} \/ video = "connect"
       => sock = 0

(* The descriptor the sender knows is the one that is open. *)
SockInv ==
  /\ ~Ended => open = {sock} \ {0}
  /\ Ended => open = {}
  /\ senderState = "connected" => sock # 0

(* A connection made just now carries nothing yet, one the sender holds to *)
(* be connected carried its STREAM_START and is whole.                     *)
WireInv ==
  /\ main = "start" \/ video = "start" => senderState = "connected" /\ wire[sock] = Unused
  /\ senderState = "connected" /\ main \notin {"start", "close", "exit", "crashed"} /\ video # "start"
       => wire[sock].start = 1 /\ wire[sock].stop = 0 /\ ~wire[sock].torn
  /\ \A c \in Conns : wire[c].start \in {0, 1} /\ (c > opened => wire[c] = Unused)

(* Why the video thread reports. *)
AnyTorn == \E c \in Conns : wire[c].torn
ReportInv ==
  /\ video = "send" => senderState = "connected" \/ AnyTorn
  /\ video \in {"report", "reportSet"} \/ fatalCode = "tcpSend" => refused \/ AnyTorn

IInv == TypeOK /\ ThreadsInv /\ SockInv /\ WireInv /\ ReportInv
-----------------------------------------------------------------------------
(* What one packet does to the history of its connection, and that it      *)
(* leaves the others alone.                                                *)

Others == \A d \in Conns \ {sock} : wire'[d] = wire[d]

(* What each kind of packet does to the history. *)
LEMMA StartEffect ==
  ASSUME wire \in [Conns -> Traffic], sock \in Conns, SentStart
  PROVE  /\ wire' \in [Conns -> Traffic] /\ Others
         /\ wire'[sock].start = wire[sock].start + 1
         /\ wire'[sock].video = wire[sock].video
         /\ wire'[sock].stop = wire[sock].stop
         /\ wire'[sock].torn = wire[sock].torn
<1>1. wire[sock] \in Traffic  OBVIOUS
<1>2. wire[sock].start + 1 \in Nat  BY <1>1 DEF Traffic
<1> DEFINE w == [wire[sock] EXCEPT !.start = wire[sock].start + 1]
<1>3. wire' = [wire EXCEPT ![sock] = w]  BY DEF SentStart
<1>4. /\ w \in Traffic
      /\ w.start = wire[sock].start + 1 /\ w.video = wire[sock].video
      /\ w.stop = wire[sock].stop /\ w.torn = wire[sock].torn
  BY <1>1, <1>2 DEF Traffic
<1> QED  BY <1>3, <1>4 DEF Others

(* VIDEO. *)
LEMMA VideoEffect ==
  ASSUME wire \in [Conns -> Traffic], sock \in Conns, SentVideo
  PROVE  /\ wire' \in [Conns -> Traffic] /\ Others
         /\ wire'[sock].start = wire[sock].start
         /\ wire'[sock].video = wire[sock].video + 1
         /\ wire'[sock].stop = wire[sock].stop
         /\ wire'[sock].torn = wire[sock].torn
<1>1. wire[sock] \in Traffic  OBVIOUS
<1>2. wire[sock].video + 1 \in Nat  BY <1>1 DEF Traffic
<1> DEFINE w == [wire[sock] EXCEPT !.video = wire[sock].video + 1]
<1>3. wire' = [wire EXCEPT ![sock] = w]  BY DEF SentVideo
<1>4. /\ w \in Traffic
      /\ w.video = wire[sock].video + 1 /\ w.start = wire[sock].start
      /\ w.stop = wire[sock].stop /\ w.torn = wire[sock].torn
  BY <1>1, <1>2 DEF Traffic
<1> QED  BY <1>3, <1>4 DEF Others

(* STREAM_STOP. *)
LEMMA StopEffect ==
  ASSUME wire \in [Conns -> Traffic], sock \in Conns, SentStop
  PROVE  /\ wire' \in [Conns -> Traffic] /\ Others
         /\ wire'[sock].start = wire[sock].start
         /\ wire'[sock].video = wire[sock].video
         /\ wire'[sock].stop = wire[sock].stop + 1
         /\ wire'[sock].torn = wire[sock].torn
<1>1. wire[sock] \in Traffic  OBVIOUS
<1>2. wire[sock].stop + 1 \in Nat  BY <1>1 DEF Traffic
<1> DEFINE w == [wire[sock] EXCEPT !.stop = wire[sock].stop + 1]
<1>3. wire' = [wire EXCEPT ![sock] = w]  BY DEF SentStop
<1>4. /\ w \in Traffic
      /\ w.stop = wire[sock].stop + 1 /\ w.start = wire[sock].start
      /\ w.video = wire[sock].video /\ w.torn = wire[sock].torn
  BY <1>1, <1>2 DEF Traffic
<1> QED  BY <1>3, <1>4 DEF Others

(* A packet cut short. *)
LEMMA TornEffect ==
  ASSUME wire \in [Conns -> Traffic], sock \in Conns, Torn
  PROVE  /\ wire' \in [Conns -> Traffic] /\ Others
         /\ wire'[sock].start = wire[sock].start
         /\ wire'[sock].video = wire[sock].video
         /\ wire'[sock].stop = wire[sock].stop
         /\ wire'[sock].torn
<1>1. wire[sock] \in Traffic  OBVIOUS
<1> DEFINE w == [wire[sock] EXCEPT !.torn = TRUE]
<1>2. wire' = [wire EXCEPT ![sock] = w]  BY DEF Torn
<1>3. /\ w \in Traffic
      /\ w.start = wire[sock].start /\ w.video = wire[sock].video
      /\ w.stop = wire[sock].stop /\ w.torn
  BY <1>1 DEF Traffic
<1> QED  BY <1>2, <1>3 DEF Others

(* A connection not made yet carried nothing. *)
LEMMA UnusedFields ==
  Unused.start = 0 /\ Unused.video = 0 /\ Unused.stop = 0 /\ ~Unused.torn
BY DEF Unused

(* A connected sender's descriptor is one of the connections. *)
LEMMA SockNamed ==
  ASSUME TypeOK, SockInv, senderState = "connected"
  PROVE  wire \in [Conns -> Traffic] /\ sock \in Conns /\ sock \in 1..opened
BY WorkerAssumption DEF TypeOK, SockInv, Conns

(* A new connection is the only open one. *)
LEMMA ConnectedEffect ==
  ASSUME TypeOK, SockInv, ~Ended, sock = 0, Connected
  PROVE  /\ opened' \in 1..MaxConnects /\ opened' = opened + 1
         /\ sock' = opened' /\ open' = {opened'} /\ opened' \in Conns
         /\ open = {} /\ senderState' = "connected" /\ lastHeartbeat' = now /\ wire' = wire
<1>1. open = {}  BY DEF SockInv
<1> QED  BY <1>1, WorkerAssumption DEF TypeOK, Connected, Conns

(* After a failed one none is. *)
LEMMA FailedEffect ==
  ASSUME TypeOK, SockInv, ~Ended, ConnectFailed
  PROVE  /\ sock' = 0 /\ open' = {} /\ senderState' = "error"
         /\ opened' = opened /\ wire' = wire /\ lastHeartbeat' = lastHeartbeat
BY DEF SockInv, ConnectFailed, CloseSock

(* Every action keeps the types. *)
LEMMA TypeStep ==
  ASSUME TypeOK, ThreadsInv, SockInv, WireInv, Next
  PROVE  TypeOK'
<1> USE WorkerAssumption
  DEF sender, net, fatal, hist, TypeOK, ThreadsInv, SockInv, WireInv, Ended
<1>0. ~Ended  BY DEF Next
<1>1. CASE Tick
  BY <1>0, <1>1 DEF Tick
<1>2. CASE Negotiated
  BY <1>0, <1>2 DEF Negotiated, Quiet
<1>3. CASE SetupTest
  BY <1>0, <1>3 DEF SetupTest, Quiet
<1>4. CASE SetupSet
  BY <1>0, <1>4 DEF SetupSet, Quiet
<1>5. CASE SetupConnect
  <2>1. sock = 0  BY <1>5 DEF SetupConnect, ThreadsInv
  <2>2. CASE Connected /\ main' = "start"
    BY <1>0, <1>5, <2>1, <2>2, ConnectedEffect DEF SetupConnect, Quiet
  <2>3. CASE ConnectFailed /\ main' = "started"
    BY <1>0, <1>5, <2>1, <2>3, FailedEffect DEF SetupConnect, Quiet
  <2> QED  BY <1>5, <2>2, <2>3 DEF SetupConnect
<1>6. CASE SetupStart
  <2>1. senderState = "connected"  BY <1>6 DEF SetupStart, WireInv
  <2>2. wire \in [Conns -> Traffic] /\ sock \in Conns  BY <2>1, SockNamed
  <2> QED  BY <1>6, <2>1, <2>2, StartEffect, TornEffect
    DEF SetupStart, Quiet, StreamStart, Others
<1>7. CASE StartVideo
  BY <1>0, <1>7 DEF StartVideo, Quiet
<1>8. CASE StartDone
  BY <1>0, <1>8 DEF StartDone, Quiet
<1>9. CASE SeeFatal
  BY <1>0, <1>9 DEF SeeFatal, Quiet
<1>10. CASE Signalled
  BY <1>0, <1>10 DEF Signalled, Quiet
<1>11. CASE ClearPointer
  <2>1. fatalPtr' \in BOOLEAN  BY <1>11 DEF ClearPointer
  <2> QED  BY <1>0, <1>11, <2>1 DEF ClearPointer, Quiet
<1>12. CASE JoinVideo
  BY <1>0, <1>12 DEF JoinVideo, Quiet
<1>13. CASE StreamStop
  <2>1. CASE senderState = "connected"
    <3>1. wire \in [Conns -> Traffic] /\ sock \in Conns  BY <2>1, SockNamed
    <3> QED  BY <1>13, <2>1, <3>1, StopEffect, TornEffect DEF StreamStop, Quiet, Others
  <2>2. CASE senderState # "connected"
    BY <1>13, <2>2 DEF StreamStop, Quiet
  <2> QED  BY <2>1, <2>2
<1>14. CASE Close
  BY <1>0, <1>14 DEF Close, Quiet, CloseSock
<1>15. CASE Judge
  BY <1>0, <1>15 DEF Judge, Quiet
<1>16. CASE SubmitConnected
  BY <1>0, <1>16 DEF SubmitConnected, VideoQuiet, VideoRuns
<1>17. CASE SubmitBroken
  BY <1>0, <1>17 DEF SubmitBroken, VideoQuiet, VideoRuns, CloseSock
<1>18. CASE Heartbeat
  <2>1. senderState = "connected"  BY <1>18 DEF Heartbeat, ThreadsInv
  <2>2. wire \in [Conns -> Traffic] /\ sock \in Conns  BY <2>1, SockNamed
  <2> QED  BY <1>18, <2>1, <2>2, TornEffect DEF Heartbeat, VideoQuiet, Others
<1>19. CASE Reconnect
  <2>1. sock = 0  BY <1>19 DEF Reconnect, ThreadsInv
  <2>2. CASE Connected /\ video' = "start"
    BY <1>0, <1>19, <2>1, <2>2, ConnectedEffect DEF Reconnect, VideoQuiet
  <2>3. CASE ConnectFailed /\ video' = "idle"
    BY <1>0, <1>19, <2>1, <2>3, FailedEffect DEF Reconnect, VideoQuiet
  <2> QED  BY <1>19, <2>2, <2>3 DEF Reconnect
<1>20. CASE ReconnectStart
  <2>1. senderState = "connected"  BY <1>20 DEF ReconnectStart, WireInv
  <2>2. wire \in [Conns -> Traffic] /\ sock \in Conns  BY <2>1, SockNamed
  <2> QED  BY <1>20, <2>1, <2>2, StartEffect, TornEffect
    DEF ReconnectStart, VideoQuiet, StreamStart, Others
<1>21. CASE SendVideo
  <2>1. senderState = "connected"  BY <1>21 DEF SendVideo
  <2>2. wire \in [Conns -> Traffic] /\ sock \in Conns  BY <2>1, SockNamed
  <2>3. refused' \in BOOLEAN  BY <1>21 DEF SendVideo, TypeOK
  <2> QED  BY <1>21, <2>1, <2>2, <2>3, VideoEffect, TornEffect
    DEF SendVideo, VideoQuiet, Others
<1>22. CASE SendVideoBroken
  BY <1>0, <1>22 DEF SendVideoBroken, VideoQuiet
<1>23. CASE ReportTest
  BY <1>0, <1>23 DEF ReportTest, VideoQuiet
<1>24. CASE ReportSet
  BY <1>0, <1>24 DEF ReportSet
<1>25. CASE Terminated
  BY <1>0, <1>25 DEF Terminated, TermQuiet
<1>26. CASE TerminatedTest
  BY <1>0, <1>26 DEF TerminatedTest, TermQuiet
<1>27. CASE TerminatedSet
  BY <1>0, <1>27 DEF TerminatedSet, TermQuiet
<1> QED
  BY <1>1, <1>2, <1>3, <1>4, <1>5, <1>6, <1>7, <1>8, <1>9, <1>10, <1>11, <1>12, <1>13,
     <1>14, <1>15, <1>16, <1>17, <1>18, <1>19, <1>20, <1>21, <1>22, <1>23, <1>24,
     <1>25, <1>26, <1>27 DEF Next, Main, Setup, Stop, Submit, Video, Term

(* Every action keeps the threads apart as ThreadsInv has it. *)
LEMMA ThreadsStep ==
  ASSUME TypeOK, ThreadsInv, SockInv, Next
  PROVE  ThreadsInv'
<1> USE WorkerAssumption DEF sender, net, fatal, hist, TypeOK, ThreadsInv, Ended
<1>0. ~Ended  BY DEF Next
<1>1. CASE Tick
  BY <1>0, <1>1 DEF Tick
<1>2. CASE Negotiated
  BY <1>0, <1>2 DEF Negotiated, Quiet
<1>3. CASE SetupTest
  BY <1>0, <1>3 DEF SetupTest, Quiet
<1>4. CASE SetupSet
  BY <1>0, <1>4 DEF SetupSet, Quiet
<1>5. CASE SetupConnect
  <2>1. sock = 0  BY <1>5 DEF SetupConnect, ThreadsInv
  <2>2. CASE Connected /\ main' = "start"
    BY <1>0, <1>5, <2>1, <2>2, ConnectedEffect DEF SetupConnect, Quiet
  <2>3. CASE ConnectFailed /\ main' = "started"
    BY <1>0, <1>5, <2>1, <2>3, FailedEffect DEF SetupConnect, Quiet
  <2> QED  BY <1>5, <2>2, <2>3 DEF SetupConnect
<1>6. CASE SetupStart
  BY <1>0, <1>6 DEF SetupStart, Quiet, StreamStart
<1>7. CASE StartVideo
  BY <1>0, <1>7 DEF StartVideo, Quiet
<1>8. CASE StartDone
  BY <1>0, <1>8 DEF StartDone, Quiet
<1>9. CASE SeeFatal
  BY <1>0, <1>9 DEF SeeFatal, Quiet
<1>10. CASE Signalled
  BY <1>0, <1>10 DEF Signalled, Quiet
<1>11. CASE ClearPointer
  BY <1>0, <1>11 DEF ClearPointer, Quiet
<1>12. CASE JoinVideo
  BY <1>0, <1>12 DEF JoinVideo, Quiet
<1>13. CASE StreamStop
  BY <1>0, <1>13 DEF StreamStop, Quiet
<1>14. CASE Close
  BY <1>0, <1>14 DEF Close, Quiet, CloseSock
<1>15. CASE Judge
  BY <1>0, <1>15 DEF Judge, Quiet
<1>16. CASE SubmitConnected
  BY <1>0, <1>16 DEF SubmitConnected, VideoQuiet, VideoRuns
<1>17. CASE SubmitBroken
  BY <1>0, <1>17 DEF SubmitBroken, VideoQuiet, VideoRuns, CloseSock
<1>18. CASE Heartbeat
  BY <1>0, <1>18 DEF Heartbeat, VideoQuiet
<1>19. CASE Reconnect
  <2>1. sock = 0  BY <1>19 DEF Reconnect, ThreadsInv
  <2>2. CASE Connected /\ video' = "start"
    BY <1>0, <1>19, <2>1, <2>2, ConnectedEffect DEF Reconnect, VideoQuiet
  <2>3. CASE ConnectFailed /\ video' = "idle"
    BY <1>0, <1>19, <2>1, <2>3, FailedEffect DEF Reconnect, VideoQuiet
  <2> QED  BY <1>19, <2>2, <2>3 DEF Reconnect
<1>20. CASE ReconnectStart
  BY <1>0, <1>20 DEF ReconnectStart, VideoQuiet, StreamStart
<1>21. CASE SendVideo
  BY <1>0, <1>21 DEF SendVideo, VideoQuiet
<1>22. CASE SendVideoBroken
  BY <1>0, <1>22 DEF SendVideoBroken, VideoQuiet
<1>23. CASE ReportTest
  BY <1>0, <1>23 DEF ReportTest, VideoQuiet
<1>24. CASE ReportSet
  BY <1>0, <1>24 DEF ReportSet
<1>25. CASE Terminated
  BY <1>0, <1>25 DEF Terminated, TermQuiet
<1>26. CASE TerminatedTest
  BY <1>0, <1>26 DEF TerminatedTest, TermQuiet
<1>27. CASE TerminatedSet
  BY <1>0, <1>27 DEF TerminatedSet, TermQuiet
<1> QED
  BY <1>1, <1>2, <1>3, <1>4, <1>5, <1>6, <1>7, <1>8, <1>9, <1>10, <1>11, <1>12, <1>13,
     <1>14, <1>15, <1>16, <1>17, <1>18, <1>19, <1>20, <1>21, <1>22, <1>23, <1>24,
     <1>25, <1>26, <1>27 DEF Next, Main, Setup, Stop, Submit, Video, Term

(* Every action keeps sock_fd and the open descriptors together.           *)
LEMMA SockStep ==
  ASSUME TypeOK, ThreadsInv, SockInv, Next
  PROVE  SockInv'
<1> USE WorkerAssumption DEF sender, net, fatal, hist, TypeOK, ThreadsInv, SockInv, Ended
<1>0. ~Ended  BY DEF Next
<1>1. CASE Tick
  BY <1>0, <1>1 DEF Tick
<1>2. CASE Negotiated
  BY <1>0, <1>2 DEF Negotiated, Quiet
<1>3. CASE SetupTest
  BY <1>0, <1>3 DEF SetupTest, Quiet
<1>4. CASE SetupSet
  BY <1>0, <1>4 DEF SetupSet, Quiet
<1>5. CASE SetupConnect
  <2>1. sock = 0  BY <1>5 DEF SetupConnect, ThreadsInv
  <2>2. CASE Connected /\ main' = "start"
    BY <1>0, <1>5, <2>1, <2>2, ConnectedEffect DEF SetupConnect, Quiet
  <2>3. CASE ConnectFailed /\ main' = "started"
    BY <1>0, <1>5, <2>1, <2>3, FailedEffect DEF SetupConnect, Quiet
  <2> QED  BY <1>5, <2>2, <2>3 DEF SetupConnect
<1>6. CASE SetupStart
  BY <1>0, <1>6 DEF SetupStart, Quiet, StreamStart
<1>7. CASE StartVideo
  BY <1>0, <1>7 DEF StartVideo, Quiet
<1>8. CASE StartDone
  BY <1>0, <1>8 DEF StartDone, Quiet
<1>9. CASE SeeFatal
  BY <1>0, <1>9 DEF SeeFatal, Quiet
<1>10. CASE Signalled
  BY <1>0, <1>10 DEF Signalled, Quiet
<1>11. CASE ClearPointer
  BY <1>0, <1>11 DEF ClearPointer, Quiet
<1>12. CASE JoinVideo
  BY <1>0, <1>12 DEF JoinVideo, Quiet
<1>13. CASE StreamStop
  BY <1>0, <1>13 DEF StreamStop, Quiet
<1>14. CASE Close
  BY <1>0, <1>14 DEF Close, Quiet, CloseSock
<1>15. CASE Judge
  BY <1>0, <1>15 DEF Judge, Quiet
<1>16. CASE SubmitConnected
  BY <1>0, <1>16 DEF SubmitConnected, VideoQuiet, VideoRuns
<1>17. CASE SubmitBroken
  BY <1>0, <1>17 DEF SubmitBroken, VideoQuiet, VideoRuns, CloseSock
<1>18. CASE Heartbeat
  BY <1>0, <1>18 DEF Heartbeat, VideoQuiet
<1>19. CASE Reconnect
  <2>1. sock = 0  BY <1>19 DEF Reconnect, ThreadsInv
  <2>2. CASE Connected /\ video' = "start"
    BY <1>0, <1>19, <2>1, <2>2, ConnectedEffect DEF Reconnect, VideoQuiet
  <2>3. CASE ConnectFailed /\ video' = "idle"
    BY <1>0, <1>19, <2>1, <2>3, FailedEffect DEF Reconnect, VideoQuiet
  <2> QED  BY <1>19, <2>2, <2>3 DEF Reconnect
<1>20. CASE ReconnectStart
  BY <1>0, <1>20 DEF ReconnectStart, VideoQuiet, StreamStart
<1>21. CASE SendVideo
  BY <1>0, <1>21 DEF SendVideo, VideoQuiet
<1>22. CASE SendVideoBroken
  BY <1>0, <1>22 DEF SendVideoBroken, VideoQuiet
<1>23. CASE ReportTest
  BY <1>0, <1>23 DEF ReportTest, VideoQuiet
<1>24. CASE ReportSet
  BY <1>0, <1>24 DEF ReportSet
<1>25. CASE Terminated
  BY <1>0, <1>25 DEF Terminated, TermQuiet
<1>26. CASE TerminatedTest
  BY <1>0, <1>26 DEF TerminatedTest, TermQuiet
<1>27. CASE TerminatedSet
  BY <1>0, <1>27 DEF TerminatedSet, TermQuiet
<1> QED
  BY <1>1, <1>2, <1>3, <1>4, <1>5, <1>6, <1>7, <1>8, <1>9, <1>10, <1>11, <1>12, <1>13,
     <1>14, <1>15, <1>16, <1>17, <1>18, <1>19, <1>20, <1>21, <1>22, <1>23, <1>24,
     <1>25, <1>26, <1>27 DEF Next, Main, Setup, Stop, Submit, Video, Term

(* Every action keeps what the connections carried in step with the sender. *)
LEMMA WireStep ==
  ASSUME TypeOK, ThreadsInv, SockInv, WireInv, Next
  PROVE  WireInv'
<1> USE WorkerAssumption, UnusedFields
  DEF sender, net, fatal, hist, TypeOK, ThreadsInv, SockInv, WireInv, Ended
<1>0. ~Ended  BY DEF Next
<1>1. CASE Tick
  BY <1>0, <1>1 DEF Tick
<1>2. CASE Negotiated
  BY <1>0, <1>2 DEF Negotiated, Quiet
<1>3. CASE SetupTest
  BY <1>0, <1>3 DEF SetupTest, Quiet
<1>4. CASE SetupSet
  BY <1>0, <1>4 DEF SetupSet, Quiet
<1>5. CASE SetupConnect
  <2>1. sock = 0  BY <1>5 DEF SetupConnect, ThreadsInv
  <2>2. CASE Connected /\ main' = "start"
    <3>1. wire[opened'] = Unused /\ \A c \in Conns : c > opened' => c > opened
      BY <1>0, <2>1, <2>2, ConnectedEffect DEF WireInv, TypeOK, Conns
    <3> QED
      BY <1>0, <1>5, <2>1, <2>2, <3>1, ConnectedEffect DEF SetupConnect, Quiet
  <2>3. CASE ConnectFailed /\ main' = "started"
    BY <1>0, <1>5, <2>1, <2>3, FailedEffect DEF SetupConnect, Quiet
  <2> QED  BY <1>5, <2>2, <2>3 DEF SetupConnect
<1>6. CASE SetupStart
  <2>1. senderState = "connected"  BY <1>6 DEF SetupStart, WireInv
  <2>2. wire \in [Conns -> Traffic] /\ sock \in Conns  BY <2>1, SockNamed
  <2> QED  BY <1>6, <2>1, <2>2, StartEffect, TornEffect
    DEF SetupStart, Quiet, StreamStart, Others
<1>7. CASE StartVideo
  BY <1>0, <1>7 DEF StartVideo, Quiet
<1>8. CASE StartDone
  BY <1>0, <1>8 DEF StartDone, Quiet
<1>9. CASE SeeFatal
  BY <1>0, <1>9 DEF SeeFatal, Quiet
<1>10. CASE Signalled
  BY <1>0, <1>10 DEF Signalled, Quiet
<1>11. CASE ClearPointer
  BY <1>0, <1>11 DEF ClearPointer, Quiet
<1>12. CASE JoinVideo
  BY <1>0, <1>12 DEF JoinVideo, Quiet
<1>13. CASE StreamStop
  <2>1. CASE senderState = "connected"
    <3>1. wire \in [Conns -> Traffic] /\ sock \in Conns  BY <2>1, SockNamed
    <3> QED  BY <1>13, <2>1, <3>1, StopEffect, TornEffect DEF StreamStop, Quiet, Others
  <2>2. CASE senderState # "connected"
    BY <1>13, <2>2 DEF StreamStop, Quiet
  <2> QED  BY <2>1, <2>2
<1>14. CASE Close
  BY <1>0, <1>14 DEF Close, Quiet, CloseSock
<1>15. CASE Judge
  BY <1>0, <1>15 DEF Judge, Quiet
<1>16. CASE SubmitConnected
  BY <1>0, <1>16 DEF SubmitConnected, VideoQuiet, VideoRuns
<1>17. CASE SubmitBroken
  BY <1>0, <1>17 DEF SubmitBroken, VideoQuiet, VideoRuns, CloseSock
<1>18. CASE Heartbeat
  <2>1. senderState = "connected"  BY <1>18 DEF Heartbeat, ThreadsInv
  <2>2. wire \in [Conns -> Traffic] /\ sock \in Conns  BY <2>1, SockNamed
  <2> QED  BY <1>18, <2>1, <2>2, TornEffect DEF Heartbeat, VideoQuiet, Others
<1>19. CASE Reconnect
  <2>1. sock = 0  BY <1>19 DEF Reconnect, ThreadsInv
  <2>2. CASE Connected /\ video' = "start"
    <3>1. wire[opened'] = Unused /\ \A c \in Conns : c > opened' => c > opened
      BY <1>0, <2>1, <2>2, ConnectedEffect DEF WireInv, TypeOK, Conns
    <3> QED
      BY <1>0, <1>19, <2>1, <2>2, <3>1, ConnectedEffect DEF Reconnect, VideoQuiet
  <2>3. CASE ConnectFailed /\ video' = "idle"
    BY <1>0, <1>19, <2>1, <2>3, FailedEffect DEF Reconnect, VideoQuiet
  <2> QED  BY <1>19, <2>2, <2>3 DEF Reconnect
<1>20. CASE ReconnectStart
  <2>1. senderState = "connected"  BY <1>20 DEF ReconnectStart, WireInv
  <2>2. wire \in [Conns -> Traffic] /\ sock \in Conns  BY <2>1, SockNamed
  <2> QED  BY <1>20, <2>1, <2>2, StartEffect, TornEffect
    DEF ReconnectStart, VideoQuiet, StreamStart, Others
<1>21. CASE SendVideo
  <2>1. senderState = "connected"  BY <1>21 DEF SendVideo
  <2>2. wire \in [Conns -> Traffic] /\ sock \in Conns  BY <2>1, SockNamed
  <2> QED  BY <1>21, <2>1, <2>2, VideoEffect, TornEffect DEF SendVideo, VideoQuiet, Others
<1>22. CASE SendVideoBroken
  BY <1>0, <1>22 DEF SendVideoBroken, VideoQuiet
<1>23. CASE ReportTest
  BY <1>0, <1>23 DEF ReportTest, VideoQuiet
<1>24. CASE ReportSet
  BY <1>0, <1>24 DEF ReportSet
<1>25. CASE Terminated
  BY <1>0, <1>25 DEF Terminated, TermQuiet
<1>26. CASE TerminatedTest
  BY <1>0, <1>26 DEF TerminatedTest, TermQuiet
<1>27. CASE TerminatedSet
  BY <1>0, <1>27 DEF TerminatedSet, TermQuiet
<1> QED
  BY <1>1, <1>2, <1>3, <1>4, <1>5, <1>6, <1>7, <1>8, <1>9, <1>10, <1>11, <1>12, <1>13,
     <1>14, <1>15, <1>16, <1>17, <1>18, <1>19, <1>20, <1>21, <1>22, <1>23, <1>24,
     <1>25, <1>26, <1>27 DEF Next, Main, Setup, Stop, Submit, Video, Term

(* Every action leaves a reason for the failure the video thread reports.  *)
LEMMA ReportStep ==
  ASSUME TypeOK, ThreadsInv, SockInv, WireInv, ReportInv, Next
  PROVE  ReportInv'
<1> USE WorkerAssumption
  DEF sender, net, fatal, hist, TypeOK, ThreadsInv, SockInv, WireInv, ReportInv,
      AnyTorn, Ended
<1>0. ~Ended  BY DEF Next
<1>1. CASE Tick
  BY <1>0, <1>1 DEF Tick
<1>2. CASE Negotiated
  BY <1>0, <1>2 DEF Negotiated, Quiet
<1>3. CASE SetupTest
  BY <1>0, <1>3 DEF SetupTest, Quiet
<1>4. CASE SetupSet
  BY <1>0, <1>4 DEF SetupSet, Quiet
<1>5. CASE SetupConnect
  <2>1. sock = 0  BY <1>5 DEF SetupConnect, ThreadsInv
  <2>2. CASE Connected /\ main' = "start"
    BY <1>0, <1>5, <2>1, <2>2, ConnectedEffect DEF SetupConnect, Quiet
  <2>3. CASE ConnectFailed /\ main' = "started"
    BY <1>0, <1>5, <2>1, <2>3, FailedEffect DEF SetupConnect, Quiet
  <2> QED  BY <1>5, <2>2, <2>3 DEF SetupConnect
<1>6. CASE SetupStart
  <2>1. senderState = "connected"  BY <1>6 DEF SetupStart, WireInv
  <2>2. wire \in [Conns -> Traffic] /\ sock \in Conns  BY <2>1, SockNamed
  <2> QED  BY <1>6, <2>1, <2>2, StartEffect, TornEffect
    DEF SetupStart, Quiet, StreamStart, Others
<1>7. CASE StartVideo
  BY <1>0, <1>7 DEF StartVideo, Quiet
<1>8. CASE StartDone
  BY <1>0, <1>8 DEF StartDone, Quiet
<1>9. CASE SeeFatal
  BY <1>0, <1>9 DEF SeeFatal, Quiet
<1>10. CASE Signalled
  BY <1>0, <1>10 DEF Signalled, Quiet
<1>11. CASE ClearPointer
  BY <1>0, <1>11 DEF ClearPointer, Quiet
<1>12. CASE JoinVideo
  BY <1>0, <1>12 DEF JoinVideo, Quiet
<1>13. CASE StreamStop
  <2>1. CASE senderState = "connected"
    <3>1. wire \in [Conns -> Traffic] /\ sock \in Conns  BY <2>1, SockNamed
    <3> QED  BY <1>13, <2>1, <3>1, StopEffect, TornEffect DEF StreamStop, Quiet, Others
  <2>2. CASE senderState # "connected"
    BY <1>13, <2>2 DEF StreamStop, Quiet
  <2> QED  BY <2>1, <2>2
<1>14. CASE Close
  BY <1>0, <1>14 DEF Close, Quiet, CloseSock
<1>15. CASE Judge
  BY <1>0, <1>15 DEF Judge, Quiet
<1>16. CASE SubmitConnected
  BY <1>0, <1>16 DEF SubmitConnected, VideoQuiet, VideoRuns
<1>17. CASE SubmitBroken
  BY <1>0, <1>17 DEF SubmitBroken, VideoQuiet, VideoRuns, CloseSock
<1>18. CASE Heartbeat
  <2>1. senderState = "connected"  BY <1>18 DEF Heartbeat, ThreadsInv
  <2>2. wire \in [Conns -> Traffic] /\ sock \in Conns  BY <2>1, SockNamed
  <2> QED  BY <1>18, <2>1, <2>2, TornEffect DEF Heartbeat, VideoQuiet, Others
<1>19. CASE Reconnect
  <2>1. sock = 0  BY <1>19 DEF Reconnect, ThreadsInv
  <2>2. CASE Connected /\ video' = "start"
    BY <1>0, <1>19, <2>1, <2>2, ConnectedEffect DEF Reconnect, VideoQuiet
  <2>3. CASE ConnectFailed /\ video' = "idle"
    BY <1>0, <1>19, <2>1, <2>3, FailedEffect DEF Reconnect, VideoQuiet
  <2> QED  BY <1>19, <2>2, <2>3 DEF Reconnect
<1>20. CASE ReconnectStart
  <2>1. senderState = "connected"  BY <1>20 DEF ReconnectStart, WireInv
  <2>2. wire \in [Conns -> Traffic] /\ sock \in Conns  BY <2>1, SockNamed
  <2> QED  BY <1>20, <2>1, <2>2, StartEffect, TornEffect
    DEF ReconnectStart, VideoQuiet, StreamStart, Others
<1>21. CASE SendVideo
  <2>1. senderState = "connected"  BY <1>21 DEF SendVideo
  <2>2. wire \in [Conns -> Traffic] /\ sock \in Conns  BY <2>1, SockNamed
  <2> QED  BY <1>21, <2>1, <2>2, VideoEffect, TornEffect DEF SendVideo, VideoQuiet, Others
<1>22. CASE SendVideoBroken
  BY <1>0, <1>22 DEF SendVideoBroken, VideoQuiet
<1>23. CASE ReportTest
  BY <1>0, <1>23 DEF ReportTest, VideoQuiet
<1>24. CASE ReportSet
  BY <1>0, <1>24 DEF ReportSet
<1>25. CASE Terminated
  BY <1>0, <1>25 DEF Terminated, TermQuiet
<1>26. CASE TerminatedTest
  BY <1>0, <1>26 DEF TerminatedTest, TermQuiet
<1>27. CASE TerminatedSet
  BY <1>0, <1>27 DEF TerminatedSet, TermQuiet
<1> QED
  BY <1>1, <1>2, <1>3, <1>4, <1>5, <1>6, <1>7, <1>8, <1>9, <1>10, <1>11, <1>12, <1>13,
     <1>14, <1>15, <1>16, <1>17, <1>18, <1>19, <1>20, <1>21, <1>22, <1>23, <1>24,
     <1>25, <1>26, <1>27 DEF Next, Main, Setup, Stop, Submit, Video, Term

-----------------------------------------------------------------------------
(* The invariant.                                                          *)

(* The invariant holds at first. *)
LEMMA InvInit == Init => IInv
<1> SUFFICES ASSUME Init PROVE IInv  OBVIOUS
<1> USE WorkerAssumption
<1>1. Unused \in Traffic  BY DEF Unused, Traffic
<1>2. TypeOK
  <2>1. fatalPtr \in BOOLEAN /\ refused \in BOOLEAN  BY DEF Init
  <2>2. open \subseteq 1..opened /\ sock \in 0..opened /\ opened \in 0..MaxConnects  BY
    DEF Init
  <2>3. wire \in [Conns -> Traffic]  BY <1>1 DEF Init
  <2> QED  BY <2>1, <2>2, <2>3 DEF Init, TypeOK
<1>3. ThreadsInv /\ SockInv  BY DEF Init, ThreadsInv, SockInv, Ended
<1>4. WireInv  BY UnusedFields DEF Init, WireInv
<1>5. ReportInv  BY DEF Init, ReportInv
<1> QED  BY <1>2, <1>3, <1>4, <1>5 DEF IInv

(* Every step keeps it. *)
LEMMA InvStep == IInv /\ [Next]_vars => IInv'
<1> SUFFICES ASSUME IInv, [Next]_vars PROVE IInv'  OBVIOUS
<1>1. CASE Next
  <2>1. TypeOK /\ ThreadsInv /\ SockInv /\ WireInv /\ ReportInv  BY DEF IInv
  <2> QED  BY <1>1, <2>1, TypeStep, ThreadsStep, SockStep, WireStep, ReportStep DEF IInv
<1>2. CASE UNCHANGED vars
  BY <1>2 DEF IInv, TypeOK, ThreadsInv, SockInv, WireInv, ReportInv, AnyTorn, Ended,
              vars, sender, net, fatal, hist
<1> QED  BY <1>1, <1>2

(* So it always holds. *)
LEMMA InvHolds == Spec => []IInv
BY InvInit, InvStep, PTL DEF Spec

(* The types of the worker's variables, on every thread and for every      *)
(* bound.                                                                  *)
THEOREM WorkerTyped == Spec => []TypeOK
<1>1. IInv => TypeOK  BY DEF IInv
<1> QED  BY <1>1, InvHolds, PTL

(* No reconnect and no failure loses a descriptor (tcp_sender_connect,     *)
(* tcp_sender_disconnect).                                                 *)
THEOREM WorkerOneDescriptor == Spec => []OneDescriptor
<1>1. IInv => OneDescriptor  BY DEF IInv, SockInv, OneDescriptor, Ended
<1> QED  BY <1>1, InvHolds, PTL

(* An outage of the server alone does not end the worker (worker_setup,    *)
(* ensure_connected).                                                      *)
THEOREM WorkerSurvivesOutage == Spec => []OutageIsNotFatal
<1>1. IInv => OutageIsNotFatal  BY DEF IInv, ReportInv, AnyTorn, OutageIsNotFatal
<1> QED  BY <1>1, InvHolds, PTL

-----------------------------------------------------------------------------
(* Attempts to connect.                                                    *)

(* Once an attempt of the video thread has failed, the sender stays broken *)
(* and the time of the failure stays in g_last_reconnect_ns, until the     *)
(* thread is at the next attempt.                                          *)
RetryInv ==
  triedAt # None =>
    /\ video \in {"idle", "connect", "ended"}
    /\ (video = "idle" => senderState = "error" /\ lastReconnect = triedAt)

LEMMA RetryInit == Init => RetryInv
BY DEF Init, RetryInv

(* The steps of the main thread that touch the sender or the interval are  *)
(* those without a video thread.                                           *)
LEMMA RetryOfMain ==
  ASSUME ThreadsInv, RetryInv, Main PROVE RetryInv'
<1>1. CASE Negotiated \/ SetupTest \/ SetupSet \/ StartDone \/ SeeFatal \/ Signalled
           \/ ClearPointer \/ StreamStop \/ Judge
  BY <1>1 DEF Negotiated, SetupTest, SetupSet, StartDone, SeeFatal, Signalled,
              ClearPointer, StreamStop, Judge, Quiet, hist, sender, RetryInv
<1>2. CASE SetupConnect \/ SetupStart \/ StartVideo
  <2>1. video = "none" /\ triedAt' = triedAt
    BY <1>2 DEF SetupConnect, SetupStart, StartVideo, ThreadsInv, Quiet, hist
  <2> QED  BY <2>1 DEF RetryInv
<1>3. CASE JoinVideo
  BY <1>3 DEF JoinVideo, Quiet, hist, sender, RetryInv
<1>4. CASE Close
  <2>1. video \in {"none", "ended"} /\ video' = video /\ triedAt' = triedAt
    BY <1>4 DEF Close, ThreadsInv, Quiet, hist
  <2> QED  BY <2>1 DEF RetryInv
<1> QED  BY <1>1, <1>2, <1>3, <1>4 DEF Main, Setup, Stop

(* The video thread leaves the interval alone until it fails again.        *)
LEMMA RetryOfVideo ==
  ASSUME RetryInv, Submit \/ Video PROVE RetryInv'
<1>1. CASE SubmitConnected
  BY <1>1 DEF SubmitConnected, hist, RetryInv
<1>2. CASE SubmitBroken
  BY <1>2 DEF SubmitBroken, hist, RetryInv
<1>3. CASE Reconnect
  BY <1>3 DEF Reconnect, ConnectFailed, RetryInv
<1>4. CASE Heartbeat \/ ReconnectStart \/ SendVideo \/ SendVideoBroken \/ ReportTest \/ ReportSet
  <2>1. video \notin {"idle", "connect", "ended"} /\ triedAt' = triedAt
    BY <1>4 DEF Heartbeat, ReconnectStart, SendVideo, SendVideoBroken, ReportTest, ReportSet, hist
  <2> QED  BY <2>1 DEF RetryInv
<1> QED  BY <1>1, <1>2, <1>3, <1>4 DEF Submit, Video

(* Nothing else disturbs it.                                               *)
LEMMA RetryStep == IInv /\ RetryInv /\ [Next]_vars => RetryInv'
<1> SUFFICES ASSUME IInv, RetryInv, [Next]_vars PROVE RetryInv'  OBVIOUS
<1>1. CASE Main
  BY <1>1, RetryOfMain DEF IInv
<1>2. CASE Submit \/ Video
  BY <1>2, RetryOfVideo
<1>3. CASE Tick \/ Term \/ UNCHANGED vars
  BY <1>3 DEF Tick, Term, Terminated, TerminatedTest, TerminatedSet, TermQuiet, vars,
              sender, hist, RetryInv
<1> QED  BY <1>1, <1>2, <1>3 DEF Next

(* Only a broken sender is given up for another attempt.                   *)
LEMMA AttemptIsLate ==
  ASSUME IInv, RetryInv, [Next]_vars, video # "connect", video' = "connect"
  PROVE  triedAt = None \/ now - triedAt >= ReconnectInterval
<1>1. CASE SubmitBroken
  BY <1>1 DEF SubmitBroken, RetryInv
<1>2. ~SubmitBroken => FALSE
  <2>1. ASSUME Main PROVE video' # "connect"
    BY <2>1 DEF Main, Setup, Stop, Negotiated, SetupTest, SetupSet, SetupConnect,
                SetupStart, StartVideo, StartDone, SeeFatal, Signalled, ClearPointer,
                JoinVideo, StreamStop, Close, Judge
  <2>2. ASSUME SubmitConnected \/ Video PROVE video' # "connect"
    BY <2>2 DEF SubmitConnected, Video, Heartbeat, Reconnect, ReconnectStart, SendVideo,
                SendVideoBroken, ReportTest, ReportSet
  <2>3. ASSUME Tick \/ Term \/ UNCHANGED vars PROVE video' # "connect"
    BY <2>3 DEF Tick, Term, Terminated, TerminatedTest, TerminatedSet, TermQuiet, vars
  <2> QED  BY <2>1, <2>2, <2>3 DEF Next, Submit
<1> QED  BY <1>1, <1>2

(* However its heartbeats and frames fail and whatever the other threads   *)
(* do, the video thread keeps the interval behind a failed attempt         *)
(* (ensure_connected).                                                     *)
THEOREM WorkerSpacesRetries == Spec => RetriesSpaced
<1>1. IInv /\ RetryInv /\ [Next]_vars =>
        [video # "connect" /\ video' = "connect" =>
           triedAt = None \/ now - triedAt >= ReconnectInterval]_vars
  BY AttemptIsLate
<1> QED  BY <1>1, InvHolds, RetryInit, RetryStep, PTL DEF Spec, RetriesSpaced

-----------------------------------------------------------------------------
(* Every connection is a session.                                          *)

SentOf(c) == wire[c].start + wire[c].video + wire[c].stop
States == [c \in Conns |-> StateOf(c)]
Counts == [c \in Conns |-> SentOf(c)]

(* A step that changes one connection at most, and that one as Session     *)
(* has it.                                                                 *)
LEMMA OneConnection ==
  ASSUME NEW c \in Conns,
         \A d \in Conns \ {c} : StateOf(d)' = StateOf(d) /\ SentOf(d)' = SentOf(d),
         \/ StateOf(c) = "away" /\ StateOf(c)' = "starting" /\ SentOf(c)' = SentOf(c)
         \/ StateOf(c) = "starting" /\ StateOf(c)' = "streaming" /\ SentOf(c)' = SentOf(c) + 1
         \/ StateOf(c) = "streaming" /\ StateOf(c)' \in {"streaming", "stopped"}
            /\ SentOf(c)' = SentOf(c) + 1
         \/ StateOf(c) \in {"starting", "streaming", "stopped"} /\ StateOf(c)' = "gone"
            /\ SentOf(c)' = SentOf(c)
         \/ StateOf(c)' = StateOf(c) /\ SentOf(c)' = SentOf(c)
  PROVE  SessionOf!Next \/ UNCHANGED <<States, Counts>>
<1>1. States' = [States EXCEPT ![c] = StateOf(c)']  BY DEF States
<1>2. Counts' = [Counts EXCEPT ![c] = SentOf(c)']  BY DEF Counts
<1>3. States[c] = StateOf(c) /\ Counts[c] = SentOf(c)  BY DEF States, Counts
<1>4. SentOf(c)' = SentOf(c) => Counts' = Counts  BY <1>2, <1>3 DEF Counts
<1>5. StateOf(c)' = StateOf(c) => States' = States  BY <1>1, <1>3 DEF States
<1> HIDE DEF States, Counts
<1> QED
  BY <1>1, <1>2, <1>3, <1>4, <1>5
  DEF SessionOf!Next, SessionOf!Connect, SessionOf!SendStart, SessionOf!SendVideo,
      SessionOf!SendStop, SessionOf!Send, SessionOf!Hangup, States, Counts, SentOf

(* A step that leaves the connections alone is none of Session's.          *)
LEMMA NoConnection ==
  ASSUME UNCHANGED <<wire, opened, open>>
  PROVE  UNCHANGED <<States, Counts>>
BY DEF States, Counts, StateOf, SentOf

(* connect *)
LEMMA Opens ==
  ASSUME IInv, ~Ended, sock = 0, Connected
  PROVE  SessionOf!Next \/ UNCHANGED <<States, Counts>>
<1> USE WorkerAssumption
<1>1. TypeOK /\ SockInv /\ WireInv  BY DEF IInv
<1>2. /\ opened' = opened + 1 /\ opened' \in Conns /\ opened \in Nat
      /\ open' = {opened'} /\ open = {} /\ wire' = wire
  BY <1>1, ConnectedEffect DEF TypeOK
<1> PICK c \in Conns : c = opened'  BY <1>2
<1>3. wire[c] = Unused  BY <1>1, <1>2 DEF WireInv
<1>4. \A d \in Conns \ {c} : StateOf(d)' = StateOf(d) /\ SentOf(d)' = SentOf(d)
  BY <1>2 DEF StateOf, SentOf, Conns
<1>5. StateOf(c) = "away" /\ StateOf(c)' = "starting" /\ SentOf(c)' = SentOf(c)
  BY <1>2, <1>3, UnusedFields DEF StateOf, SentOf
<1> QED  BY <1>2, <1>4, <1>5, OneConnection

(* close, or the end of the process *)
LEMMA Closes ==
  ASSUME IInv, ~Ended, open' = {}, UNCHANGED <<opened, wire>>
  PROVE  SessionOf!Next \/ UNCHANGED <<States, Counts>>
<1> USE WorkerAssumption
<1>1. CASE sock = 0
  BY <1>1, NoConnection DEF IInv, SockInv
<1>2. CASE sock # 0
  <2>1. sock \in Conns /\ sock \in 1..opened /\ opened \in Nat /\ open = {sock}
    BY <1>2 DEF IInv, TypeOK, SockInv, Conns
  <2> PICK s \in Conns : s = sock  BY <2>1
  <2>2. \A d \in Conns \ {s} : StateOf(d)' = StateOf(d) /\ SentOf(d)' = SentOf(d)
    BY <2>1 DEF StateOf, SentOf
  <2>3. StateOf(s) \in {"starting", "streaming", "stopped", "gone"} /\ StateOf(s)' = "gone"
    BY <2>1 DEF StateOf, IInv, WireInv, Conns
  <2>4. SentOf(s)' = SentOf(s)  BY DEF SentOf
  <2> QED  BY <2>1, <2>2, <2>3, <2>4, OneConnection
<1> QED  BY <1>1, <1>2

(* STREAM_START *)
LEMMA Starts ==
  ASSUME IInv, ~Ended, senderState = "connected", wire[sock] = Unused, SentStart, UNCHANGED <<opened, open>>
  PROVE  SessionOf!Next \/ UNCHANGED <<States, Counts>>
<1>1. wire \in [Conns -> Traffic] /\ sock \in Conns /\ sock \in 1..opened
  BY SockNamed DEF IInv
<1> PICK s \in Conns : s = sock  BY <1>1
<1>2. opened \in Nat /\ sock \in open  BY <1>1 DEF IInv, TypeOK, SockInv
<1>3. \A d \in Conns : wire[d] \in Traffic /\ wire'[d] \in Traffic  BY <1>1, StartEffect
<1>4. \A d \in Conns \ {s} : StateOf(d)' = StateOf(d) /\ SentOf(d)' = SentOf(d)
  BY <1>1, StartEffect DEF Others, StateOf, SentOf
<1>5. wire[sock] \in Traffic  BY <1>1
<1>6. /\ StateOf(s) = "starting" /\ StateOf(s)' = "streaming"
      /\ SentOf(s)' = SentOf(s) + 1
  BY <1>1, <1>2, <1>5, StartEffect, UnusedFields
    DEF StateOf, SentOf, Traffic, Conns, IInv, WireInv, Ended
<1> QED  BY <1>1, <1>4, <1>6, OneConnection

(* VIDEO *)
LEMMA Sends ==
  ASSUME IInv, ~Ended, senderState = "connected", main \notin {"start", "close"}, video # "start", SentVideo, UNCHANGED <<opened, open>>
  PROVE  SessionOf!Next \/ UNCHANGED <<States, Counts>>
<1>1. wire \in [Conns -> Traffic] /\ sock \in Conns /\ sock \in 1..opened
  BY SockNamed DEF IInv
<1> PICK s \in Conns : s = sock  BY <1>1
<1>2. opened \in Nat /\ sock \in open  BY <1>1 DEF IInv, TypeOK, SockInv
<1>3. \A d \in Conns : wire[d] \in Traffic /\ wire'[d] \in Traffic  BY <1>1, VideoEffect
<1>4. \A d \in Conns \ {s} : StateOf(d)' = StateOf(d) /\ SentOf(d)' = SentOf(d)
  BY <1>1, VideoEffect DEF Others, StateOf, SentOf
<1>5. wire[sock] \in Traffic  BY <1>1
<1>6. /\ StateOf(s) = "streaming" /\ StateOf(s)' = "streaming"
      /\ SentOf(s)' = SentOf(s) + 1
  BY <1>1, <1>2, <1>5, VideoEffect, UnusedFields
    DEF StateOf, SentOf, Traffic, Conns, IInv, WireInv, Ended
<1> QED  BY <1>1, <1>4, <1>6, OneConnection

(* STREAM_STOP *)
LEMMA Stops ==
  ASSUME IInv, ~Ended, senderState = "connected", main \notin {"start", "close"}, video # "start", SentStop, UNCHANGED <<opened, open>>
  PROVE  SessionOf!Next \/ UNCHANGED <<States, Counts>>
<1>1. wire \in [Conns -> Traffic] /\ sock \in Conns /\ sock \in 1..opened
  BY SockNamed DEF IInv
<1> PICK s \in Conns : s = sock  BY <1>1
<1>2. opened \in Nat /\ sock \in open  BY <1>1 DEF IInv, TypeOK, SockInv
<1>3. \A d \in Conns : wire[d] \in Traffic /\ wire'[d] \in Traffic  BY <1>1, StopEffect
<1>4. \A d \in Conns \ {s} : StateOf(d)' = StateOf(d) /\ SentOf(d)' = SentOf(d)
  BY <1>1, StopEffect DEF Others, StateOf, SentOf
<1>5. wire[sock] \in Traffic  BY <1>1
<1>6. /\ StateOf(s) = "streaming" /\ StateOf(s)' = "stopped"
      /\ SentOf(s)' = SentOf(s) + 1
  BY <1>1, <1>2, <1>5, StopEffect, UnusedFields
    DEF StateOf, SentOf, Traffic, Conns, IInv, WireInv, Ended
<1> QED  BY <1>1, <1>4, <1>6, OneConnection

(* A packet cut short, of whatever kind. *)
LEMMA Tears ==
  ASSUME IInv, ~Ended, senderState = "connected", main # "close", Torn, UNCHANGED <<opened, open>>
  PROVE  SessionOf!Next \/ UNCHANGED <<States, Counts>>
<1>1. wire \in [Conns -> Traffic] /\ sock \in Conns /\ sock \in 1..opened
  BY SockNamed DEF IInv
<1> PICK s \in Conns : s = sock  BY <1>1
<1>2. opened \in Nat /\ sock \in open  BY <1>1 DEF IInv, TypeOK, SockInv
<1>3. \A d \in Conns : wire[d] \in Traffic /\ wire'[d] \in Traffic  BY <1>1, TornEffect
<1>4. \A d \in Conns \ {s} : StateOf(d)' = StateOf(d) /\ SentOf(d)' = SentOf(d)
  BY <1>1, TornEffect DEF Others, StateOf, SentOf
<1>5. wire[sock] \in Traffic  BY <1>1
<1>6. /\ StateOf(s) \in {"starting", "streaming"} /\ StateOf(s)' = "gone"
      /\ SentOf(s)' = SentOf(s)
  BY <1>1, <1>2, <1>5, TornEffect, UnusedFields
    DEF StateOf, SentOf, Traffic, Conns, IInv, WireInv, Ended
<1> QED  BY <1>1, <1>4, <1>6, OneConnection

(* Every step of the worker is one of Session or none. *)
LEMMA SessionStep ==
  ASSUME IInv, [Next]_vars
  PROVE  SessionOf!Next \/ UNCHANGED <<States, Counts>>
<1>1. CASE UNCHANGED vars  BY <1>1, NoConnection DEF vars, net
<1>2. CASE Next
  <2>0. ~Ended  BY <1>2 DEF Next
  <2> USE <2>0
  <2>1. CASE Tick
    BY <2>1, NoConnection DEF Tick, net
  <2>2. CASE Negotiated
    BY <2>2, NoConnection DEF Negotiated, Quiet, net
  <2>3. CASE SetupTest
    BY <2>3, NoConnection DEF SetupTest, Quiet, net
  <2>4. CASE SetupSet
    BY <2>4, NoConnection DEF SetupSet, Quiet, net
  <2>5. CASE SetupConnect
    <3>1. sock = 0  BY <2>5 DEF SetupConnect, IInv, ThreadsInv
    <3>2. CASE Connected  BY <3>1, <3>2, Opens
    <3>3. CASE ConnectFailed
      <4>1. open' = {} /\ UNCHANGED <<opened, wire>>  BY <3>3, FailedEffect DEF IInv
      <4> QED  BY <4>1, Closes
    <3> QED  BY <2>5, <3>2, <3>3 DEF SetupConnect
  <2>6. CASE SetupStart
    <3>1. senderState = "connected" /\ wire[sock] = Unused /\ main # "close"
      BY <2>6 DEF SetupStart, IInv, WireInv, ThreadsInv
    <3>2. UNCHANGED <<opened, open>> /\ (SentStart \/ Torn)  BY <2>6
      DEF SetupStart, StreamStart
    <3> QED  BY <3>1, <3>2, Starts, Tears
  <2>7. CASE StartVideo
    BY <2>7, NoConnection DEF StartVideo, Quiet, net
  <2>8. CASE StartDone
    BY <2>8, NoConnection DEF StartDone, Quiet, net
  <2>9. CASE SeeFatal
    BY <2>9, NoConnection DEF SeeFatal, Quiet, net
  <2>10. CASE Signalled
    BY <2>10, NoConnection DEF Signalled, Quiet, net
  <2>11. CASE ClearPointer
    BY <2>11, NoConnection DEF ClearPointer, Quiet, net
  <2>12. CASE JoinVideo
    BY <2>12, NoConnection DEF JoinVideo, Quiet, net
  <2>13. CASE StreamStop
    <3>1. UNCHANGED <<opened, open>> /\ main = "stop" /\ video # "start"
      BY <2>13 DEF StreamStop, IInv, ThreadsInv
    <3>2. CASE senderState = "connected"
      <4>1. SentStop \/ Torn  BY <2>13, <3>2 DEF StreamStop
      <4> QED  BY <3>1, <3>2, <4>1, Stops, Tears
    <3>3. CASE senderState # "connected"
      BY <2>13, <3>1, <3>3, NoConnection DEF StreamStop
    <3> QED  BY <3>2, <3>3
  <2>14. CASE Close
    <3>1. open' = {} /\ UNCHANGED <<opened, wire>>
      BY <2>14 DEF Close, CloseSock, IInv, SockInv
    <3> QED  BY <3>1, Closes
  <2>15. CASE Judge
    BY <2>15, NoConnection DEF Judge, Quiet, net
  <2>16. CASE SubmitConnected
    BY <2>16, NoConnection DEF SubmitConnected, VideoQuiet, VideoRuns, net
  <2>17. CASE SubmitBroken
    <3>1. open' = {} /\ UNCHANGED <<opened, wire>>
      BY <2>17 DEF SubmitBroken, CloseSock, IInv, SockInv
    <3> QED  BY <3>1, Closes
  <2>18. CASE Heartbeat
    <3>1. /\ senderState = "connected" /\ UNCHANGED <<opened, open>>
          /\ main \notin {"start", "close"} /\ video # "start"
      BY <2>18 DEF Heartbeat, VideoQuiet, IInv, ThreadsInv
    <3>2. Torn \/ UNCHANGED wire  BY <2>18 DEF Heartbeat
    <3> QED  BY <3>1, <3>2, Tears, NoConnection
  <2>19. CASE Reconnect
    <3>1. sock = 0  BY <2>19 DEF Reconnect, IInv, ThreadsInv
    <3>2. CASE Connected  BY <3>1, <3>2, Opens
    <3>3. CASE ConnectFailed
      <4>1. open' = {} /\ UNCHANGED <<opened, wire>>  BY <3>3, FailedEffect DEF IInv
      <4> QED  BY <4>1, Closes
    <3> QED  BY <2>19, <3>2, <3>3 DEF Reconnect
  <2>20. CASE ReconnectStart
    <3>1. senderState = "connected" /\ wire[sock] = Unused /\ main # "close"
      BY <2>20 DEF ReconnectStart, IInv, WireInv, ThreadsInv
    <3>2. UNCHANGED <<opened, open>> /\ (SentStart \/ Torn)  BY <2>20
      DEF ReconnectStart, StreamStart
    <3> QED  BY <3>1, <3>2, Starts, Tears
  <2>21. CASE SendVideo
    <3>1. /\ senderState = "connected" /\ UNCHANGED <<opened, open>>
          /\ main \notin {"start", "close"} /\ video # "start"
      BY <2>21 DEF SendVideo, VideoQuiet, IInv, ThreadsInv
    <3>2. SentVideo \/ Torn \/ UNCHANGED wire  BY <2>21 DEF SendVideo
    <3> QED  BY <3>1, <3>2, Sends, Tears, NoConnection
  <2>22. CASE SendVideoBroken
    BY <2>22, NoConnection DEF SendVideoBroken, VideoQuiet, net
  <2>23. CASE ReportTest
    BY <2>23, NoConnection DEF ReportTest, VideoQuiet, net
  <2>24. CASE ReportSet
    BY <2>24, NoConnection DEF ReportSet, net
  <2>25. CASE Terminated
    BY <2>25, NoConnection DEF Terminated, TermQuiet, net
  <2>26. CASE TerminatedTest
    BY <2>26, NoConnection DEF TerminatedTest, TermQuiet, net
  <2>27. CASE TerminatedSet
    <3>1. UNCHANGED <<opened, wire>> /\ (open' = open \/ open' = {})  BY <2>27
      DEF TerminatedSet
    <3> QED  BY <3>1, Closes, NoConnection
  <2> QED
    BY <1>2, <2>1, <2>2, <2>3, <2>4, <2>5, <2>6, <2>7, <2>8, <2>9, <2>10, <2>11,
       <2>12, <2>13, <2>14, <2>15, <2>16, <2>17, <2>18, <2>19, <2>20, <2>21, <2>22,
       <2>23, <2>24, <2>25, <2>26, <2>27
    DEF Next, Main, Setup, Stop, Submit, Video, Term
<1> QED  BY <1>1, <1>2

(* At first no session has begun. *)
LEMMA SessionInit == Init => SessionOf!Init
<1> SUFFICES ASSUME Init PROVE SessionOf!Init  OBVIOUS
<1>1. \A c \in Conns : StateOf(c) = "away" /\ wire[c].start + wire[c].video + wire[c].stop = 0
  BY UnusedFields, WorkerAssumption DEF Init, StateOf, Conns
<1> QED  BY <1>1 DEF SessionOf!Init

(* What the worker sends over any of its connections - through setup,      *)
(* heartbeats, failed sends, reconnects and shutdown on three threads - is *)
(* a session as the server expects it (tcp_sender.c, video_callbacks.c).   *)
THEOREM WorkerKeepsSession == Spec => SessionRefined
<1>1. IInv /\ [Next]_vars => [SessionOf!Next]_<<States, Counts>>
  BY SessionStep
<1>2. IInv /\ [Next]_vars =>
        [SessionOf!Next]_<<[c \in Conns |-> StateOf(c)],
                           [c \in Conns |-> wire[c].start + wire[c].video + wire[c].stop]>>
  BY <1>1 DEF States, Counts, SentOf
<1> QED  BY <1>2, SessionInit, InvHolds, PTL DEF Spec, SessionRefined, SessionOf!Spec

=============================================================================
