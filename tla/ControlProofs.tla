---------------------------- MODULE ControlProofs ---------------------------
(***************************************************************************)
(* Proofs about ControlPath, for any number of controllers and all bounds: *)
(* the worker's exit code tells why it ended, and a controller none of     *)
(* whose commands was lost finds its button as it left it.                 *)
(*                                                                         *)
(* The second rests on Order: of what a controller has sent, the last      *)
(* command for its own button that is still on its connection says where   *)
(* the button is; if there is none there, the last one in the worker's     *)
(* socket does; and if there is none either, the host does.  That no       *)
(* command is thrown away on the way needs to be known of the lines before *)
(* the frames: Shape.                                                      *)
(***************************************************************************)
EXTENDS ControlPath, TLAPS

Places      == {"none", "backlog", "auth", "sub", "line", "frames", "closed"}
Begun       == {"nothing", "auth", "frames"}
Messages    == [kind : Kinds, part : Parts]
Datagrams   == [kind : Kinds, who : Controllers \cup {None}]
Peers       == [said : Begun, down : BOOLEAN, gone : BOOLEAN]
Sockets      == [at : Places, in : Seq(Messages)]
MainPlaces  == {"ping", "init", "start", "connect", "open", "loop", "drain", "look", "stop",
                "delay", "done"}
MainStates  == [at : MainPlaces, code : 0 .. 108]

AgentTyped  == controller \in [Controllers -> Peers] /\ conn \in [Controllers -> Sockets]
QueueTyped  == queue \in Seq(Datagrams)
HostTyped   == held \subseteq Buttons /\ lost \subseteq Controllers
WorkerTyped ==
  /\ main \in MainStates /\ running \in BOOLEAN /\ waited \in BOOLEAN
  /\ fatal \in {0, Terminated, Mismatch}

LEMMA Typed == TypeOK <=> AgentTyped /\ QueueTyped /\ HostTyped /\ WorkerTyped
  BY DEF TypeOK, AgentTyped, QueueTyped, HostTyped, WorkerTyped, Places, Begun, Messages,
     Datagrams, Peers, Sockets, MainPlaces, MainStates

-----------------------------------------------------------------------------
(* The worker's way to its exit.  A code is set behind the loop or with    *)
(* the return; the mismatch is only found while the connection is made.    *)

ExitInv ==
  /\ main.at \notin {"stop", "delay", "done"} => main.code = 0
  /\ fatal = Mismatch => main.at \in {"delay", "done"}
  /\ main.at = "stop" =>
       (main.code = 0 /\ ~running) \/ (fatal # 0 /\ main.code = 100 + fatal)
  /\ main.at = "delay" => fatal = Mismatch /\ main.code = 100 + Mismatch
  /\ ExitTells

WorkerInv == WorkerTyped /\ ExitInv

LEMMA WorkerInit == Init => WorkerInv
<1> SUFFICES ASSUME Init PROVE WorkerInv
  OBVIOUS
<1>1. main = [at |-> "ping", code |-> 0] /\ running = TRUE /\ fatal = 0 /\ waited = FALSE
  BY DEF Init
<1>2. 0 \in 0 .. 108
  OBVIOUS
<1>3. WorkerTyped
  BY <1>1, <1>2 DEF WorkerTyped, MainStates, MainPlaces
<1>4. ExitInv
  BY <1>1 DEF ExitInv, ExitTells, MainAt, Mismatch
<1> QED
  BY <1>3, <1>4 DEF WorkerInv

LEMMA WorkerKept ==
  ASSUME WorkerInv, UNCHANGED worker
  PROVE  WorkerInv'
  BY DEF worker, WorkerInv, WorkerTyped, ExitInv, ExitTells, MainAt

LEMMA WorkerStep ==
  ASSUME WorkerInv, Main \/ Terminate \/ Signal
  PROVE  WorkerInv'
<1> USE DEF WorkerInv, WorkerTyped, MainStates, MainPlaces, ExitInv, ExitTells, MainAt, MainTo,
        Return, Mismatch, Terminated
<1>1. CASE Ping  BY <1>1 DEF Ping
<1>2. CASE InitHost  BY <1>2 DEF InitHost
<1>3. CASE StartApp  BY <1>3 DEF StartApp
<1>4. CASE StartConnection  BY <1>4 DEF StartConnection
<1>5. CASE OpenSocket  BY <1>5 DEF OpenSocket
<1>6. CASE Loop  BY <1>6 DEF Loop, LeaveLoop
<1>7. CASE Serve
  <2>1. UNCHANGED worker
    BY <1>7 DEF Serve
  <2> QED
    BY <2>1, WorkerKept
<1>8. CASE Drained  BY <1>8 DEF Drained
<1>9. CASE LookFatal  BY <1>9 DEF LookFatal, LeaveLoop
<1>10. CASE StopConnection  BY <1>10 DEF StopConnection
<1>11. CASE Delay  BY <1>11 DEF Delay
<1>12. CASE Terminate  BY <1>12 DEF Terminate
<1>13. CASE Signal  BY <1>13 DEF Signal
<1> QED
  BY <1>1, <1>2, <1>3, <1>4, <1>5, <1>6, <1>7, <1>8, <1>9, <1>10, <1>11, <1>12, <1>13 DEF Main

(* What the agent and the controllers do leaves the worker alone. *)
LEMMA AgentQuiet ==
  ASSUME NEW c \in Controllers, Agent(c) \/ Say(c) \/ RequestIdr
  PROVE  UNCHANGED worker
  BY DEF Agent, Accept, Auth, ReadSub, ReadLine, ReadFrame, Say, Connect, SayAuth, SaySub,
     SayFrame, Begin, More, Leave, RequestIdr

LEMMA WorkerNext == WorkerInv /\ [Next]_vars => WorkerInv'
<1> SUFFICES ASSUME WorkerInv, [Next]_vars PROVE WorkerInv'
  OBVIOUS
<1>1. CASE UNCHANGED vars \/ RequestIdr \/ \E c \in Controllers : Agent(c) \/ Say(c)
  <2>1. UNCHANGED worker
    BY <1>1, AgentQuiet DEF vars, RequestIdr
  <2> QED
    BY <2>1, WorkerKept
<1>2. CASE Main \/ Terminate \/ Signal
  BY <1>2, WorkerStep
<1> QED
  BY <1>1, <1>2 DEF Next

(* The exit code tells why, whatever happens on the way to it:             *)
(* run_stream_command, delay_before_fatal_exit_if_needed.                  *)
THEOREM ExitCodeTells == Spec => []ExitTells
<1>1. WorkerInv => ExitTells
  BY DEF WorkerInv, ExitInv
<1> QED
  BY <1>1, WorkerInit, WorkerNext, PTL DEF Spec

-----------------------------------------------------------------------------
(* Commands on their way.  The last command for a button of its own says   *)
(* how a controller holds it.                                              *)

OwnKinds == {"down", "up"}

(* On the connection. *)
InQuiet(s) == \A i \in 1 .. Len(s) : s[i].kind \notin OwnKinds
InSays(s, b) ==
  \A i \in 1 .. Len(s) :
    s[i].kind \in OwnKinds /\ (\A j \in i + 1 .. Len(s) : s[j].kind \notin OwnKinds)
      => (s[i].kind = "down" <=> b)

(* In the worker's socket. *)
OwnOf(q, c, i) == q[i].who = c /\ q[i].kind \in OwnKinds
QueueQuiet(q, c) == \A i \in 1 .. Len(q) : ~OwnOf(q, c, i)
QueueSays(q, c, b) ==
  \A i \in 1 .. Len(q) :
    OwnOf(q, c, i) /\ (\A j \in i + 1 .. Len(q) : ~OwnOf(q, c, j)) => (q[i].kind = "down" <=> b)

LEMMA InAppendOwn ==
  ASSUME NEW s \in Seq(Messages), NEW m \in Messages, m.kind \in OwnKinds
  PROVE  InSays(Append(s, m), m.kind = "down") /\ ~InQuiet(Append(s, m))
<1>1. Len(Append(s, m)) = Len(s) + 1 /\ Append(s, m)[Len(s) + 1] = m /\ Len(s) \in Nat
  OBVIOUS
<1>2. ~InQuiet(Append(s, m))
  BY <1>1 DEF InQuiet
<1>3. ASSUME NEW i \in 1 .. Len(Append(s, m)),
             \A j \in i + 1 .. Len(Append(s, m)) : Append(s, m)[j].kind \notin OwnKinds
      PROVE  i = Len(s) + 1
  BY <1>1, <1>3
<1> QED
  BY <1>1, <1>2, <1>3 DEF InSays

LEMMA InAppendOther ==
  ASSUME NEW s \in Seq(Messages), NEW m \in Messages, m.kind \notin OwnKinds, NEW b
  PROVE  /\ InSays(s, b) => InSays(Append(s, m), b)
         /\ InQuiet(Append(s, m)) => InQuiet(s)
<1>1. /\ Len(Append(s, m)) = Len(s) + 1 /\ Append(s, m)[Len(s) + 1] = m /\ Len(s) \in Nat
      /\ \A i \in 1 .. Len(s) : Append(s, m)[i] = s[i]
  OBVIOUS
<1>2. InQuiet(Append(s, m)) => InQuiet(s)
  BY <1>1 DEF InQuiet
<1>3. ASSUME InSays(s, b), NEW i \in 1 .. Len(s) + 1, Append(s, m)[i].kind \in OwnKinds,
             \A j \in i + 1 .. Len(s) + 1 : Append(s, m)[j].kind \notin OwnKinds
      PROVE  Append(s, m)[i].kind = "down" <=> b
  <2>1. i \in 1 .. Len(s)
    BY <1>1, <1>3
  <2>2. \A j \in i + 1 .. Len(s) : s[j].kind \notin OwnKinds
    BY <1>1, <1>3
  <2> QED
    BY <1>1, <1>3, <2>1, <2>2 DEF InSays
<1> QED
  BY <1>1, <1>2, <1>3 DEF InSays

LEMMA InTail ==
  ASSUME NEW s \in Seq(Messages), s # <<>>, NEW b, InSays(s, b)
  PROVE  /\ InSays(Tail(s), b)
         /\ Head(s).kind \notin OwnKinds /\ InQuiet(Tail(s)) => InQuiet(s)
         /\ Head(s).kind \in OwnKinds /\ InQuiet(Tail(s)) => (Head(s).kind = "down" <=> b)
<1>1. /\ Len(Tail(s)) = Len(s) - 1 /\ Len(s) \in Nat \ {0} /\ Head(s) = s[1]
      /\ \A i \in 1 .. Len(s) - 1 : Tail(s)[i] = s[i + 1]
  OBVIOUS
<1>2. InQuiet(Tail(s)) => \A i \in 2 .. Len(s) : s[i].kind \notin OwnKinds
  <2> SUFFICES ASSUME InQuiet(Tail(s)), NEW i \in 2 .. Len(s) PROVE s[i].kind \notin OwnKinds
    OBVIOUS
  <2>1. i - 1 \in 1 .. Len(s) - 1 /\ (i - 1) + 1 = i
    BY <1>1
  <2> QED
    BY <1>1, <2>1 DEF InQuiet
<1>3. ASSUME NEW i \in 1 .. Len(s) - 1, Tail(s)[i].kind \in OwnKinds,
             \A j \in i + 1 .. Len(s) - 1 : Tail(s)[j].kind \notin OwnKinds
      PROVE  Tail(s)[i].kind = "down" <=> b
  <2>1. i + 1 \in 1 .. Len(s) /\ s[i + 1] = Tail(s)[i]
    BY <1>1
  <2>2. ASSUME NEW j \in (i + 1) + 1 .. Len(s) PROVE s[j].kind \notin OwnKinds
    <3>1. j - 1 \in i + 1 .. Len(s) - 1 /\ j - 1 \in 1 .. Len(s) - 1 /\ (j - 1) + 1 = j
      BY <1>1, <2>2
    <3> QED
      BY <1>1, <1>3, <3>1
  <2> QED
    BY <1>3, <2>1, <2>2 DEF InSays
<1>4. InSays(Tail(s), b)
  BY <1>1, <1>3 DEF InSays
<1>5. Head(s).kind \notin OwnKinds /\ InQuiet(Tail(s)) => InQuiet(s)
  BY <1>1, <1>2 DEF InQuiet
<1>6. Head(s).kind \in OwnKinds /\ InQuiet(Tail(s)) => (Head(s).kind = "down" <=> b)
  <2>1. 1 \in 1 .. Len(s) /\ 1 + 1 = 2
    BY <1>1
  <2> QED
    BY <1>1, <1>2, <2>1 DEF InSays
<1> QED
  BY <1>4, <1>5, <1>6

(* Pieces of the same messages. *)
LEMMA InSame ==
  ASSUME NEW s \in Seq(Messages), NEW t \in Seq(Messages), NEW b,
         Len(t) = Len(s), \A i \in 1 .. Len(s) : t[i].kind = s[i].kind
  PROVE  (InSays(s, b) => InSays(t, b)) /\ (InQuiet(t) => InQuiet(s))
<1>1. InQuiet(t) => InQuiet(s)
  BY DEF InQuiet
<1>2. ASSUME InSays(s, b), NEW i \in 1 .. Len(t), t[i].kind \in OwnKinds,
             \A j \in i + 1 .. Len(t) : t[j].kind \notin OwnKinds
      PROVE  t[i].kind = "down" <=> b
  <2>1. \A j \in i + 1 .. Len(s) : j \in 1 .. Len(s)
    OBVIOUS
  <2>2. \A j \in i + 1 .. Len(s) : s[j].kind \notin OwnKinds
    BY <1>2, <2>1
  <2> QED
    BY <1>2, <2>2 DEF InSays
<1> QED
  BY <1>1, <1>2 DEF InSays

LEMMA QueueAppend ==
  ASSUME NEW q \in Seq(Datagrams), NEW d \in Datagrams, NEW c, NEW b
  PROVE  /\ ~(d.who = c /\ d.kind \in OwnKinds) =>
              /\ QueueSays(q, c, b) => QueueSays(Append(q, d), c, b)
              /\ QueueQuiet(Append(q, d), c) => QueueQuiet(q, c)
         /\ d.who = c /\ d.kind \in OwnKinds =>
              /\ QueueSays(Append(q, d), c, d.kind = "down")
              /\ ~QueueQuiet(Append(q, d), c)
<1>1. /\ Len(Append(q, d)) = Len(q) + 1 /\ Append(q, d)[Len(q) + 1] = d /\ Len(q) \in Nat
      /\ \A i \in 1 .. Len(q) : Append(q, d)[i] = q[i]
  OBVIOUS
<1>2. CASE ~(d.who = c /\ d.kind \in OwnKinds)
  <2>1. QueueQuiet(Append(q, d), c) => QueueQuiet(q, c)
    BY <1>1 DEF QueueQuiet, OwnOf
  <2>2. ASSUME QueueSays(q, c, b), NEW i \in 1 .. Len(q) + 1, OwnOf(Append(q, d), c, i),
               \A j \in i + 1 .. Len(q) + 1 : ~OwnOf(Append(q, d), c, j)
        PROVE  Append(q, d)[i].kind = "down" <=> b
    <3>1. i \in 1 .. Len(q) /\ OwnOf(q, c, i)
      BY <1>1, <1>2, <2>2 DEF OwnOf
    <3>2. \A j \in i + 1 .. Len(q) : ~OwnOf(q, c, j)
      BY <1>1, <2>2 DEF OwnOf
    <3> QED
      BY <1>1, <2>2, <3>1, <3>2 DEF QueueSays
  <2> QED
    BY <1>1, <1>2, <2>1, <2>2 DEF QueueSays
<1>3. CASE d.who = c /\ d.kind \in OwnKinds
  <2>1. OwnOf(Append(q, d), c, Len(q) + 1)
    BY <1>1, <1>3 DEF OwnOf
  <2>2. ~QueueQuiet(Append(q, d), c)
    BY <1>1, <2>1 DEF QueueQuiet
  <2>3. ASSUME NEW i \in 1 .. Len(q) + 1,
               \A j \in i + 1 .. Len(q) + 1 : ~OwnOf(Append(q, d), c, j)
        PROVE  i = Len(q) + 1
    BY <1>1, <2>1, <2>3
  <2> QED
    BY <1>1, <1>3, <2>2, <2>3 DEF QueueSays
<1> QED
  BY <1>2, <1>3

LEMMA QueueTail ==
  ASSUME NEW q \in Seq(Datagrams), q # <<>>, NEW c, NEW b, QueueSays(q, c, b)
  PROVE  /\ QueueSays(Tail(q), c, b)
         /\ ~OwnOf(q, c, 1) /\ QueueQuiet(Tail(q), c) => QueueQuiet(q, c)
         /\ OwnOf(q, c, 1) /\ QueueQuiet(Tail(q), c) => (Head(q).kind = "down" <=> b)
<1>1. /\ Len(Tail(q)) = Len(q) - 1 /\ Len(q) \in Nat \ {0} /\ Head(q) = q[1]
      /\ \A i \in 1 .. Len(q) - 1 : Tail(q)[i] = q[i + 1]
  OBVIOUS
<1>2. ASSUME QueueQuiet(Tail(q), c), NEW i \in 2 .. Len(q) PROVE ~OwnOf(q, c, i)
  <2>1. i - 1 \in 1 .. Len(q) - 1 /\ (i - 1) + 1 = i
    BY <1>1
  <2> QED
    BY <1>1, <1>2, <2>1 DEF QueueQuiet, OwnOf
<1>3. ASSUME NEW i \in 1 .. Len(q) - 1, OwnOf(Tail(q), c, i),
             \A j \in i + 1 .. Len(q) - 1 : ~OwnOf(Tail(q), c, j)
      PROVE  Tail(q)[i].kind = "down" <=> b
  <2>1. i + 1 \in 1 .. Len(q) /\ q[i + 1] = Tail(q)[i] /\ OwnOf(q, c, i + 1)
    BY <1>1, <1>3 DEF OwnOf
  <2>2. ASSUME NEW j \in (i + 1) + 1 .. Len(q) PROVE ~OwnOf(q, c, j)
    <3>1. j - 1 \in i + 1 .. Len(q) - 1 /\ j - 1 \in 1 .. Len(q) - 1 /\ (j - 1) + 1 = j
      BY <1>1, <2>2
    <3> QED
      BY <1>1, <1>3, <3>1 DEF OwnOf
  <2> QED
    BY <2>1, <2>2 DEF QueueSays
<1>4. QueueSays(Tail(q), c, b)
  BY <1>1, <1>3 DEF QueueSays
<1>5. ~OwnOf(q, c, 1) /\ QueueQuiet(Tail(q), c) => QueueQuiet(q, c)
  BY <1>1, <1>2 DEF QueueQuiet
<1>6. OwnOf(q, c, 1) /\ QueueQuiet(Tail(q), c) => (Head(q).kind = "down" <=> b)
  <2>1. 1 \in 1 .. Len(q) /\ 1 + 1 = 2
    BY <1>1
  <2> QED
    BY <1>1, <1>2, <2>1 DEF QueueSays
<1> QED
  BY <1>4, <1>5, <1>6

-----------------------------------------------------------------------------
(* Both together: s on the connection of c, its button b, q in the socket, *)
(* h pressed at the host.                                                  *)

Ordered(s, b, q, c, h) ==
  /\ InSays(s, b)
  /\ InQuiet(s) =>
       /\ QueueSays(q, c, b)
       /\ QueueQuiet(q, c) => (<<c, "own">> \in h <=> b)

(* A line or frame is begun. *)
LEMMA OrderedBegin ==
  ASSUME NEW s \in Seq(Messages), NEW m \in Messages, NEW b, NEW q, NEW c, NEW h,
         Ordered(s, b, q, c, h)
  PROVE  Ordered(Append(s, m), IF m.kind \in OwnKinds THEN m.kind = "down" ELSE b, q, c, h)
<1>1. CASE m.kind \in OwnKinds
  BY <1>1, InAppendOwn DEF Ordered
<1>2. CASE m.kind \notin OwnKinds
  BY <1>2, InAppendOther DEF Ordered
<1> QED
  BY <1>1, <1>2

(* What is no frame of the button is taken off the connection. *)
LEMMA OrderedTake ==
  ASSUME NEW s \in Seq(Messages), s # <<>>, Head(s).kind \notin OwnKinds,
         NEW b, NEW q, NEW c, NEW h, Ordered(s, b, q, c, h)
  PROVE  Ordered(Tail(s), b, q, c, h)
  BY InTail DEF Ordered

(* A frame goes on to the worker. *)
LEMMA OrderedForward ==
  ASSUME NEW s \in Seq(Messages), s # <<>>, NEW b, NEW q \in Seq(Datagrams), NEW c, NEW h,
         NEW d \in Datagrams, d.kind = Head(s).kind, d.who = c, Ordered(s, b, q, c, h)
  PROVE  Ordered(Tail(s), b, Append(q, d), c, h)
<1>1. InSays(s, b)
  BY DEF Ordered
<1>2. CASE Head(s).kind \notin OwnKinds
  BY <1>1, <1>2, InTail, QueueAppend DEF Ordered
<1>3. CASE Head(s).kind \in OwnKinds
  <2>1. InSays(Tail(s), b)
    BY <1>1, InTail
  <2>2. InQuiet(Tail(s)) => QueueSays(Append(q, d), c, b)
    <3>1. InQuiet(Tail(s)) => (d.kind = "down" <=> b)
      BY <1>1, <1>3, InTail
    <3>2. QueueSays(Append(q, d), c, d.kind = "down")
      BY <1>3, QueueAppend
    <3> QED
      BY <3>1, <3>2 DEF QueueSays
  <2>3. ~QueueQuiet(Append(q, d), c)
    BY <1>3, QueueAppend
  <2> QED
    BY <2>1, <2>2, <2>3 DEF Ordered
<1> QED
  BY <1>2, <1>3

(* A datagram of somebody else arrives. *)
LEMMA OrderedArrive ==
  ASSUME NEW s, NEW b, NEW q \in Seq(Datagrams), NEW c, NEW h, NEW d \in Datagrams,
         d.who # c, Ordered(s, b, q, c, h)
  PROVE  Ordered(s, b, Append(q, d), c, h)
  BY QueueAppend DEF Ordered

(* The worker serves a datagram; k is what the host then takes for pressed. *)
LEMMA OrderedServe ==
  ASSUME NEW s, NEW b, NEW q \in Seq(Datagrams), q # <<>>, NEW c, NEW h, NEW k,
         Ordered(s, b, q, c, h),
         OwnOf(q, c, 1) => (<<c, "own">> \in k <=> Head(q).kind = "down"),
         ~OwnOf(q, c, 1) => (<<c, "own">> \in k <=> <<c, "own">> \in h)
  PROVE  Ordered(s, b, Tail(q), c, k)
  BY QueueTail DEF Ordered

(* The socket is closed with nothing of c in it. *)
LEMMA OrderedClear ==
  ASSUME NEW s, NEW b, NEW q \in Seq(Datagrams), NEW c, NEW h,
         \A i \in 1 .. Len(q) : q[i].who # c, Ordered(s, b, q, c, h)
  PROVE  Ordered(s, b, <<>>, c, h)
<1>1. QueueQuiet(q, c)
  BY DEF QueueQuiet, OwnOf
<1>2. QueueSays(<<>>, c, b)
  BY DEF QueueSays
<1> QED
  BY <1>1, <1>2 DEF Ordered

-----------------------------------------------------------------------------
(* The invariant.  Lines in front of the frames keep to their order.       *)

Shape(c) ==
  /\ Token /\ conn[c].at \in {"none", "backlog", "auth"} =>
       /\ conn[c].in = <<>> => controller[c].said = "nothing"
       /\ conn[c].in # <<>> => Head(conn[c].in).kind = "auth"
  /\ conn[c].at = "line" => conn[c].in # <<>> /\ Head(conn[c].in).kind = "sub"

Kept(c) ==
  /\ Ordered(conn[c].in, controller[c].down, queue, c, held)
  /\ <<c, "click">> \notin held

(* Only requests for an IDR come from nobody. *)
QueueKinds == \A i \in 1 .. Len(queue) : queue[i].who = None => queue[i].kind = "idr"

HeldInv ==
  /\ AgentTyped /\ QueueTyped /\ HostTyped /\ QueueKinds
  /\ \A c \in Controllers : Shape(c) /\ (c \notin lost => Kept(c))

(* What Next leaves to one controller and its connection. *)
OthersKept(c) ==
  \A d \in Controllers \ {c} : conn'[d] = conn[d] /\ controller'[d] = controller[d]
Arrived(c) ==
  \/ queue' = queue
  \/ \E d \in Datagrams : queue' = Append(queue, d) /\ d.who = c

LEMMA OneController ==
  ASSUME HeldInv, NEW c \in Controllers, AgentTyped', OthersKept(c), Arrived(c), held' = held,
         lost \subseteq lost', lost' \subseteq Controllers,
         Shape(c)', c \notin lost' => Kept(c)'
  PROVE  HeldInv'
<1>1. QueueTyped' /\ QueueKinds'
  <2>1. CASE queue' = queue
    BY <2>1 DEF HeldInv, QueueTyped, QueueKinds
  <2>2. CASE \E d \in Datagrams : queue' = Append(queue, d) /\ d.who = c
    <3>1. PICK d \in Datagrams : queue' = Append(queue, d) /\ d.who = c
      BY <2>2
    <3>2. queue \in Seq(Datagrams) /\ QueueKinds
      BY DEF HeldInv, QueueTyped
    <3>3. c # None
      BY ControlAssumption
    <3> QED
      BY <3>1, <3>2, <3>3 DEF QueueTyped, QueueKinds
  <2> QED
    BY <2>1, <2>2 DEF Arrived
<1>2. HostTyped'
  BY DEF HostTyped, HeldInv, Buttons
<1>3. ASSUME NEW d \in Controllers \ {c} PROVE Shape(d)' /\ (d \notin lost' => Kept(d)')
  <2>1. conn'[d] = conn[d] /\ controller'[d] = controller[d]
    BY <1>3 DEF OthersKept
  <2>2. Shape(d) /\ (d \notin lost => Kept(d))
    BY <1>3 DEF HeldInv
  <2>3. Shape(d)'
    BY <2>1, <2>2 DEF Shape
  <2>4. ASSUME d \notin lost' PROVE Kept(d)'
    <3>1. Kept(d)
      BY <2>2, <2>4
    <3>2. Ordered(conn[d].in, controller[d].down, queue, d, held)
      BY <3>1 DEF Kept
    <3>3. Ordered(conn[d].in, controller[d].down, queue', d, held)
      <4>1. CASE queue' = queue
        BY <3>2, <4>1
      <4>2. CASE \E m \in Datagrams : queue' = Append(queue, m) /\ m.who = c
        <5>1. PICK m \in Datagrams : queue' = Append(queue, m) /\ m.who = c
          BY <4>2
        <5>2. queue \in Seq(Datagrams) /\ m.who # d
          BY <1>3, <5>1 DEF HeldInv, QueueTyped
        <5> QED
          BY <3>2, <5>1, <5>2, OrderedArrive
      <4> QED
        BY <4>1, <4>2 DEF Arrived
    <3> QED
      BY <2>1, <3>1, <3>3 DEF Kept
  <2> QED
    BY <2>3, <2>4
<1> QED
  BY <1>1, <1>2, <1>3 DEF HeldInv

(* A step that leaves what is under way where it is. *)
LEMMA OneStands ==
  ASSUME HeldInv, NEW c \in Controllers, AgentTyped', OthersKept(c), UNCHANGED <<queue, host>>,
         conn'[c].in = conn[c].in, controller'[c].down = controller[c].down, Shape(c)'
  PROVE  HeldInv'
<1>1. queue' = queue /\ held' = held /\ lost' = lost
  BY DEF host
<1>2. Arrived(c) /\ lost \subseteq lost' /\ lost' \subseteq Controllers
  BY <1>1 DEF Arrived, HeldInv, HostTyped
<1>3. c \notin lost' => Kept(c)'
  BY <1>1 DEF HeldInv, Kept
<1> QED
  BY <1>1, <1>2, <1>3, OneController

(* Records with one field changed. *)
LEMMA SocketFields ==
  ASSUME NEW r \in Sockets, NEW v
  PROVE  /\ [r EXCEPT !.at = v] = [at |-> v, in |-> r.in]
         /\ [r EXCEPT !.in = v] = [at |-> r.at, in |-> v]
  BY DEF Sockets

LEMMA PeerFields ==
  ASSUME NEW r \in Peers, NEW v
  PROVE  /\ [r EXCEPT !.gone = v] = [said |-> r.said, down |-> r.down, gone |-> v]
         /\ [r EXCEPT !.down = v] = [said |-> r.said, down |-> v, gone |-> r.gone]
         /\ [r EXCEPT !.said = v] = [said |-> v, down |-> r.down, gone |-> r.gone]
  BY DEF Peers

(* What the helpers of ControlPath do to the state of one connection. *)
LEMMA GotoDoes ==
  ASSUME AgentTyped, NEW c \in Controllers, NEW a \in Places, Goto(c, a), UNCHANGED controller
  PROVE  /\ AgentTyped' /\ OthersKept(c)
         /\ conn'[c] = [at |-> a, in |-> conn[c].in] /\ controller'[c] = controller[c]
<1>1. conn[c] \in Sockets /\ conn[c].in \in Seq(Messages)
  BY DEF AgentTyped, Sockets
<1>2. conn' = [conn EXCEPT ![c] = [at |-> a, in |-> conn[c].in]]
  <2>1. conn' = [conn EXCEPT ![c] = [conn[c] EXCEPT !.at = a]]
    BY DEF Goto
  <2> QED
    BY <1>1, <2>1, SocketFields
<1>3. [at |-> a, in |-> conn[c].in] \in Sockets
  BY <1>1 DEF Sockets
<1> QED
  BY <1>2, <1>3 DEF AgentTyped, OthersKept

LEMMA TakeDoes ==
  ASSUME AgentTyped, NEW c \in Controllers, NEW a \in Places, Take(c, a), UNCHANGED controller,
         conn[c].in # <<>>
  PROVE  /\ AgentTyped' /\ OthersKept(c)
         /\ conn'[c] = [at |-> a, in |-> Tail(conn[c].in)] /\ controller'[c] = controller[c]
<1>1. conn[c].in \in Seq(Messages)
  BY DEF AgentTyped, Sockets
<1>2. [at |-> a, in |-> Tail(conn[c].in)] \in Sockets
  BY <1>1 DEF Sockets
<1> QED
  BY <1>2 DEF Take, Rest, AgentTyped, OthersKept

(* A connection that is closed loses what is on it. *)
LEMMA CloseKeeps ==
  ASSUME HeldInv, NEW c \in Controllers, Close(c), queue' = queue, held' = held
  PROVE  HeldInv'
<1>1. controller[c] \in Peers /\ AgentTyped
  BY DEF HeldInv, AgentTyped
<1>2. conn' = [conn EXCEPT ![c] = [at |-> "closed", in |-> <<>>]]
  BY DEF Close
<1>3. controller' = [controller EXCEPT ![c] =
                       [said |-> controller[c].said, down |-> controller[c].down, gone |-> TRUE]]
  <2>1. controller' = [controller EXCEPT ![c] = [controller[c] EXCEPT !.gone = TRUE]]
    BY DEF Close
  <2> QED
    BY <1>1, <2>1, PeerFields
<1>4. [at |-> "closed", in |-> <<>>] \in Sockets
  BY DEF Sockets, Places
<1>5. [said |-> controller[c].said, down |-> controller[c].down, gone |-> TRUE] \in Peers
  BY <1>1 DEF Peers
<1>6. AgentTyped' /\ OthersKept(c)
  BY <1>1, <1>2, <1>3, <1>4, <1>5 DEF AgentTyped, OthersKept
<1>7. conn'[c] = [at |-> "closed", in |-> <<>>] /\ controller'[c].down = controller[c].down
  BY <1>1, <1>2, <1>3 DEF AgentTyped
<1>8. Shape(c)'
  BY <1>7 DEF Shape
<1>9. Arrived(c) /\ lost \subseteq lost' /\ lost' \subseteq Controllers
  BY DEF Arrived, Close, HeldInv, HostTyped
<1>10. c \notin lost' => Kept(c)'
  <2> SUFFICES ASSUME c \notin lost' PROVE Kept(c)'
    OBVIOUS
  <2>1. conn[c].in = <<>> /\ c \notin lost
    BY DEF Close
  <2>2. Kept(c)
    BY <2>1 DEF HeldInv
  <2> QED
    BY <1>7, <2>1, <2>2 DEF Kept
<1> QED
  BY <1>6, <1>8, <1>9, <1>10, OneController

-----------------------------------------------------------------------------
(* The controllers.                                                        *)

LEMMA BeginKeeps ==
  ASSUME HeldInv, NEW c \in Controllers, NEW kind \in Kinds, NEW said \in {"auth", "frames"},
         Begin(c, kind, said),
         Token /\ conn[c].at \in {"backlog", "auth"} /\ conn[c].in = <<>> => kind = "auth"
  PROVE  HeldInv'
<1> DEFINE b == IF kind \in OwnKinds THEN kind = "down" ELSE controller[c].down
<1>1. controller[c] \in Peers /\ conn[c] \in Sockets /\ conn[c].in \in Seq(Messages) /\ AgentTyped
  BY DEF HeldInv, AgentTyped, Sockets
<1>2. PICK p \in Parts :
        conn' = [conn EXCEPT ![c].in = Append(@, [kind |-> kind, part |-> p])]
  BY DEF Begin
<1> DEFINE m == [kind |-> kind, part |-> p]
           s == Append(conn[c].in, m)
<1>3. m \in Messages /\ s \in Seq(Messages) /\ s # <<>>
  BY <1>1 DEF Messages
<1>4. conn' = [conn EXCEPT ![c] = [at |-> conn[c].at, in |-> s]]
  <2>1. conn' = [conn EXCEPT ![c] = [conn[c] EXCEPT !.in = s]]
    BY <1>2
  <2> QED
    BY <1>1, <2>1, SocketFields
<1>5. controller' = [controller EXCEPT ![c] = [said |-> said, down |-> b, gone |-> controller[c].gone]]
  <2> DEFINE r == [controller[c] EXCEPT !.said = said]
             other == [controller EXCEPT ![c] = r]
  <2>1. r = [said |-> said, down |-> controller[c].down, gone |-> controller[c].gone]
    BY <1>1, PeerFields
  <2>2. r \in Peers
    BY <1>1, <2>1 DEF Peers, Begun
  <2>3. controller' = [other EXCEPT ![c].down = IF kind \in {"down", "up"} THEN kind = "down" ELSE @]
    BY DEF Begin
  <2>4. other[c] = r /\ other \in [Controllers -> Peers]
    BY <1>1, <2>2 DEF AgentTyped
  <2>5. controller' = [other EXCEPT ![c] = [r EXCEPT !.down = b]]
    BY <2>1, <2>3, <2>4 DEF OwnKinds
  <2>6. r.said = said /\ r.gone = controller[c].gone
    BY <2>1
  <2> HIDE DEF r, other, b
  <2>7. [r EXCEPT !.down = b] = [said |-> said, down |-> b, gone |-> controller[c].gone]
    BY <2>2, <2>6, PeerFields
  <2>8. controller' = [controller EXCEPT ![c] = [r EXCEPT !.down = b]]
    BY <1>1, <2>5 DEF other, AgentTyped
  <2> QED
    BY <2>7, <2>8
<1>6. b \in BOOLEAN
  BY <1>1 DEF Peers
<1>7. AgentTyped' /\ OthersKept(c)
  <2>1. [at |-> conn[c].at, in |-> s] \in Sockets
    BY <1>1, <1>3 DEF Sockets
  <2>2. [said |-> said, down |-> b, gone |-> controller[c].gone] \in Peers
    BY <1>1, <1>6 DEF Peers, Begun
  <2> HIDE DEF b, s
  <2> QED
    BY <1>1, <1>4, <1>5, <2>1, <2>2 DEF AgentTyped, OthersKept
<1>8. conn'[c] = [at |-> conn[c].at, in |-> s] /\ controller'[c].down = b
  <2> HIDE DEF b, s
  <2> QED
    BY <1>1, <1>4, <1>5 DEF AgentTyped
<1>9. Head(s) = IF conn[c].in = <<>> THEN m ELSE Head(conn[c].in)
  BY <1>1, <1>3
<1>10. Shape(c)'
  <2>1. Shape(c)
    BY DEF HeldInv
  <2>2. conn[c].at # "none"
    BY DEF Begin, CanSay
  <2>3. m.kind = kind
    OBVIOUS
  <2> HIDE DEF b, s, m
  <2> QED
    BY <1>3, <1>8, <1>9, <2>1, <2>2, <2>3 DEF Shape
<1>11. Arrived(c) /\ held' = held /\ lost' = lost /\ queue' = queue
  BY DEF Begin, Arrived, host
<1>12. c \notin lost' => Kept(c)'
  <2> SUFFICES ASSUME c \notin lost PROVE Kept(c)'
    BY <1>11
  <2>1. Kept(c)
    BY DEF HeldInv
  <2>2. Ordered(conn[c].in, controller[c].down, queue, c, held)
    BY <2>1 DEF Kept
  <2>3. Ordered(s, b, queue, c, held)
    <3>1. m.kind = kind
      OBVIOUS
    <3> HIDE DEF m
    <3> QED
      BY <1>1, <1>3, <2>2, <3>1, OrderedBegin
  <2> HIDE DEF b, s
  <2> QED
    BY <1>8, <1>11, <2>1, <2>3 DEF Kept
<1>13. lost \subseteq lost' /\ lost' \subseteq Controllers
  BY <1>11 DEF HeldInv, HostTyped
<1> QED
  BY <1>7, <1>10, <1>11, <1>12, <1>13, OneController

LEMMA MoreKeeps ==
  ASSUME HeldInv, NEW c \in Controllers, More(c)
  PROVE  HeldInv'
<1>1. conn[c] \in Sockets /\ conn[c].in \in Seq(Messages) /\ AgentTyped
  BY DEF HeldInv, AgentTyped, Sockets
<1> DEFINE n == Len(conn[c].in)
           last == conn[c].in[n]
<1>2. PICK p \in Parts : conn' = [conn EXCEPT ![c].in[Len(conn[c].in)].part = p]
  BY DEF More
<1> DEFINE s == [conn[c].in EXCEPT ![n] = [kind |-> last.kind, part |-> p]]
<1>3. n \in Nat \ {0} /\ n \in 1 .. n /\ last \in Messages
  BY <1>1 DEF More
<1>4. conn' = [conn EXCEPT ![c] = [at |-> conn[c].at, in |-> s]]
  <2>1. [last EXCEPT !.part = p] = [kind |-> last.kind, part |-> p]
    BY <1>3 DEF Messages
  <2>2. conn' = [conn EXCEPT ![c] = [conn[c] EXCEPT !.in = [conn[c].in EXCEPT ![n] = [last EXCEPT !.part = p]]]]
    BY <1>2
  <2>3. conn' = [conn EXCEPT ![c] = [conn[c] EXCEPT !.in = s]]
    BY <2>1, <2>2
  <2> HIDE DEF s
  <2> QED
    BY <1>1, <2>3, SocketFields
<1>5. [kind |-> last.kind, part |-> p] \in Messages
  BY <1>3 DEF Messages
<1>6. s \in Seq(Messages) /\ Len(s) = n /\ \A i \in 1 .. n : s[i].kind = conn[c].in[i].kind
  BY <1>1, <1>3, <1>5
<1>7. s # <<>> /\ conn[c].in # <<>> /\ Head(s).kind = Head(conn[c].in).kind
  <2>1. 1 \in 1 .. n
    BY <1>3
  <2> HIDE DEF s
  <2> QED
    BY <1>1, <1>3, <1>6, <2>1
<1> HIDE DEF s, last
<1>8. [at |-> conn[c].at, in |-> s] \in Sockets
  BY <1>1, <1>6 DEF Sockets
<1>9. controller' = controller /\ queue' = queue /\ held' = held /\ lost' = lost
  BY DEF More, host
<1>10. AgentTyped' /\ OthersKept(c) /\ conn'[c] = [at |-> conn[c].at, in |-> s]
  BY <1>1, <1>4, <1>8, <1>9 DEF AgentTyped, OthersKept
<1>11. Shape(c)'
  <2>1. Shape(c)
    BY DEF HeldInv
  <2> QED
    BY <1>7, <1>9, <1>10, <2>1 DEF Shape
<1>12. c \notin lost' => Kept(c)'
  <2> SUFFICES ASSUME c \notin lost PROVE Kept(c)'
    BY <1>9
  <2>1. Kept(c)
    BY DEF HeldInv
  <2>2. Ordered(s, controller[c].down, queue, c, held)
    BY <1>1, <1>6, <2>1, InSame DEF Kept, Ordered
  <2> QED
    BY <1>9, <1>10, <2>1, <2>2 DEF Kept
<1>13. lost \subseteq lost' /\ lost' \subseteq Controllers /\ Arrived(c)
  BY <1>9 DEF HeldInv, HostTyped, Arrived
<1> QED
  BY <1>9, <1>10, <1>11, <1>12, <1>13, OneController

LEMMA SayKeeps ==
  ASSUME HeldInv, NEW c \in Controllers, Say(c)
  PROVE  HeldInv'
<1>1. controller[c] \in Peers /\ AgentTyped /\ Shape(c)
  BY DEF HeldInv, AgentTyped
<1>2. CASE Connect(c)
  <2>1. Goto(c, "backlog") /\ controller' = controller /\ UNCHANGED <<queue, host>>
    BY <1>2 DEF Connect, Goto
  <2>2. AgentTyped' /\ OthersKept(c) /\ conn'[c] = [at |-> "backlog", in |-> conn[c].in]
    BY <1>1, <2>1, GotoDoes DEF Places
  <2>3. Shape(c)'
    BY <1>1, <1>2, <2>1, <2>2 DEF Shape, Connect
  <2> QED
    BY <2>1, <2>2, <2>3, OneStands
<1>3. CASE SayAuth(c)
  BY <1>3, BeginKeeps DEF SayAuth, Kinds
<1>4. CASE SaySub(c)
  BY <1>1, <1>4, BeginKeeps DEF SaySub, MaySpeak, Kinds, Shape
<1>5. CASE SayFrame(c)
  <2>1. PICK kind \in {"up", "down", "click"} : Begin(c, kind, "frames")
    BY <1>5 DEF SayFrame
  <2> QED
    BY <1>1, <1>5, <2>1, BeginKeeps DEF SayFrame, MaySpeak, Kinds, Shape
<1>6. CASE More(c)
  BY <1>6, MoreKeeps
<1>7. CASE Leave(c)
  <2>1. controller' = [controller EXCEPT ![c] =
                         [said |-> controller[c].said, down |-> controller[c].down, gone |-> TRUE]]
    <3>1. controller' = [controller EXCEPT ![c] = [controller[c] EXCEPT !.gone = TRUE]]
      BY <1>7 DEF Leave
    <3> QED
      BY <1>1, <3>1, PeerFields
  <2>2. [said |-> controller[c].said, down |-> controller[c].down, gone |-> TRUE] \in Peers
    BY <1>1 DEF Peers
  <2>3. conn' = conn /\ UNCHANGED <<queue, host>>
    BY <1>7 DEF Leave
  <2>4. AgentTyped' /\ OthersKept(c) /\ controller'[c].down = controller[c].down
        /\ controller'[c].said = controller[c].said
    BY <1>1, <2>1, <2>2, <2>3 DEF AgentTyped, OthersKept
  <2>5. Shape(c)'
    BY <1>1, <2>3, <2>4 DEF Shape
  <2> QED
    BY <2>3, <2>4, <2>5, OneStands
<1> QED
  BY <1>2, <1>3, <1>4, <1>5, <1>6, <1>7 DEF Say

-----------------------------------------------------------------------------
(* The agent.                                                              *)

(* A connection goes on with what is on it. *)
LEMMA GotoKeeps ==
  ASSUME HeldInv, NEW c \in Controllers, NEW a \in Places, Goto(c, a),
         UNCHANGED <<controller, queue, host>>,
         a \in {"none", "backlog", "auth"} => conn[c].at \in {"none", "backlog", "auth"},
         a = "line" => conn[c].in # <<>> /\ Head(conn[c].in).kind = "sub"
  PROVE  HeldInv'
<1>1. AgentTyped /\ Shape(c)
  BY DEF HeldInv
<1>2. /\ AgentTyped' /\ OthersKept(c)
      /\ conn'[c] = [at |-> a, in |-> conn[c].in] /\ controller'[c] = controller[c]
  BY <1>1, GotoDoes
<1>3. Shape(c)'
  BY <1>1, <1>2 DEF Shape
<1> QED
  BY <1>2, <1>3, OneStands

(* A line is taken off it. *)
LEMMA TakeKeeps ==
  ASSUME HeldInv, NEW c \in Controllers, NEW a \in {"sub", "frames"}, Take(c, a),
         UNCHANGED <<controller, queue, host>>,
         conn[c].in # <<>>, Head(conn[c].in).kind \notin OwnKinds
  PROVE  HeldInv'
<1>1. AgentTyped /\ conn[c].in \in Seq(Messages)
  BY DEF HeldInv, AgentTyped, Sockets
<1>2. /\ AgentTyped' /\ OthersKept(c)
      /\ conn'[c] = [at |-> a, in |-> Tail(conn[c].in)] /\ controller'[c] = controller[c]
  BY <1>1, TakeDoes DEF Places
<1>3. Shape(c)'
  BY <1>2 DEF Shape
<1>4. queue' = queue /\ held' = held /\ lost' = lost
  BY DEF host
<1>5. lost \subseteq lost' /\ lost' \subseteq Controllers /\ Arrived(c)
  BY <1>4 DEF HeldInv, HostTyped, Arrived
<1>6. c \notin lost' => Kept(c)'
  <2> SUFFICES ASSUME c \notin lost PROVE Kept(c)'
    BY <1>4
  <2>1. Kept(c)
    BY DEF HeldInv
  <2>2. Ordered(Tail(conn[c].in), controller[c].down, queue, c, held)
    BY <1>1, <2>1, OrderedTake DEF Kept
  <2> QED
    BY <1>2, <1>4, <2>1, <2>2 DEF Kept
<1> QED
  BY <1>2, <1>3, <1>4, <1>5, <1>6, OneController

(* A frame is taken off it, and its datagram arrives or is lost. *)
LEMMA ForwardKeeps ==
  ASSUME HeldInv, NEW c \in Controllers, Take(c, "frames"), UNCHANGED controller, held' = held,
         conn[c].in # <<>>, Arrive([kind |-> Head(conn[c].in).kind, who |-> c])
  PROVE  HeldInv'
<1> DEFINE d == [kind |-> Head(conn[c].in).kind, who |-> c]
<1>1. /\ AgentTyped /\ conn[c].in \in Seq(Messages) /\ queue \in Seq(Datagrams)
      /\ Head(conn[c].in) \in Messages /\ c # None
  BY ControlAssumption DEF HeldInv, AgentTyped, Sockets, QueueTyped
<1>2. d \in Datagrams /\ d.who = c /\ d.kind = Head(conn[c].in).kind
  BY <1>1 DEF Messages, Datagrams
<1>3. /\ AgentTyped' /\ OthersKept(c)
      /\ conn'[c] = [at |-> "frames", in |-> Tail(conn[c].in)] /\ controller'[c] = controller[c]
  BY <1>1, TakeDoes DEF Places
<1>4. Shape(c)'
  BY <1>3 DEF Shape
<1> HIDE DEF d
<1>5. \/ queue' = Append(queue, d) /\ lost' = lost
      \/ queue' = queue /\ lost' = lost \cup {c}
  BY <1>1, <1>2 DEF Arrive, d
<1>6. Arrived(c) /\ lost \subseteq lost' /\ lost' \subseteq Controllers
  BY <1>2, <1>5 DEF Arrived, HeldInv, HostTyped
<1>7. c \notin lost' => Kept(c)'
  <2> SUFFICES ASSUME c \notin lost' PROVE Kept(c)'
    OBVIOUS
  <2>1. queue' = Append(queue, d) /\ Kept(c)
    BY <1>5 DEF HeldInv
  <2>2. Ordered(Tail(conn[c].in), controller[c].down, Append(queue, d), c, held)
    BY <1>1, <1>2, <2>1, OrderedForward DEF Kept
  <2> QED
    BY <1>3, <2>1, <2>2 DEF Kept
<1> QED
  BY <1>3, <1>4, <1>6, <1>7, OneController

LEMMA AgentKeeps ==
  ASSUME HeldInv, NEW c \in Controllers, Agent(c)
  PROVE  HeldInv'
<1>1. Shape(c)
  BY DEF HeldInv
<1>2. CASE Accept(c)
  <2>1. (Goto(c, "auth") /\ Here) \/ Close(c)
    BY <1>2 DEF Accept
  <2>2. conn[c].at = "backlog" /\ UNCHANGED <<queue, held>>
    BY <1>2 DEF Accept
  <2> QED
    BY <2>1, <2>2, GotoKeeps, CloseKeeps DEF Here, host, Places
<1>3. CASE Auth(c)
  <2>1. conn[c].at = "auth" /\ queue' = queue /\ held' = held
    BY <1>3 DEF Auth
  <2>2. CASE ~Token /\ Goto(c, "sub") /\ Here
    BY <2>1, <2>2, GotoKeeps DEF Here, host, Places
  <2>3. CASE Token /\ Has(c, {"whole"}) /\ Take(c, "sub") /\ Here
    <3>1. conn[c].in # <<>> /\ Head(conn[c].in).kind = "auth"
      BY <1>1, <2>1, <2>3 DEF Shape, Has
    <3> QED
      BY <2>1, <2>3, <3>1, TakeKeeps DEF Here, host, OwnKinds
  <2>4. CASE Close(c)
    BY <2>1, <2>4, CloseKeeps
  <2> QED
    BY <1>3, <2>2, <2>3, <2>4, ControlAssumption DEF Auth
<1>4. CASE ReadSub(c)
  <2>1. conn[c].at = "sub" /\ UNCHANGED <<controller, queue, host>>
    BY <1>4 DEF ReadSub
  <2>2. CASE Goto(c, "frames")
    BY <2>1, <2>2, GotoKeeps DEF Places
  <2>3. CASE conn[c].in # <<>> /\ Head(conn[c].in).kind = "sub" /\ Goto(c, "line")
    BY <2>1, <2>3, GotoKeeps DEF Places
  <2> QED
    BY <1>4, <2>2, <2>3 DEF ReadSub, Has
<1>5. CASE ReadLine(c)
  <2>1. conn[c].at = "line" /\ UNCHANGED <<controller, queue, host>>
    BY <1>5 DEF ReadLine
  <2>2. CASE Goto(c, "frames")
    BY <2>1, <2>2, GotoKeeps DEF Places
  <2>3. CASE Take(c, "frames")
    BY <1>1, <2>1, <2>3, TakeKeeps DEF Shape, OwnKinds
  <2> QED
    BY <1>5, <2>2, <2>3 DEF ReadLine
<1>6. CASE ReadFrame(c)
  <2>1. held' = held
    BY <1>6 DEF ReadFrame
  <2>2. CASE Close(c) /\ queue' = queue
    BY <2>1, <2>2, CloseKeeps
  <2>3. CASE /\ Has(c, {"whole"}) /\ Take(c, "frames") /\ UNCHANGED controller
             /\ Arrive([kind |-> Head(conn[c].in).kind, who |-> c])
    BY <2>1, <2>3, ForwardKeeps DEF Has
  <2> QED
    BY <1>6, <2>2, <2>3 DEF ReadFrame
<1> QED
  BY <1>2, <1>3, <1>4, <1>5, <1>6 DEF Agent

(* A request for an IDR, which is nobody's. *)
LEMMA RequestKeeps ==
  ASSUME HeldInv, RequestIdr
  PROVE  HeldInv'
<1> DEFINE d == [kind |-> "idr", who |-> None]
<1>1. conn' = conn /\ controller' = controller /\ held' = held
  BY DEF RequestIdr, agent
<1>2. d \in Datagrams /\ d.who = None /\ d.kind = "idr"
  BY DEF Datagrams, Kinds
<1> HIDE DEF d
<1>3. lost' = lost /\ (queue' = queue \/ queue' = Append(queue, d))
  BY <1>2 DEF RequestIdr, Arrive, d
<1>4. queue \in Seq(Datagrams) /\ QueueKinds
  BY DEF HeldInv, QueueTyped
<1>5. QueueTyped' /\ QueueKinds'
  BY <1>2, <1>3, <1>4 DEF QueueTyped, QueueKinds
<1>6. AgentTyped' /\ HostTyped'
  BY <1>1, <1>3 DEF HeldInv, AgentTyped, HostTyped
<1>7. ASSUME NEW c \in Controllers PROVE Shape(c)' /\ (c \notin lost' => Kept(c)')
  <2>1. Shape(c) /\ (c \notin lost => Kept(c)) /\ d.who # c
    BY <1>2, ControlAssumption DEF HeldInv
  <2>2. Shape(c)'
    BY <1>1, <2>1 DEF Shape
  <2>3. c \notin lost => Kept(c)'
    BY <1>1, <1>2, <1>3, <1>4, <2>1, OrderedArrive DEF Kept
  <2> QED
    BY <1>3, <2>2, <2>3
<1> QED
  BY <1>5, <1>6, <1>7 DEF HeldInv

-----------------------------------------------------------------------------
(* The worker.                                                             *)

LEMMA ServeKeeps ==
  ASSUME HeldInv, Serve
  PROVE  HeldInv'
<1> DEFINE d == Head(queue)
<1>1. conn' = conn /\ controller' = controller /\ queue' = Tail(queue) /\ queue # <<>>
  BY DEF Serve, agent
<1>2. /\ queue \in Seq(Datagrams) /\ QueueKinds /\ held \subseteq Buttons /\ lost \subseteq Controllers
  BY DEF HeldInv, QueueTyped, HostTyped
<1>3. d \in Datagrams /\ d = queue[1] /\ (d.who = None => d.kind = "idr")
  <2>1. 1 \in 1 .. Len(queue) /\ queue[1] \in Datagrams /\ Head(queue) = queue[1]
    BY <1>1, <1>2
  <2> QED
    BY <1>2, <2>1 DEF QueueKinds
<1> HIDE DEF d
<1>4. d.kind \in Kinds /\ (d.who \in Controllers \/ (d.who = None /\ d.kind = "idr"))
  BY <1>3 DEF Datagrams
<1>5. QueueTyped' /\ QueueKinds'
  <2>1. Tail(queue) \in Seq(Datagrams) /\ Len(Tail(queue)) = Len(queue) - 1 /\ Len(queue) \in Nat
    BY <1>1, <1>2
  <2>2. \A i \in 1 .. Len(queue) - 1 : Tail(queue)[i] = queue[i + 1] /\ i + 1 \in 1 .. Len(queue)
    BY <1>1, <1>2
  <2> QED
    BY <1>1, <1>2, <2>1, <2>2 DEF QueueTyped, QueueKinds
(* The datagram takes effect, or its sender is marked. *)
<1>6. \/ /\ d.kind = "down"  => held' = held \cup {<<d.who, "own">>}
         /\ d.kind = "up"    => held' = held \ {<<d.who, "own">>}
         /\ d.kind = "click" => held' = held \ {<<d.who, "click">>}
         /\ d.kind \notin {"down", "up", "click"} => held' = held
         /\ lost' = lost
      \/ /\ held' = held \/ (d.kind = "click" /\ held' = held \cup {<<d.who, "click">>})
         /\ lost' = lost \cup ({d.who} \ {None})
  BY DEF Serve, d
<1>7. HostTyped'
  BY <1>2, <1>4, <1>6 DEF HostTyped, Buttons
<1>8. ASSUME NEW c \in Controllers PROVE Shape(c)' /\ (c \notin lost' => Kept(c)')
  <2>1. Shape(c) /\ (c \notin lost => Kept(c)) /\ c # None
    BY ControlAssumption DEF HeldInv
  <2>2. Shape(c)'
    BY <1>1, <2>1 DEF Shape
  <2>3. ASSUME c \notin lost' PROVE Kept(c)'
    <3>1. Kept(c)
      BY <1>6, <2>1, <2>3
    <3>2. OwnOf(queue, c, 1) <=> d.who = c /\ d.kind \in OwnKinds
      BY <1>3 DEF OwnOf
    <3>3. OwnOf(queue, c, 1) => (<<c, "own">> \in held' <=> Head(queue).kind = "down")
      <4> SUFFICES ASSUME d.who = c, d.kind \in OwnKinds
                   PROVE  <<c, "own">> \in held' <=> d.kind = "down"
        BY <3>2 DEF d
      <4>1. lost' = lost
        BY <1>6, <2>1, <2>3
      <4> QED
        BY <1>6, <2>1, <2>3, <4>1 DEF OwnKinds
    <3>4. ~OwnOf(queue, c, 1) => (<<c, "own">> \in held' <=> <<c, "own">> \in held)
      BY <1>6, <3>2 DEF OwnKinds
    <3>5. <<c, "click">> \notin held'
      BY <1>6, <2>1, <2>3, <3>1 DEF Kept
    <3>6. Ordered(conn[c].in, controller[c].down, Tail(queue), c, held')
      BY <1>1, <1>2, <3>1, <3>3, <3>4, OrderedServe DEF Kept
    <3> QED
      BY <1>1, <3>5, <3>6 DEF Kept
  <2> QED
    BY <2>2, <2>3
<1>9. AgentTyped'
  BY <1>1 DEF HeldInv, AgentTyped
<1> QED
  BY <1>5, <1>7, <1>8, <1>9 DEF HeldInv

(* The loop is left: what the socket holds is lost. *)
LEMMA ClearKeeps ==
  ASSUME HeldInv, UNCHANGED <<agent, held>>, queue' = <<>>, lost' = lost \cup Waiting
  PROVE  HeldInv'
<1>1. conn' = conn /\ controller' = controller /\ held' = held
  BY DEF agent
<1>2. queue \in Seq(Datagrams)
  BY DEF HeldInv, QueueTyped
<1>3. Waiting \subseteq Controllers
  <2>1. \A i \in DOMAIN queue : queue[i].who \in Controllers \cup {None}
    <3>1. \A i \in DOMAIN queue : queue[i] \in Datagrams
      BY <1>2
    <3> QED
      BY <3>1 DEF Datagrams
  <2> QED
    BY <2>1 DEF Waiting
<1>4. AgentTyped' /\ QueueTyped' /\ HostTyped' /\ QueueKinds'
  BY <1>1, <1>3 DEF HeldInv, AgentTyped, QueueTyped, HostTyped, QueueKinds
<1>5. ASSUME NEW c \in Controllers PROVE Shape(c)' /\ (c \notin lost' => Kept(c)')
  <2>1. Shape(c) /\ (c \notin lost => Kept(c)) /\ c # None
    BY ControlAssumption DEF HeldInv
  <2>2. Shape(c)'
    BY <1>1, <2>1 DEF Shape
  <2>3. ASSUME c \notin lost' PROVE Kept(c)'
    <3>1. \A i \in 1 .. Len(queue) : queue[i].who # c
      BY <1>2, <2>1, <2>3 DEF Waiting
    <3> QED
      BY <1>1, <1>2, <2>1, <2>3, <3>1, OrderedClear DEF Kept
  <2> QED
    BY <2>2, <2>3
<1> QED
  BY <1>4, <1>5 DEF HeldInv

LEMMA HeldStands ==
  ASSUME HeldInv, UNCHANGED <<agent, queue, host>>
  PROVE  HeldInv'
  BY DEF agent, host, HeldInv, AgentTyped, QueueTyped, HostTyped, QueueKinds, Shape, Kept

LEMMA MainKeeps ==
  ASSUME HeldInv, Main \/ Terminate \/ Signal
  PROVE  HeldInv'
<1>1. CASE Serve
  BY <1>1, ServeKeeps
<1>2. CASE Loop
  <2>1. CASE running
    BY <1>2, <2>1, HeldStands DEF Loop, agent, host
  <2>2. CASE ~running
    BY <1>2, <2>2, ClearKeeps DEF Loop, LeaveLoop, agent
  <2> QED
    BY <2>1, <2>2
<1>3. CASE LookFatal
  <2>1. CASE fatal = 0
    BY <1>3, <2>1, HeldStands DEF LookFatal, agent, host
  <2>2. CASE fatal # 0
    BY <1>3, <2>2, ClearKeeps DEF LookFatal, LeaveLoop, agent
  <2> QED
    BY <2>1, <2>2
<1>4. CASE \/ Ping \/ InitHost \/ StartApp \/ StartConnection \/ OpenSocket
           \/ Drained \/ StopConnection \/ Delay \/ Terminate \/ Signal
  <2>1. UNCHANGED <<agent, queue, host>>
    BY <1>4 DEF Ping, InitHost, StartApp, StartConnection, OpenSocket, Drained, StopConnection,
       Delay, Terminate, Signal, Alone
  <2> QED
    BY <2>1, HeldStands
<1> QED
  BY <1>1, <1>2, <1>3, <1>4 DEF Main

LEMMA HeldNext == HeldInv /\ [Next]_vars => HeldInv'
<1> SUFFICES ASSUME HeldInv, [Next]_vars PROVE HeldInv'
  OBVIOUS
<1>1. CASE UNCHANGED vars
  <2>1. UNCHANGED <<agent, queue, host>>
    BY <1>1 DEF vars, agent
  <2> QED
    BY <2>1, HeldStands
<1> QED
  BY <1>1, AgentKeeps, SayKeeps, RequestKeeps, MainKeeps DEF Next

LEMMA HeldInit == Init => HeldInv
<1> SUFFICES ASSUME Init PROVE HeldInv
  OBVIOUS
<1>1. AgentTyped /\ QueueTyped /\ HostTyped /\ QueueKinds
  BY DEF Init, AgentTyped, QueueTyped, HostTyped, QueueKinds, Peers, Sockets, Places, Begun
<1>2. ASSUME NEW c \in Controllers PROVE Shape(c) /\ Kept(c)
  <2>1. /\ conn[c] = [at |-> "none", in |-> <<>>] /\ queue = <<>> /\ held = {}
        /\ controller[c] = [said |-> "nothing", down |-> FALSE, gone |-> FALSE]
    BY DEF Init
  <2>2. Shape(c)
    BY <2>1 DEF Shape
  <2>3. conn[c].in = <<>> /\ controller[c].down = FALSE
    BY <2>1
  <2>4. Ordered(conn[c].in, controller[c].down, queue, c, held)
    BY <2>1, <2>3 DEF Ordered, InSays, QueueSays
  <2>5. Kept(c)
    BY <2>1, <2>4 DEF Kept
  <2> QED
    BY <2>2, <2>5
<1> QED
  BY <1>1, <1>2 DEF HeldInv

(* A controller none of whose commands was lost, and that has none under   *)
(* way, has its button as the host has it: ctrl_client_thread forwards     *)
(* what ctrl_read_optional_sub and the AUTH line leave, dispatch_cmd       *)
(* serves it in order.                                                     *)
THEOREM CommandsTakeEffect == Spec => []HeldMatches
<1>1. HeldInv /\ WorkerInv => HeldMatches
  <2> SUFFICES ASSUME HeldInv, WorkerInv PROVE HeldMatches
    OBVIOUS
  <2>1. TypeOK
    BY Typed DEF HeldInv, WorkerInv
  <2>2. ASSUME NEW c \in Controllers \ lost
        PROVE  /\ ~UnderWay(c) => (<<c, "own">> \in held <=> controller[c].down)
               /\ <<c, "click">> \notin held
    <3>1. Kept(c)
      BY DEF HeldInv
    <3>2. ASSUME ~UnderWay(c) PROVE <<c, "own">> \in held <=> controller[c].down
      <4>1. conn[c].in = <<>> /\ \A i \in DOMAIN queue : queue[i].who # c
        BY <3>2 DEF UnderWay
      <4>2. DOMAIN queue = 1 .. Len(queue)
        BY DEF HeldInv, QueueTyped
      <4>3. InQuiet(conn[c].in) /\ QueueQuiet(queue, c)
        BY <4>1, <4>2 DEF InQuiet, QueueQuiet, OwnOf
      <4> QED
        BY <3>1, <4>3 DEF Kept, Ordered
    <3> QED
      BY <3>1, <3>2 DEF Kept
  <2> QED
    BY <2>1, <2>2 DEF HeldMatches
<1> QED
  BY <1>1, HeldInit, HeldNext, WorkerInit, WorkerNext, PTL DEF Spec
=============================================================================
