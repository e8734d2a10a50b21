-------------------------- MODULE StreamServerProofs --------------------------
(***************************************************************************)
(* Proofs about StreamServer, for any number of connections, streams and   *)
(* packets: the client list and its count, who closes which descriptor,    *)
(* and that an orderly stop leaves no handler on the streams.              *)
(***************************************************************************)
EXTENDS StreamServer, FiniteSetTheorems, TLAPS

PeerStates == {"away", "starting", "streaming", "stopped", "gone"}

(* A worker that connected has a stream id and a codec. *)
PeerInv ==
  /\ peer \in [Conns -> [state : PeerStates, sid : WorkerSids \cup {None},
                         codec : Codecs \cup {None}]]
  /\ \A c \in Conns : peer[c].state # "away" =>
                        peer[c].sid \in WorkerSids /\ peer[c].codec \in Codecs

(* Handlers that still own their place in the list. *)
Listed(c) == handler[c] \notin {"none", "destroy", "ended"}

(* The connection in the accept thread's hand has no handler yet, and its  *)
(* descriptor is open; a connection not accepted is nowhere.               *)
AcceptInv ==
  /\ acceptor.at \in {"admitted", "linked"} =>
       handler[acceptor.conn] = "none" /\ fd[acceptor.conn] = "open"
  /\ acceptor.at = "admitted" =>
       acceptor.conn \notin clients /\ clientCount < MaxConnections
  /\ acceptor.at = "linked" => acceptor.conn \in clients
  /\ \A c \in Conns : fd[c] = "none" => c \notin clients /\ handler[c] = "none"

(* Every working handler's client is linked, and the count is exact. *)
ListInv ==
  /\ \A c \in Conns : Listed(c) => c \in clients
  /\ ClientsAccounted

(* A descriptor is closed once or open, and then someone will close it. *)
FdInv ==
  \A c \in Conns :
    /\ closes[c] = IF fd[c] = "closed" THEN 1 ELSE 0
    /\ fd[c] = "open" => c \in clients \/ handler[c] = "destroy" \/ acceptor.conn = c

(* Past its join the accept thread is gone; past the wait so are clients.  *)
StopInv ==
  /\ main \notin {"run", "join"} => acceptor.at = "done"
  /\ main \in {"stopped", "exit"} => clients = {}

IInv == TypeOK /\ PeerInv /\ AcceptInv /\ ListInv /\ FdInv /\ StopInv

-----------------------------------------------------------------------------
(* The list and its count.                                                 *)

(* The list is finite, so that its length is a number. *)
LEMMA ClientsFinite ==
  ASSUME ListTypes PROVE IsFiniteSet(clients) /\ Cardinality(clients) \in Nat
BY FS_Subset, FS_CardinalityType, ServerAssumption DEF ListTypes

(* A client linked is one more (accept_loop). *)
LEMMA LinkCounts ==
  ASSUME ListTypes, NEW c \in Conns, c \notin clients, clientCount = Cardinality(clients)
  PROVE  clientCount + 1 = Cardinality(clients \cup {c})
BY ClientsFinite, FS_AddElement DEF ListTypes

(* A client unlinked is one less (client_handler, accept_loop). *)
LEMMA UnlinkCounts ==
  ASSUME ListTypes, NEW c \in clients, clientCount = Cardinality(clients)
  PROVE  clientCount - 1 = Cardinality(clients \ {c})
<1>1. Cardinality(clients \ {c}) = Cardinality(clients) - 1
  BY ClientsFinite, FS_RemoveElement
<1> QED  BY <1>1

-----------------------------------------------------------------------------
(* What the parts of a step do to the types.                               *)

(* close() on a descriptor. *)
LEMMA CloseFdTyped ==
  ASSUME DescriptorTypes, NEW c \in Conns, CloseFd(c)
  PROVE  /\ DescriptorTypes'
         /\ fd'[c] = "closed" /\ closes'[c] = closes[c] + 1
         /\ \A d \in Conns \ {c} : fd'[d] = fd[d] /\ closes'[d] = closes[d]
<1>1. closes[c] + 1 \in Nat  BY DEF DescriptorTypes
<1> DEFINE n == closes[c] + 1
<1>2. closes' = [closes EXCEPT ![c] = n]  BY DEF CloseFd
<1>3. n \in Nat  BY <1>1
<1> HIDE DEF n
<1>4. closes' \in [Conns -> Nat] /\ closes'[c] = n
      /\ \A d \in Conns \ {c} : closes'[d] = closes[d]
  BY <1>2, <1>3 DEF DescriptorTypes
<1> QED  BY <1>4 DEF n, DescriptorTypes, CloseFd

(* A handler goes on, with the packet it has or without one. *)
LEMMA MoveTyped ==
  ASSUME HandlerTypes, NEW c \in Conns, NEW to \in HandlerSteps, Goto(c, to),
         UNCHANGED msg, handler[c] \in PacketSteps <=> to \in PacketSteps
  PROVE  HandlerTypes'
BY DEF HandlerTypes, Goto

(* It takes a packet in hand. *)
LEMMA TakeTyped ==
  ASSUME HandlerTypes, NEW c \in Conns, NEW to \in PacketSteps, Goto(c, to),
         NEW m \in Messages, m.sid \in Sids, msg' = [msg EXCEPT ![c] = m]
  PROVE  HandlerTypes'
BY DEF HandlerTypes, Goto, PacketSteps

(* It is done with its packet. *)
LEMMA DoneTyped ==
  ASSUME HandlerTypes, NEW c \in Conns, PacketDone(c)
  PROVE  HandlerTypes'
BY DEF HandlerTypes, Goto, PacketDone, PacketSteps, HandlerSteps

(* A lock section of a handler stores a stream context. *)
LEMMA SectionTyped ==
  ASSUME StreamTypes, NEW sid \in Sids, NEW s \in StreamContexts,
         stream' = [stream EXCEPT ![sid] = s], UNCHANGED <<recorded, apart>>
  PROVE  StreamTypes'
BY DEF StreamTypes

(* The packet in hand names a known stream. *)
LEMMA PacketInHand ==
  ASSUME HandlerTypes, StreamTypes, NEW c \in Conns, handler[c] \in PacketSteps
  PROVE  /\ msg[c] \in Messages /\ Sid(c) \in Sids
         /\ stream[Sid(c)] \in StreamContexts /\ msg[c].codec \in Codecs
BY DEF HandlerTypes, StreamTypes, Sid, Messages

-----------------------------------------------------------------------------
(* Types.                                                                  *)

(* The groups of variables a step may leave alone.                         *)
StreamsQuiet  == UNCHANGED streamVars
HandlersQuiet == UNCHANGED <<handler, msg>>
FdsQuiet      == UNCHANGED <<fd, closes>>
ListQuieter   == UNCHANGED <<running, acceptor, clients, clientCount, main>>

(* Types of variables that do not change. *)
LEMMA QuietTyped ==
  /\ StreamTypes /\ StreamsQuiet => StreamTypes'
  /\ HandlerTypes /\ HandlersQuiet => HandlerTypes'
  /\ DescriptorTypes /\ FdsQuiet => DescriptorTypes'
  /\ ListTypes /\ ListQuieter => ListTypes'
<1>1. StreamTypes /\ StreamsQuiet => StreamTypes'  BY DEF StreamTypes, StreamsQuiet, streamVars
<1>2. HandlerTypes /\ HandlersQuiet => HandlerTypes'  BY DEF HandlerTypes, HandlersQuiet
<1>3. DescriptorTypes /\ FdsQuiet => DescriptorTypes'  BY DEF DescriptorTypes, FdsQuiet
<1>4. ListTypes /\ ListQuieter => ListTypes'  BY DEF ListTypes, ListQuieter
<1> QED  BY <1>1, <1>2, <1>3, <1>4

(* The accept thread keeps the types. *)
LEMMA AcceptTyped ==
  ASSUME TypeOK, AcceptInv, AcceptThread
  PROVE  TypeOK'
<1>0. /\ ListTypes /\ DescriptorTypes /\ HandlerTypes /\ StreamTypes
      /\ inbox \in [Conns -> Seq(Messages)] /\ faults \in Nat
  BY DEF TypeOK
<1>q. AcceptorQuiet
  BY DEF AcceptThread, Accept, Link, StartHandler, StartFails, AcceptorEnds, AcceptFails,
     AcceptorDone
<1>s. StreamTypes' /\ inbox' \in [Conns -> Seq(Messages)] /\ msg' = msg
      /\ running' = running /\ main' = main
  BY <1>0, <1>q, QuietTyped DEF AcceptorQuiet, StreamsQuiet
<1>1. CASE Accept
  <2>1. PICK c \in Conns :
          \/ CloseFd(c) /\ UNCHANGED acceptor
          \/ /\ fd' = [fd EXCEPT ![c] = "open"]
             /\ acceptor' = [at |-> "admitted", conn |-> c] /\ UNCHANGED closes
    BY <1>1 DEF Accept
  <2>2. UNCHANGED <<clients, clientCount, handler, faults>>  BY <1>1 DEF Accept
  <2>3. DescriptorTypes'
    BY <1>0, <2>1, CloseFdTyped DEF DescriptorTypes
  <2>a. \/ acceptor' \in [at : {"loop", "done"}, conn : {None}]
        \/ acceptor' \in [at : {"admitted", "linked"}, conn : Conns]
    <3>1. CASE UNCHANGED acceptor  BY <1>0, <3>1 DEF ListTypes
    <3>2. CASE acceptor' = [at |-> "admitted", conn |-> c]  BY <3>2
    <3> QED  BY <2>1, <3>1, <3>2
  <2>4. ListTypes'
    BY <1>0, <1>s, <2>a, <2>2 DEF ListTypes
  <2>5. HandlerTypes'
    BY <1>0, <1>s, <2>2, QuietTyped DEF HandlersQuiet
  <2> QED  BY <1>0, <1>s, <2>2, <2>3, <2>4, <2>5 DEF TypeOK
<1>2. CASE Link
  <2>1. /\ UNCHANGED <<fd, closes, handler, faults>>
        /\ clients' = clients \cup {acceptor.conn} /\ clientCount' = clientCount + 1
        /\ acceptor' = [acceptor EXCEPT !.at = "linked"]
        /\ acceptor \in [at : {"admitted", "linked"}, conn : Conns]
    BY <1>0, <1>2 DEF Link, ListTypes
  <2>2. acceptor' \in [at : {"admitted", "linked"}, conn : Conns] /\ clients' \subseteq Conns
    BY <1>0, <2>1 DEF ListTypes
  <2>a. clientCount \in Int /\ clientCount' = clientCount + 1  BY <1>0, <2>1 DEF ListTypes
  <2>3. clientCount' \in Int  BY <2>a
  <2>4. ListTypes'  BY <1>0, <1>s, <2>2, <2>3 DEF ListTypes
  <2> QED
    BY <1>0, <1>s, <2>1, <2>4, QuietTyped DEF TypeOK, HandlersQuiet, FdsQuiet
<1>3. CASE StartHandler
  <2>1. /\ UNCHANGED <<clients, clientCount, fd, closes, faults>>
        /\ acceptor' = [at |-> "loop", conn |-> None]
        /\ acceptor.conn \in Conns /\ handler' = [handler EXCEPT ![acceptor.conn] = "begin"]
    BY <1>0, <1>3 DEF StartHandler, ListTypes
  <2>2. ListTypes'  BY <1>0, <1>s, <2>1 DEF ListTypes
  <2>3. PICK c \in Conns : c = acceptor.conn  BY <2>1
  <2>4. handler[c] = "none"  BY <1>3, <2>3 DEF AcceptInv, StartHandler
  <2>5. HandlerTypes'
    BY <1>0, <1>s, <2>1, <2>3, <2>4 DEF HandlerTypes, HandlerSteps, PacketSteps
  <2> QED
    BY <1>0, <1>s, <2>1, <2>2, <2>5, QuietTyped DEF TypeOK, FdsQuiet
<1>4. CASE StartFails
  <2>1. /\ clients' = clients \ {acceptor.conn} /\ clientCount' = clientCount - 1
        /\ acceptor' = [at |-> "loop", conn |-> None]
        /\ CloseFd(acceptor.conn) /\ acceptor.conn \in Conns
        /\ handler' = handler /\ faults' = faults + 1
    BY <1>0, <1>4 DEF StartFails, ListTypes, Fault
  <2>2. DescriptorTypes'  BY <1>0, <2>1, CloseFdTyped
  <2>a. /\ clientCount \in Int /\ clientCount' = clientCount - 1
        /\ faults \in Nat /\ faults' = faults + 1
    BY <1>0, <2>1 DEF ListTypes
  <2>3. clientCount' \in Int /\ faults' \in Nat  BY <2>a
  <2>4. ListTypes'  BY <1>0, <1>s, <2>1, <2>3 DEF ListTypes
  <2> QED  BY <1>0, <1>s, <2>1, <2>2, <2>3, <2>4, QuietTyped DEF TypeOK, HandlersQuiet
<1>5. CASE AcceptorEnds \/ AcceptFails
  <2>1. /\ UNCHANGED <<clients, clientCount, fd, closes, handler>>
        /\ faults' = faults \/ faults' = faults + 1
        /\ acceptor' = [acceptor EXCEPT !.at = "done"] /\ acceptor.at = "loop"
    BY <1>5 DEF AcceptorEnds, AcceptFails, AcceptorDone, Fault
  <2>2. ListTypes'  BY <1>0, <1>s, <2>1 DEF ListTypes
  <2>3. faults' \in Nat  BY <1>0, <2>1
  <2> QED  BY <1>0, <1>s, <2>1, <2>2, <2>3, QuietTyped DEF TypeOK, HandlersQuiet, FdsQuiet
<1> QED  BY <1>1, <1>2, <1>3, <1>4, <1>5 DEF AcceptThread

(* So does the main thread. *)
LEMMA MainTyped ==
  ASSUME TypeOK, MainThread
  PROVE  TypeOK'
<1>0. /\ ListTypes /\ DescriptorTypes /\ HandlerTypes /\ StreamTypes
      /\ inbox \in [Conns -> Seq(Messages)] /\ faults \in Nat
  BY DEF TypeOK
<1>1. HandlerTypes' /\ inbox' \in [Conns -> Seq(Messages)] /\ faults' \in Nat
  BY <1>0, QuietTyped DEF MainThread, RequestStop, JoinAcceptor, CloseClients, WaitForClients,
     GiveUp, DestroyStreams, MainQuiet, HandlersQuiet
<1>2. ListTypes'
  BY <1>0 DEF MainThread, RequestStop, JoinAcceptor, CloseClients, WaitForClients,
     GiveUp, DestroyStreams, MainQuiet, ListTypes
<1>3. DescriptorTypes'
  <2>1. CASE CloseClients
    <3>1. \A c \in Conns : closes[c] + 1 \in Nat  BY <1>0 DEF DescriptorTypes
    <3> QED  BY <1>0, <2>1, <3>1 DEF CloseClients, DescriptorTypes
  <2>2. CASE FdsQuiet  BY <1>0, <2>2, QuietTyped
  <2> QED  BY <2>1, <2>2 DEF MainThread, RequestStop, JoinAcceptor, WaitForClients,
             GiveUp, DestroyStreams, FdsQuiet
<1>4. StreamTypes'
  <2>1. CASE DestroyStreams
    <3>1. \A s \in Sids : [stream[s] EXCEPT !.decoder = None] \in StreamContexts
      BY <1>0 DEF StreamTypes, StreamContexts
    <3> QED  BY <1>0, <2>1, <3>1 DEF DestroyStreams, StreamTypes
  <2>2. CASE StreamsQuiet  BY <1>0, <2>2, QuietTyped
  <2> QED  BY <2>1, <2>2 DEF MainThread, RequestStop, JoinAcceptor, CloseClients,
             WaitForClients, GiveUp, MainQuiet, StreamsQuiet
<1> QED  BY <1>1, <1>2, <1>3, <1>4 DEF TypeOK

(* A handler holds a packet exactly while it works on one. *)
LEMMA HandlerKeepsPacket ==
  ASSUME HandlerTypes, StreamTypes, inbox \in [Conns -> Seq(Messages)],
         NEW c \in Conns, Handler(c)
  PROVE  HandlerTypes' /\ inbox' \in [Conns -> Seq(Messages)]
<1> DEFINE Move == \E to \in HandlerSteps :
              /\ Goto(c, to) /\ UNCHANGED <<msg, inbox>>
              /\ handler[c] \in PacketSteps <=> to \in PacketSteps
           Done == PacketDone(c) /\ UNCHANGED inbox
<1>m. CASE Move  BY <1>m, MoveTyped
<1>d. CASE Done  BY <1>d, DoneTyped
<1> USE DEF HandlerSteps, PacketSteps
<1>1. HandlerBegins(c) => Move  BY DEF HandlerBegins
<1>2. LoopTest(c) => Move  BY DEF LoopTest
<1>3. CASE Receive(c)
  <2> DEFINE m == Head(inbox[c])
  <2>1. m \in Messages /\ Tail(inbox[c]) \in Seq(Messages)  BY <1>3 DEF Receive
  <2>2. inbox' = [inbox EXCEPT ![c] = Tail(inbox[c])]  BY <1>3 DEF Receive
  <2>3. inbox' \in [Conns -> Seq(Messages)]  BY <2>1, <2>2
  <2>4. handler[c] = "recv"
        /\ \/ /\ m.sid \in Sids /\ msg' = [msg EXCEPT ![c] = m]
              /\ Goto(c, FirstStep[m.type])
           \/ Goto(c, "loop") /\ UNCHANGED msg
    BY <1>3 DEF Receive
  <2>5. FirstStep[m.type] \in PacketSteps  BY <2>1 DEF FirstStep, Messages
  <2>6. HandlerTypes'
    <3>1. CASE Goto(c, "loop") /\ UNCHANGED msg  BY <2>4, <3>1, MoveTyped
    <3>2. CASE /\ m.sid \in Sids /\ msg' = [msg EXCEPT ![c] = m]
               /\ Goto(c, FirstStep[m.type])
      <4> HIDE DEF m, PacketSteps
      <4> QED  BY <3>2, <2>1, <2>5, TakeTyped
    <3> QED  BY <2>4, <3>1, <3>2
  <2> QED  BY <2>3, <2>6
<1>4. ReceiveFails(c) \/ HeaderRefused(c) => Move  BY DEF ReceiveFails, HeaderRefused
<1>5. SetInfo(c) => Move  BY DEF SetInfo, Section
<1>6. Activate(c) => Move  BY DEF Activate, Section
<1>7. InitDecoder(c) => Move  BY DEF InitDecoder, Section
<1>8. InitDecoderFails(c) => Move  BY DEF InitDecoderFails, Section
<1>9. RecordStart(c) => Done  BY DEF RecordStart, Tell
<1>10. RecordVideo(c) => Move  BY DEF RecordVideo
<1>11. LookForDecoder(c) => Move \/ Done  BY DEF LookForDecoder
<1>12. Decode(c) => Done  BY DEF Decode, Section
<1>13. RecordStop(c) => Move  BY DEF RecordStop, Tell
<1>14. CloseDecoder(c) => Move  BY DEF CloseDecoder, Section
<1>15. Deactivate(c) => Done  BY DEF Deactivate, Section
<1>16. Unlink(c) => Move  BY DEF Unlink
<1>17. Destroy(c) => Move  BY DEF Destroy
<1> HIDE DEF Move, Done
<1> QED
  BY <1>m, <1>d, <1>1, <1>2, <1>3, <1>4, <1>5, <1>6, <1>7, <1>8, <1>9, <1>10, <1>11, <1>12,
     <1>13, <1>14, <1>15, <1>16, <1>17 DEF Handler, HandlePacket

(* Its lock sections store stream contexts. *)
LEMMA HandlerKeepsStreams ==
  ASSUME HandlerTypes, StreamTypes, inbox \in [Conns -> Seq(Messages)],
         NEW c \in Conns, Handler(c)
  PROVE  StreamTypes'
<1> DEFINE Stored == \E s \in StreamContexts :
              /\ handler[c] \in PacketSteps
              /\ stream' = [stream EXCEPT ![Sid(c)] = s] /\ UNCHANGED <<recorded, apart>>
<1>s. CASE Stored  BY <1>s, PacketInHand, SectionTyped
<1>q. CASE StreamsQuiet  BY <1>q, QuietTyped
<1>h. handler[c] \in PacketSteps =>
        /\ stream[Sid(c)] \in StreamContexts /\ msg[c].codec \in Codecs /\ Sid(c) \in Sids
  BY PacketInHand
<1>t. CASE \E what \in Conns \cup {None} :
             /\ handler[c] \in PacketSteps /\ stream' = stream /\ apart' = apart
             /\ recorded' = [recorded EXCEPT ![Sid(c)] = what]
  BY <1>t, <1>h DEF StreamTypes
<1>1. HandlerBegins(c) \/ LoopTest(c) \/ ReceiveFails(c) \/ HeaderRefused(c) \/ RecordVideo(c)
      \/ LookForDecoder(c) \/ Unlink(c) \/ Destroy(c) => StreamsQuiet
  BY DEF HandlerBegins, LoopTest, ReceiveFails, HeaderRefused, RecordVideo, LookForDecoder,
     Unlink, Destroy, StreamsQuiet
<1>2. CASE Receive(c)
  <2> DEFINE m == Head(inbox[c])
  <2>1. stream' = stream /\ recorded' = recorded
        /\ (apart' = apart \/ apart' = [apart EXCEPT ![m.sid] = apart[m.sid] /\ InOrder(c, m)])
    BY <1>2 DEF Receive
  <2>2. apart' \in [Sids -> BOOLEAN]
    <3> HIDE DEF m
    <3>1. (apart[m.sid] /\ InOrder(c, m)) \in BOOLEAN  OBVIOUS
    <3> QED  BY <2>1, <3>1 DEF StreamTypes
  <2> QED  BY <2>1, <2>2 DEF StreamTypes
<1> USE DEF HandlerSteps, PacketSteps
<1>3. SetInfo(c) => Stored  BY <1>h DEF SetInfo, Section, StreamContexts
<1>4. Activate(c) => Stored  BY <1>h DEF Activate, Section, StreamContexts
<1>5. InitDecoder(c) => Stored  BY <1>h DEF InitDecoder, Section, StreamContexts
<1>6. InitDecoderFails(c) => Stored  BY <1>h DEF InitDecoderFails, Section
<1>7. Decode(c) => Stored  BY <1>h DEF Decode, Section
<1>8. CloseDecoder(c) => Stored  BY <1>h DEF CloseDecoder, Section, StreamContexts
<1>9. Deactivate(c) => Stored  BY <1>h DEF Deactivate, Section, StreamContexts
<1>10. CASE RecordStart(c)  BY <1>t, <1>10 DEF RecordStart, Tell
<1>11. CASE RecordStop(c)  BY <1>t, <1>11 DEF RecordStop, Tell
<1> HIDE DEF Stored
<1> QED
  BY <1>s, <1>q, <1>1, <1>2, <1>3, <1>4, <1>5, <1>6, <1>7, <1>8, <1>9, <1>10, <1>11
  DEF Handler, HandlePacket

(* A handler keeps the types, whatever packet it works on. *)
LEMMA HandlerTyped ==
  ASSUME TypeOK, NEW c \in Conns, Handler(c)
  PROVE  TypeOK'
<1>0. /\ ListTypes /\ DescriptorTypes /\ HandlerTypes /\ StreamTypes
      /\ inbox \in [Conns -> Seq(Messages)] /\ faults \in Nat
  BY DEF TypeOK
<1>1. HandlerTypes' /\ inbox' \in [Conns -> Seq(Messages)] /\ StreamTypes'
  BY <1>0, HandlerKeepsPacket, HandlerKeepsStreams
<1> USE DEF HandlerQuiet, ListQuiet
<1>2. ListTypes'
  <2>1. CASE Unlink(c)
    <3>1. clientCount \in Int /\ clientCount' = clientCount - 1
      BY <1>0, <2>1 DEF Unlink, ListTypes
    <3>2. clientCount' \in Int  BY <3>1
    <3> QED  BY <1>0, <2>1, <3>2 DEF Unlink, ListTypes
  <2>2. CASE ListQuieter  BY <1>0, <2>2, QuietTyped
  <2> QED  BY <2>1, <2>2 DEF ListQuieter, Handler, HandlePacket, HandlerBegins, LoopTest, Receive,
       ReceiveFails, HeaderRefused, SetInfo, Activate, InitDecoder, InitDecoderFails,
       RecordStart, RecordVideo, LookForDecoder, Decode, RecordStop, CloseDecoder, Deactivate, Destroy, Section, Tell
<1>3. DescriptorTypes'
  <2>1. CASE CloseFd(c)  BY <1>0, <2>1, CloseFdTyped
  <2>2. CASE FdsQuiet  BY <1>0, <2>2, QuietTyped
  <2> QED  BY <2>1, <2>2 DEF FdsQuiet, Handler, HandlePacket, HandlerBegins, LoopTest, Receive,
       ReceiveFails, HeaderRefused, SetInfo, Activate, InitDecoder, InitDecoderFails,
       RecordStart, RecordVideo, LookForDecoder, Decode, RecordStop, CloseDecoder, Deactivate, Destroy, Unlink, Section, Tell
<1>4. faults' = faults \/ faults' = faults + 1
  BY DEF Fault, Handler, HandlePacket, HandlerBegins, LoopTest, Receive,
     ReceiveFails, HeaderRefused, SetInfo, Activate, InitDecoder, InitDecoderFails,
     RecordStart, RecordVideo, LookForDecoder, Decode, RecordStop, CloseDecoder, Deactivate, Destroy, Unlink, Section, Tell
<1>5. faults' \in Nat  BY <1>0, <1>4
<1> QED  BY <1>1, <1>2, <1>3, <1>5 DEF TypeOK

(* What a worker sends is a packet. *)
LEMMA WorkerTyped ==
  ASSUME TypeOK, PeerInv, NEW c \in Conns, Worker(c)
  PROVE  TypeOK' /\ PeerInv'
<1>0. /\ ListTypes /\ DescriptorTypes /\ HandlerTypes /\ StreamTypes
      /\ inbox \in [Conns -> Seq(Messages)] /\ faults \in Nat
  BY DEF TypeOK
<1>1. UNCHANGED <<serverVars, handler, msg, streamVars, faults>>
  BY DEF Worker, Connect, SendStart, SendVideo, SendStop, Send, Hangup
<1>2. ListTypes' /\ DescriptorTypes' /\ HandlerTypes' /\ StreamTypes' /\ faults' \in Nat
  BY <1>0, <1>1, QuietTyped
  DEF serverVars, ListQuieter, FdsQuiet, HandlersQuiet, StreamsQuiet
<1>3. ASSUME NEW from \in PeerStates \ {"away"}, NEW type \in {"start", "video", "stop"},
             NEW to \in PeerStates, Send(c, from, type, to)
      PROVE  inbox' \in [Conns -> Seq(Messages)] /\ PeerInv'
  <2> DEFINE m == [type |-> type, sid |-> peer[c].sid, codec |-> peer[c].codec]
  <2>1. peer[c].sid \in WorkerSids /\ peer[c].codec \in Codecs
    BY <1>3 DEF Send, PeerInv
  <2>2. m \in Messages  BY <2>1 DEF Messages
  <2>3. inbox' = [inbox EXCEPT ![c] = Append(inbox[c], m)]  BY <1>3 DEF Send
  <2>4. Append(inbox[c], m) \in Seq(Messages)
    <3> HIDE DEF m
    <3> QED  BY <1>0, <2>2
  <2>5. inbox' \in [Conns -> Seq(Messages)]  BY <1>0, <2>3, <2>4
  <2>6. peer' = [peer EXCEPT ![c].state = to]  BY <1>3 DEF Send
  <2>7. PeerInv'  BY <2>1, <2>6 DEF PeerInv
  <2> QED  BY <2>5, <2>7
<1>4. inbox' \in [Conns -> Seq(Messages)] /\ PeerInv'
  <2>1. CASE Connect(c)
    <3>1. PICK sid \in WorkerSids, codec \in Codecs :
            peer' = [peer EXCEPT ![c] = [state |-> "starting", sid |-> sid, codec |-> codec]]
      BY <2>1 DEF Connect
    <3>2. PeerInv'  BY <3>1 DEF PeerInv, PeerStates
    <3> QED  BY <1>0, <2>1, <3>2 DEF Connect
  <2>2. CASE Hangup(c)
    <3>1. peer' = [peer EXCEPT ![c].state = "gone"] /\ peer[c].state # "away"
      BY <2>2 DEF Hangup
    <3>2. PeerInv'  BY <3>1 DEF PeerInv, PeerStates
    <3> QED  BY <1>0, <2>2, <3>2 DEF Hangup
  <2>3. CASE SendStart(c) \/ SendVideo(c) \/ SendStop(c)
    BY <1>3, <2>3 DEF SendStart, SendVideo, SendStop, PeerStates
  <2> QED  BY <2>1, <2>2, <2>3 DEF Worker
<1> QED  BY <1>2, <1>4 DEF TypeOK

-----------------------------------------------------------------------------
(* The list, the descriptors and the shutdown.                             *)

Control == AcceptInv /\ ListInv /\ FdInv /\ StopInv

(* What is known of the connection in the accept thread's hand. *)
LEMMA InHand ==
  ASSUME ListTypes, AcceptInv, acceptor.at \in {"admitted", "linked"}
  PROVE  /\ acceptor.conn \in Conns /\ handler[acceptor.conn] = "none"
         /\ fd[acceptor.conn] = "open"
BY DEF ListTypes, AcceptInv

(* The accept thread admits, links, starts a handler or gives up on it. *)
LEMMA AcceptControl ==
  ASSUME TypeOK, Control, AcceptThread
  PROVE  Control'
<1>0. ListTypes /\ DescriptorTypes /\ HandlerTypes /\ AcceptInv /\ ListInv /\ FdInv /\ StopInv
  BY DEF TypeOK, Control
<1>n. None \notin Conns  BY ServerAssumption
<1>1. CASE Accept
  <2>1. PICK c \in Conns :
          /\ fd[c] = "none"
          /\ \/ CloseFd(c) /\ UNCHANGED acceptor
             \/ /\ clientCount < MaxConnections
                /\ fd' = [fd EXCEPT ![c] = "open"]
                /\ acceptor' = [at |-> "admitted", conn |-> c] /\ UNCHANGED closes
    BY <1>1 DEF Accept
  <2>2. /\ UNCHANGED <<clients, clientCount, handler, main>> /\ acceptor.at = "loop"
        /\ c \notin clients /\ handler[c] = "none" /\ closes[c] = 0 /\ acceptor.conn = None
    BY <1>0, <1>1, <2>1 DEF Accept, AcceptorQuiet, AcceptInv, FdInv, ListTypes
  <2>3. CASE CloseFd(c) /\ UNCHANGED acceptor
    <3>1. fd'[c] = "closed" /\ closes'[c] = 1
          /\ \A d \in Conns \ {c} : fd'[d] = fd[d] /\ closes'[d] = closes[d]
      BY <1>0, <2>2, <2>3, CloseFdTyped
    <3> QED  BY <1>0, <2>2, <2>3, <3>1
        DEF Control, AcceptInv, ListInv, ClientsAccounted, Listed, FdInv, StopInv
  <2>4. CASE /\ clientCount < MaxConnections /\ fd' = [fd EXCEPT ![c] = "open"]
             /\ acceptor' = [at |-> "admitted", conn |-> c] /\ UNCHANGED closes
    <3>1. fd'[c] = "open" /\ \A d \in Conns \ {c} : fd'[d] = fd[d]
      BY <1>0, <2>4 DEF DescriptorTypes
    <3>2. acceptor'.at = "admitted" /\ acceptor'.conn = c  BY <2>4
    <3> QED  BY <1>0, <2>2, <2>4, <3>1, <3>2, <1>n
        DEF Control, AcceptInv, ListInv, ClientsAccounted, Listed, FdInv, StopInv
  <2> QED  BY <2>1, <2>3, <2>4
<1>2. CASE Link
  <2>1. /\ acceptor.at = "admitted" /\ UNCHANGED <<fd, closes, handler, main>>
        /\ clients' = clients \cup {acceptor.conn} /\ clientCount' = clientCount + 1
        /\ acceptor' = [acceptor EXCEPT !.at = "linked"]
    BY <1>2 DEF Link, AcceptorQuiet
  <2>2. acceptor.conn \in Conns /\ acceptor.conn \notin clients
        /\ clientCount < MaxConnections /\ clientCount = Cardinality(clients)
    BY <1>0, <2>1, InHand DEF AcceptInv, ListInv, ClientsAccounted
  <2>3. acceptor'.at = "linked" /\ acceptor'.conn = acceptor.conn
    BY <1>0, <2>1 DEF ListTypes
  <2>4. ClientsAccounted'
    <3>1. clientCount + 1 = Cardinality(clients \cup {acceptor.conn})
      BY <1>0, <2>2, LinkCounts
    <3>2. clientCount \in Int /\ MaxConnections \in Nat
      BY <1>0, ServerAssumption DEF ListTypes
    <3>3. clientCount + 1 <= MaxConnections  BY <2>2, <3>2
    <3> QED  BY <2>1, <3>1, <3>3 DEF ClientsAccounted
  <2> QED  BY <1>0, <2>1, <2>2, <2>3, <2>4, InHand
      DEF Control, AcceptInv, ListInv, Listed, FdInv, StopInv
<1>3. CASE StartHandler
  <2>1. /\ acceptor.at = "linked" /\ UNCHANGED <<clients, clientCount, fd, closes, main>>
        /\ acceptor' = [at |-> "loop", conn |-> None]
        /\ handler' = [handler EXCEPT ![acceptor.conn] = "begin"]
    BY <1>3 DEF StartHandler, AcceptorQuiet
  <2>2. acceptor.conn \in clients /\ acceptor.conn \in Conns /\ fd[acceptor.conn] = "open"
    BY <1>0, <2>1, InHand DEF AcceptInv
  <2>3. acceptor'.at = "loop" /\ acceptor'.conn = None  BY <2>1
  <2>4. handler'[acceptor.conn] = "begin"
        /\ \A d \in Conns \ {acceptor.conn} : handler'[d] = handler[d]
    BY <1>0, <2>1, <2>2 DEF HandlerTypes
  <2> QED  BY <1>0, <2>1, <2>2, <2>3, <2>4
      DEF Control, AcceptInv, ListInv, ClientsAccounted, Listed, FdInv, StopInv
<1>4. CASE StartFails
  <2>1. /\ acceptor.at = "linked" /\ UNCHANGED <<handler, main>>
        /\ clients' = clients \ {acceptor.conn} /\ clientCount' = clientCount - 1
        /\ acceptor' = [at |-> "loop", conn |-> None]
        /\ CloseFd(acceptor.conn)
    BY <1>4 DEF StartFails, AcceptorQuiet
  <2>2. acceptor.conn \in clients /\ acceptor.conn \in Conns /\ fd[acceptor.conn] = "open"
        /\ handler[acceptor.conn] = "none" /\ closes[acceptor.conn] = 0
    BY <1>0, <2>1, InHand DEF AcceptInv, FdInv
  <2>3. acceptor'.at = "loop" /\ acceptor'.conn = None  BY <2>1
  <2>4. PICK c \in Conns : c = acceptor.conn  BY <2>2
  <2>5. fd'[c] = "closed" /\ closes'[c] = 1
        /\ \A d \in Conns \ {c} : fd'[d] = fd[d] /\ closes'[d] = closes[d]
    BY <1>0, <2>1, <2>2, <2>4, CloseFdTyped
  <2>6. ClientsAccounted'
    <3>1. clientCount = Cardinality(clients) /\ clientCount <= MaxConnections
      BY <1>0 DEF ListInv, ClientsAccounted
    <3>2. clientCount - 1 = Cardinality(clients \ {c})  BY <1>0, <2>2, <2>4, <3>1, UnlinkCounts
    <3>3. clientCount \in Int /\ MaxConnections \in Nat
      BY <1>0, ServerAssumption DEF ListTypes
    <3>4. clientCount - 1 <= MaxConnections  BY <3>1, <3>3
    <3> QED  BY <2>1, <2>4, <3>2, <3>4 DEF ClientsAccounted
  <2> QED  BY <1>0, <2>1, <2>2, <2>3, <2>4, <2>5, <2>6
      DEF Control, AcceptInv, ListInv, Listed, FdInv, StopInv
<1>5. CASE AcceptorEnds \/ AcceptFails
  <2>1. /\ UNCHANGED <<clients, clientCount, fd, closes, handler, main>>
        /\ acceptor' = [acceptor EXCEPT !.at = "done"] /\ acceptor.at = "loop"
    BY <1>5 DEF AcceptorEnds, AcceptFails, AcceptorDone, AcceptorQuiet
  <2>2. acceptor'.at = "done" /\ acceptor'.conn = acceptor.conn
    BY <1>0, <2>1 DEF ListTypes
  <2> QED  BY <1>0, <2>1, <2>2
      DEF Control, AcceptInv, ListInv, ClientsAccounted, Listed, FdInv, StopInv
<1> QED  BY <1>1, <1>2, <1>3, <1>4, <1>5 DEF AcceptThread

(* The main thread closes only what is open, and waits for the list. *)
LEMMA MainControl ==
  ASSUME TypeOK, Control, MainThread
  PROVE  Control'
<1>0. ListTypes /\ DescriptorTypes /\ HandlerTypes /\ AcceptInv /\ ListInv /\ FdInv /\ StopInv
  BY DEF TypeOK, Control
<1> USE DEF MainQuiet
<1>1. UNCHANGED <<acceptor, clients, clientCount, handler>>
  BY DEF MainThread, RequestStop, JoinAcceptor, CloseClients, WaitForClients, GiveUp,
     DestroyStreams
<1>2. AcceptInv' /\ FdInv'
  <2>1. CASE CloseClients
    <3>1. \A c \in Conns : IF c \in clients /\ fd[c] = "open"
                           THEN fd'[c] = "closed" /\ closes'[c] = closes[c] + 1
                           ELSE fd'[c] = fd[c] /\ closes'[c] = closes[c]
      BY <2>1 DEF CloseClients
    <3>2. acceptor.at = "done" /\ acceptor.conn = None
      BY <1>0, <2>1 DEF CloseClients, StopInv, ListTypes
    <3>3. FdInv'
      <4>1. \A c \in Conns : closes[c] = IF fd[c] = "closed" THEN 1 ELSE 0
        BY <1>0 DEF FdInv
      <4>2. \A c \in Conns : closes'[c] = IF fd'[c] = "closed" THEN 1 ELSE 0
        BY <3>1, <4>1
      <4> QED  BY <1>0, <1>1, <3>1, <4>2 DEF FdInv
    <3> QED  BY <1>0, <1>1, <3>1, <3>2, <3>3 DEF AcceptInv
  <2>2. CASE FdsQuiet
    BY <1>0, <1>1, <2>2 DEF FdsQuiet, AcceptInv, FdInv
  <2> QED  BY <2>1, <2>2 DEF MainThread, RequestStop, JoinAcceptor, WaitForClients, GiveUp,
             DestroyStreams, FdsQuiet
<1>3. ListInv'  BY <1>0, <1>1 DEF ListInv, ClientsAccounted, Listed
<1>4. StopInv'
  BY <1>0, <1>1 DEF StopInv, MainThread, RequestStop, JoinAcceptor, CloseClients,
     WaitForClients, GiveUp, DestroyStreams
<1> QED  BY <1>2, <1>3, <1>4 DEF Control

(* A handler works, unlinks its client, or destroys it. *)
LEMMA HandlerSplits ==
  ASSUME inbox \in [Conns -> Seq(Messages)], NEW c \in Conns, Handler(c)
  PROVE  \/ /\ Listed(c) /\ UNCHANGED <<clients, clientCount, fd, closes>>
            /\ \E to \in HandlerSteps \ {"none", "destroy"} : Goto(c, to)
         \/ Unlink(c) \/ Destroy(c)
<1> DEFINE Works == /\ Listed(c) /\ ListQuiet
                    /\ \E to \in HandlerSteps \ {"none", "destroy"} : Goto(c, to)
<1> USE DEF Listed, HandlerSteps
<1>1. HandlerBegins(c) \/ LoopTest(c) \/ ReceiveFails(c) \/ HeaderRefused(c) \/ RecordVideo(c)
        => Works
  BY DEF HandlerBegins, LoopTest, ReceiveFails, HeaderRefused, RecordVideo
<1>2. SetInfo(c) \/ Activate(c) \/ InitDecoder(c) \/ InitDecoderFails(c) \/ CloseDecoder(c)
      \/ Deactivate(c) \/ Decode(c) => Works
  BY DEF SetInfo, Activate, InitDecoder, InitDecoderFails, CloseDecoder, Deactivate, Decode,
     Section, PacketDone
<1>3. RecordStart(c) \/ RecordStop(c) \/ LookForDecoder(c) => Works
  BY DEF RecordStart, RecordStop, LookForDecoder, Tell, PacketDone
<1>4. CASE Receive(c)
  <2>1. Listed(c) /\ ListQuiet  BY <1>4 DEF Receive
  <2>2. \E to \in HandlerSteps \ {"none", "destroy"} : Goto(c, to)
    <3> DEFINE m == Head(inbox[c])
    <3>1. m \in Messages  BY <1>4 DEF Receive
    <3>2. Goto(c, FirstStep[m.type]) \/ Goto(c, "loop")  BY <1>4 DEF Receive
    <3>3. FirstStep[m.type] \in {"setInfo", "record", "recordStop"}
      BY <3>1 DEF FirstStep, Messages
    <3> HIDE DEF m
    <3> QED  BY <3>2, <3>3
  <2> QED  BY <2>1, <2>2 DEF ListQuiet
<1> HIDE DEF Works
<1>5. Works => /\ Listed(c) /\ UNCHANGED <<clients, clientCount, fd, closes>>
               /\ \E to \in HandlerSteps \ {"none", "destroy"} : Goto(c, to)
  BY DEF Works, ListQuiet
<1> QED  BY <1>1, <1>2, <1>3, <1>4, <1>5 DEF Handler, HandlePacket

(* And none of that loses a client or a descriptor. *)
LEMMA HandlerControl ==
  ASSUME TypeOK, Control, NEW c \in Conns, Handler(c)
  PROVE  Control'
<1>0. /\ ListTypes /\ DescriptorTypes /\ HandlerTypes /\ AcceptInv /\ ListInv /\ FdInv /\ StopInv
      /\ inbox \in [Conns -> Seq(Messages)]
  BY DEF TypeOK, Control
<1>q. UNCHANGED <<acceptor, main>>
  BY DEF HandlerQuiet, Handler, HandlePacket, HandlerBegins, LoopTest, Receive,
     ReceiveFails, HeaderRefused, SetInfo, Activate, InitDecoder, InitDecoderFails,
     RecordStart, RecordVideo, LookForDecoder, Decode, RecordStop, CloseDecoder, Deactivate, Destroy, Unlink, Section, Tell
<1>1. ASSUME NEW to \in HandlerSteps \ {"none", "destroy"}, Listed(c), Goto(c, to),
             UNCHANGED <<clients, clientCount, fd, closes>>
      PROVE  Control'
  <2>1. handler'[c] = to /\ \A d \in Conns \ {c} : handler'[d] = handler[d]
    BY <1>0, <1>1 DEF Goto, HandlerTypes
  <2>2. c \in clients /\ handler[c] # "none" /\ handler[c] # "destroy"
    BY <1>0, <1>1 DEF ListInv, Listed
  <2>3. AcceptInv'  BY <1>0, <1>q, <1>1, <2>1, <2>2, InHand DEF AcceptInv
  <2>4. ListInv'  BY <1>0, <1>1, <2>1, <2>2 DEF ListInv, ClientsAccounted, Listed
  <2>5. FdInv'  BY <1>0, <1>q, <1>1, <2>1, <2>2 DEF FdInv
  <2> QED  BY <1>0, <1>q, <1>1, <2>3, <2>4, <2>5 DEF Control, StopInv
<1>2. CASE Unlink(c)
  <2>1. /\ handler[c] = "leave" /\ Goto(c, "destroy") /\ UNCHANGED <<fd, closes>>
        /\ clients' = clients \ {c} /\ clientCount' = clientCount - 1
    BY <1>2 DEF Unlink
  <2>2. handler'[c] = "destroy" /\ \A d \in Conns \ {c} : handler'[d] = handler[d]
    BY <1>0, <2>1 DEF Goto, HandlerTypes
  <2>3. c \in clients  BY <1>0, <2>1 DEF ListInv, Listed
  <2>4. ClientsAccounted'
    <3>1. clientCount = Cardinality(clients) /\ clientCount <= MaxConnections
      BY <1>0 DEF ListInv, ClientsAccounted
    <3>2. clientCount - 1 = Cardinality(clients \ {c})  BY <1>0, <2>3, <3>1, UnlinkCounts
    <3>3. clientCount \in Int /\ MaxConnections \in Nat
      BY <1>0, ServerAssumption DEF ListTypes
    <3>4. clientCount - 1 <= MaxConnections  BY <3>1, <3>3
    <3> QED  BY <2>1, <3>2, <3>4 DEF ClientsAccounted
  <2>5. AcceptInv'
    <3>1. clientCount \in Int /\ MaxConnections \in Nat
      BY <1>0, ServerAssumption DEF ListTypes
    <3>2. clientCount < MaxConnections => clientCount' < MaxConnections  BY <2>1, <3>1
    <3>3. \A d \in Conns : fd'[d] = "none" => d \notin clients' /\ handler'[d] = "none"
      BY <1>0, <2>1, <2>2 DEF AcceptInv
    <3>4. acceptor.at \in {"admitted", "linked"} =>
            acceptor.conn \in Conns \ {c} /\ handler[acceptor.conn] = "none"
            /\ fd[acceptor.conn] = "open"
      BY <1>0, <2>1, InHand
    <3> QED  BY <1>0, <1>q, <2>1, <2>2, <3>2, <3>3, <3>4 DEF AcceptInv
  <2>6. ListInv'  BY <1>0, <2>1, <2>2, <2>4 DEF ListInv, Listed
  <2>7. FdInv'  BY <1>0, <1>q, <2>1, <2>2 DEF FdInv
  <2>8. StopInv'  BY <1>0, <1>q, <2>1 DEF StopInv
  <2> QED  BY <2>5, <2>6, <2>7, <2>8 DEF Control
<1>3. CASE Destroy(c)
  <2>1. /\ handler[c] = "destroy" /\ Goto(c, "ended") /\ UNCHANGED <<clients, clientCount>>
        /\ IF fd[c] = "open" THEN CloseFd(c) ELSE UNCHANGED <<fd, closes>>
    BY <1>3 DEF Destroy
  <2>2. handler'[c] = "ended" /\ \A d \in Conns \ {c} : handler'[d] = handler[d]
    BY <1>0, <2>1 DEF Goto, HandlerTypes
  <2>3. fd[c] # "none" /\ fd[c] \in {"none", "open", "closed"}
    BY <1>0, <2>1 DEF AcceptInv, DescriptorTypes
  <2>4. fd'[c] = "closed" /\ closes'[c] = 1
        /\ \A d \in Conns \ {c} : fd'[d] = fd[d] /\ closes'[d] = closes[d]
    BY <1>0, <2>1, <2>3, CloseFdTyped DEF FdInv
  <2>5. AcceptInv'
    <3>1. acceptor.at \in {"admitted", "linked"} =>
            acceptor.conn \in Conns \ {c} /\ handler[acceptor.conn] = "none"
            /\ fd[acceptor.conn] = "open"
      BY <1>0, <2>1, InHand
    <3> QED  BY <1>0, <1>q, <2>1, <2>2, <2>4, <3>1 DEF AcceptInv
  <2>6. ListInv'  BY <1>0, <2>1, <2>2 DEF ListInv, ClientsAccounted, Listed
  <2>7. FdInv'  BY <1>0, <1>q, <2>1, <2>2, <2>4 DEF FdInv
  <2>8. StopInv'  BY <1>0, <1>q, <2>1 DEF StopInv
  <2> QED  BY <2>5, <2>6, <2>7, <2>8 DEF Control
<1> QED  BY <1>0, <1>1, <1>2, <1>3, HandlerSplits

-----------------------------------------------------------------------------
(* The invariant and what follows from it.                                 *)

(* The server starts with no client, no handler and no descriptor. *)
LEMMA InitInv == Init => IInv
<1> SUFFICES ASSUME Init PROVE IInv  OBVIOUS
<1> USE ServerAssumption DEF Init
<1>1. ListTypes /\ DescriptorTypes /\ HandlerTypes
  BY DEF ListTypes, DescriptorTypes, HandlerTypes, HandlerSteps, PacketSteps
<1>2. StreamTypes  BY DEF StreamTypes, StreamContexts, IdleStream
<1>3. inbox \in [Conns -> Seq(Messages)]  OBVIOUS
<1>4. PeerInv  BY DEF PeerInv, NoWorker, PeerStates
<1>5. AcceptInv /\ FdInv /\ StopInv  BY DEF AcceptInv, FdInv, StopInv
<1>6. ListInv  BY FS_EmptySet DEF ListInv, ClientsAccounted, Listed
<1> QED  BY <1>1, <1>2, <1>3, <1>4, <1>5, <1>6 DEF IInv, TypeOK

(* Every step of every thread and worker keeps the invariant. *)
LEMMA StepInv == IInv /\ [Next]_vars => IInv'
<1> SUFFICES ASSUME IInv, [Next]_vars PROVE IInv'  OBVIOUS
<1>0. TypeOK /\ PeerInv /\ Control  BY DEF IInv, Control
<1>c. TypeOK' /\ PeerInv' /\ Control' => IInv'  BY DEF IInv, Control
<1>p. UNCHANGED peer => PeerInv'  BY <1>0 DEF PeerInv
<1>1. CASE AcceptThread
  <2>1. UNCHANGED peer
    BY <1>1 DEF AcceptThread, Accept, Link, StartHandler, StartFails, AcceptorEnds,
       AcceptFails, AcceptorDone, AcceptorQuiet, workerVars
  <2>2. AcceptInv  BY <1>0 DEF Control
  <2> QED  BY <1>0, <1>c, <1>p, <1>1, <2>1, <2>2, AcceptTyped, AcceptControl
<1>2. CASE MainThread
  <2>1. UNCHANGED peer
    BY <1>2 DEF MainThread, RequestStop, JoinAcceptor, CloseClients, WaitForClients, GiveUp,
       DestroyStreams, MainQuiet, workerVars
  <2> QED  BY <1>0, <1>c, <1>p, <1>2, <2>1, MainTyped, MainControl
<1>3. ASSUME NEW c \in Conns, Handler(c) PROVE IInv'
  <2>1. UNCHANGED peer
    BY <1>3 DEF HandlerQuiet, Handler, HandlePacket, HandlerBegins, LoopTest, Receive,
       ReceiveFails, HeaderRefused, SetInfo, Activate, InitDecoder, InitDecoderFails,
       RecordStart, RecordVideo, LookForDecoder, Decode, RecordStop, CloseDecoder, Deactivate, Destroy, Unlink, Section,
       Tell, workerVars
  <2> QED  BY <1>0, <1>c, <1>p, <1>3, <2>1, HandlerTyped, HandlerControl
<1>4. ASSUME NEW c \in Conns, Worker(c) PROVE IInv'
  <2>1. UNCHANGED <<serverVars, handler>>
    BY <1>4 DEF Worker, Connect, SendStart, SendVideo, SendStop, Send, Hangup
  <2>2. Control'
    BY <1>0, <2>1 DEF Control, serverVars, AcceptInv, ListInv, ClientsAccounted, Listed, FdInv,
       StopInv
  <2> QED  BY <1>0, <1>c, <1>4, <2>2, WorkerTyped
<1>5. CASE UNCHANGED vars
  <2>1. UNCHANGED <<serverVars, handler, msg, streamVars, peer, inbox, faults>>
    BY <1>5 DEF vars, workerVars
  <2>2. TypeOK'
    BY <1>0, <2>1, QuietTyped DEF TypeOK, serverVars, ListQuieter, FdsQuiet, HandlersQuiet,
       StreamsQuiet
  <2>3. Control'
    BY <1>0, <2>1 DEF Control, serverVars, AcceptInv, ListInv, ClientsAccounted, Listed, FdInv,
       StopInv
  <2> QED  BY <1>c, <1>p, <2>1, <2>2, <2>3
<1> QED  BY <1>1, <1>2, <1>3, <1>4, <1>5 DEF Next

(* The invariant holds in every state. *)
LEMMA InvHolds == Spec => []IInv
<1> QED  BY InitInv, StepInv, PTL DEF Spec

(* Every state of the server has the types of its variables; in particular *)
(* a handler holds a packet exactly while handle_packet works on it.       *)
THEOREM ServerTyped == Spec => []TypeOK
<1>1. IInv => TypeOK  BY DEF IInv
<1> QED  BY <1>1, InvHolds, PTL

(* client_count is the length of the client list and within the limit,     *)
(* however many connections come and go (accept_loop, client_handler).     *)
THEOREM ServerCountsClients == Spec => []ClientsAccounted
<1>1. IInv => ClientsAccounted  BY DEF IInv, ListInv
<1> QED  BY <1>1, InvHolds, PTL

(* No descriptor is closed twice by the accept thread, the handlers and    *)
(* server_stop, and none stays open behind an orderly stop.                *)
THEOREM ServerClosesOnce == Spec => []DescriptorsClosedOnce
<1>1. ASSUME IInv PROVE DescriptorsClosedOnce
  <2>0. ListTypes /\ DescriptorTypes /\ FdInv /\ StopInv  BY <1>1 DEF IInv, TypeOK
  <2>1. \A c \in Conns : closes[c] <= 1  BY <2>0 DEF FdInv
  <2>2. main = "exit" => clients = {} /\ acceptor.conn \notin Conns
    BY <2>0, ServerAssumption DEF StopInv, ListTypes
  <2> QED  BY <2>0, <2>1, <2>2 DEF FdInv, DescriptorsClosedOnce
<1> QED  BY <1>1, InvHolds, PTL

(* When server_stop has seen the list empty, no handler works on a stream  *)
(* any more, for any number of handlers.                                   *)
THEOREM ServerStopsHandlers == Spec => []StreamsOutliveHandlers
<1>1. IInv => StreamsOutliveHandlers
  BY DEF IInv, TypeOK, HandlerTypes, ListInv, StopInv, Listed, StreamsOutliveHandlers
<1> QED  BY <1>1, InvHolds, PTL

-----------------------------------------------------------------------------
(* Sessions.                                                               *)

(* A handler works on a packet of stream s.                                *)
Holds(c, s) == msg[c] # None /\ msg[c].sid = s

(* The stream is between two packets, or in one that has not changed it.   *)
Calm(s) ==
  /\ stream[s].state = "active" <=> recorded[s] # None
  /\ stream[s].state = "idle" => stream[s].decoder = None
  /\ stream[s].state = "active" => stream[s].decoder # None \/ faults > 0

(* How far handler c has come with a packet of stream s. *)
Under(c, s) ==
  /\ handler[c] \in {"setInfo", "activate", "record", "look", "decode", "recordStop"} => Calm(s)
  /\ handler[c] \in {"activate", "initDecoder"} => stream[s].info # None
  /\ handler[c] \in {"initDecoder", "recordStart"} => stream[s].state = "active"
  /\ handler[c] = "recordStart" => stream[s].decoder # None \/ faults > 0
  /\ handler[c] \in {"closeDecoder", "deactivate"} => recorded[s] = None
  /\ handler[c] = "deactivate" => stream[s].decoder = None

(* As long as its sessions follow one another a stream is in one hand at   *)
(* most, and the packet in that hand accounts for what Calm lacks.         *)
Session(s) ==
  /\ \A c, d \in Conns : Holds(c, s) /\ Holds(d, s) => c = d
  /\ (\A c \in Conns : ~Holds(c, s)) => Calm(s)
  /\ \A c \in Conns : Holds(c, s) => Under(c, s)

SessionInv == \A s \in Sids : apart[s] /\ ~Exited => Session(s)

(* A step that has no packet in hand. *)
LEMMA SessionsKept ==
  ASSUME SessionInv, UNCHANGED <<msg, streamVars>>, faults \in Nat, faults' \in Nat,
         faults' >= faults, Exited => Exited',
         \A c \in Conns : msg[c] # None => handler'[c] = handler[c]
  PROVE  SessionInv'
<1> SUFFICES ASSUME NEW s \in Sids, apart'[s], ~Exited' PROVE Session(s)'
  BY DEF SessionInv
<1>1. apart[s] /\ ~Exited /\ stream'[s] = stream[s] /\ recorded'[s] = recorded[s] /\ msg' = msg
  BY DEF streamVars
<1>2. Session(s)
  BY <1>1 DEF SessionInv
<1>3. Calm(s) => Calm(s)'
  BY <1>1 DEF Calm
<1>4. ASSUME NEW c \in Conns PROVE Holds(c, s)' <=> Holds(c, s)
  BY <1>1 DEF Holds
<1>5. ASSUME NEW c \in Conns, Holds(c, s), Under(c, s) PROVE Under(c, s)'
  <2>1. handler'[c] = handler[c]
    BY <1>5 DEF Holds
  <2> QED
    BY <1>1, <1>3, <1>5, <2>1 DEF Under
<1> QED
  BY <1>2, <1>3, <1>4, <1>5 DEF Session

(* A step with the packet in the hand of c. *)
LEMMA SessionStep ==
  ASSUME SessionInv, faults \in Nat, faults' \in Nat, faults' >= faults, UNCHANGED <<main, apart>>,
         NEW c \in Conns, NEW s \in Sids, Holds(c, s),
         \A t \in Sids \ {s} : stream'[t] = stream[t] /\ recorded'[t] = recorded[t],
         \A d \in Conns \ {c} : msg'[d] = msg[d] /\ handler'[d] = handler[d],
         msg'[c] \in {msg[c], None},
         apart[s] /\ Under(c, s) => IF msg'[c] = None THEN Calm(s)' ELSE Under(c, s)'
  PROVE  SessionInv'
<1> SUFFICES ASSUME NEW t \in Sids, apart[t], ~Exited PROVE Session(t)'
  BY DEF SessionInv, Exited
<1>1. Session(t)
  BY DEF SessionInv
<1>2. CASE t # s
  <2>1. stream'[t] = stream[t] /\ recorded'[t] = recorded[t]
    BY <1>2
  <2>2. Calm(t) => Calm(t)'
    BY <2>1 DEF Calm
  <2>3. ~Holds(c, t) /\ ~Holds(c, t)'
    BY <1>2 DEF Holds
  <2>4. ASSUME NEW d \in Conns
        PROVE  (Holds(d, t)' <=> Holds(d, t)) /\ (Holds(d, t) /\ Under(d, t) => Under(d, t)')
    <3>1. CASE d = c
      BY <2>3, <3>1
    <3>2. CASE d # c
      BY <2>1, <2>2, <3>2 DEF Holds, Under
    <3> QED
      BY <3>1, <3>2
  <2> QED
    BY <1>1, <2>2, <2>4 DEF Session
<1>3. CASE t = s
  <2>1. Under(c, s) /\ apart[s]
    BY <1>1, <1>3 DEF Session
  <2>2. ASSUME NEW d \in Conns, d # c PROVE ~Holds(d, s)'
    <3>1. ~Holds(d, s)
      BY <1>1, <1>3, <2>2 DEF Session
    <3> QED
      BY <2>2, <3>1 DEF Holds
  <2>3. CASE msg'[c] = None
    <3>1. ~Holds(c, s)'
      BY <2>3 DEF Holds
    <3> QED
      BY <1>3, <2>1, <2>2, <2>3, <3>1 DEF Session
  <2>4. CASE msg'[c] # None
    <3>1. Holds(c, s)'
      BY <2>4 DEF Holds
    <3> QED
      BY <1>3, <2>1, <2>2, <2>4, <3>1 DEF Session
  <2> QED
    BY <2>3, <2>4
<1> QED
  BY <1>2, <1>3

(* What a handler takes from its socket opens its packet. *)
LEMMA SessionReceive ==
  ASSUME TypeOK, SessionInv, NEW c \in Conns, Receive(c)
  PROVE  SessionInv'
<1> DEFINE m == Head(inbox[c])
<1>0. /\ HandlerTypes /\ StreamTypes /\ inbox \in [Conns -> Seq(Messages)] /\ faults \in Nat
      /\ handler[c] = "recv" /\ inbox[c] # <<>>
      /\ UNCHANGED <<main, stream, recorded, faults>>
  BY DEF TypeOK, Receive, HandlerQuiet
<1>1. m \in Messages /\ m # None
  BY <1>0, ServerAssumption
<1>2. msg[c] = None
  BY <1>0 DEF HandlerTypes, PacketSteps
<1>3. CASE m.sid \in Sids
  <2> DEFINE s == m.sid
  <2>1. /\ msg' = [msg EXCEPT ![c] = m]
        /\ handler' = [handler EXCEPT ![c] = FirstStep[m.type]]
        /\ apart' = [apart EXCEPT ![s] = apart[s] /\ InOrder(c, m)]
    BY <1>3 DEF Receive, Goto
  <2>2. /\ msg'[c] = m
        /\ handler'[c] = FirstStep[m.type]
        /\ \A d \in Conns \ {c} : msg'[d] = msg[d] /\ handler'[d] = handler[d]
    BY <1>0, <2>1 DEF HandlerTypes
  <2>3. apart'[s] = (apart[s] /\ InOrder(c, m)) /\ \A t \in Sids \ {s} : apart'[t] = apart[t]
    BY <1>0, <1>3, <2>1 DEF StreamTypes
  <2>4. handler'[c] \in {"setInfo", "record", "recordStop"}
    BY <1>1, <2>2 DEF FirstStep, Messages
  <2> HIDE DEF m
  <2> SUFFICES ASSUME NEW t \in Sids, apart'[t], ~Exited' PROVE Session(t)'
    BY DEF SessionInv
  <2>5. apart[t] /\ ~Exited
    BY <1>0, <2>3 DEF Exited
  <2>6. Session(t)
    BY <2>5 DEF SessionInv
  <2>7. Calm(t)' <=> Calm(t)
    BY <1>0 DEF Calm
  <2>8. ASSUME NEW d \in Conns, d # c
        PROVE  (Holds(d, t)' <=> Holds(d, t)) /\ (Under(d, t) => Under(d, t)')
    BY <1>0, <2>2, <2>7, <2>8 DEF Holds, Under
  <2>9. ~Holds(c, t)
    BY <1>2 DEF Holds
  <2>10. CASE t # s
    <3>1. ~Holds(c, t)'
      BY <2>2, <2>10 DEF Holds
    <3> QED
      BY <2>6, <2>7, <2>8, <2>9, <3>1 DEF Session
  <2>11. CASE t = s
    <3>1. \A d \in Conns \ {c} : ~Holds(d, t)
      BY <2>3, <2>11 DEF InOrder, Holds
    <3>2. \A d \in Conns \ {c} : ~Holds(d, t)'
      BY <2>8, <3>1
    <3>3. Calm(t)'
      BY <2>6, <2>7, <2>9, <3>1 DEF Session
    <3>4. Holds(c, t)' /\ Under(c, t)'
      BY <1>1, <2>2, <2>4, <2>11, <3>3 DEF Holds, Under
    <3> QED
      BY <3>2, <3>3, <3>4 DEF Session
  <2> QED
    BY <2>10, <2>11
<1>4. CASE m.sid \notin Sids
  <2>1. UNCHANGED <<msg, streamVars>> /\ handler' = [handler EXCEPT ![c] = "loop"]
    BY <1>0, <1>4 DEF Receive, Goto, streamVars
  <2>2. \A d \in Conns : msg[d] # None => handler'[d] = handler[d]
    BY <1>0, <1>2, <2>1 DEF HandlerTypes
  <2>3. Exited => Exited'
    BY <1>0 DEF Exited
  <2> QED
    BY <1>0, <2>1, <2>2, <2>3, SessionsKept
<1> QED
  BY <1>3, <1>4

(* A step of handle_packet changes the stream its packet names, and leaves *)
(* that packet either further along or done with.                          *)
LEMMA PacketStep ==
  ASSUME TypeOK, NEW c \in Conns, HandlePacket(c)
  PROVE  /\ handler[c] \in PacketSteps
         /\ UNCHANGED <<main, apart>> /\ (faults' = faults \/ faults' = faults + 1)
         /\ \A t \in Sids \ {Sid(c)} : stream'[t] = stream[t] /\ recorded'[t] = recorded[t]
         /\ \A d \in Conns \ {c} : msg'[d] = msg[d] /\ handler'[d] = handler[d]
         /\ msg'[c] \in {msg[c], None}
<1>0. HandlerTypes /\ StreamTypes
  BY DEF TypeOK
<1> DEFINE Steps == handler[c] \in PacketSteps
           Store == \/ stream' = stream
                    \/ \E x : stream' = [stream EXCEPT ![Sid(c)] = x]
           Say   == \/ recorded' = recorded
                    \/ \E x : recorded' = [recorded EXCEPT ![Sid(c)] = x]
           Hand  == \/ msg' = msg
                    \/ msg' = [msg EXCEPT ![c] = None]
           Go    == \E to : handler' = [handler EXCEPT ![c] = to]
           Rest  == UNCHANGED <<main, apart>> /\ (faults' = faults \/ faults' = faults + 1)
<1> DEFINE All == Steps /\ Store /\ Say /\ Hand /\ Go /\ Rest
<1> USE DEF HandlerQuiet, Section, Tell, Goto, PacketDone, Fault, streamVars
<1>1. HandlePacket(c) => Steps
  BY DEF HandlePacket, SetInfo, Activate, InitDecoder, InitDecoderFails, RecordStart, RecordVideo,
     LookForDecoder, Decode, RecordStop, CloseDecoder, Deactivate, PacketSteps, HandlerSteps
<1>2. HandlePacket(c) => Store
  BY DEF HandlePacket, SetInfo, Activate, InitDecoder, InitDecoderFails, RecordStart, RecordVideo,
     LookForDecoder, Decode, RecordStop, CloseDecoder, Deactivate
<1>3. HandlePacket(c) => Say
  BY DEF HandlePacket, SetInfo, Activate, InitDecoder, InitDecoderFails, RecordStart, RecordVideo,
     LookForDecoder, Decode, RecordStop, CloseDecoder, Deactivate
<1>4. HandlePacket(c) => Hand
  BY DEF HandlePacket, SetInfo, Activate, InitDecoder, InitDecoderFails, RecordStart, RecordVideo,
     LookForDecoder, Decode, RecordStop, CloseDecoder, Deactivate
<1>5. HandlePacket(c) => Go
  BY DEF HandlePacket, SetInfo, Activate, InitDecoder, InitDecoderFails, RecordStart, RecordVideo,
     LookForDecoder, Decode, RecordStop, CloseDecoder, Deactivate
<1>6. HandlePacket(c) => Rest
  BY DEF HandlePacket, SetInfo, Activate, InitDecoder, InitDecoderFails, RecordStart, RecordVideo,
     LookForDecoder, Decode, RecordStop, CloseDecoder, Deactivate
<1>7. Store => \A t \in Sids \ {Sid(c)} : stream'[t] = stream[t]
  BY <1>0 DEF StreamTypes
<1>8. Say => \A t \in Sids \ {Sid(c)} : recorded'[t] = recorded[t]
  BY <1>0 DEF StreamTypes
<1>9. Hand => msg'[c] \in {msg[c], None} /\ \A d \in Conns \ {c} : msg'[d] = msg[d]
  BY <1>0 DEF HandlerTypes
<1>10. Go => \A d \in Conns \ {c} : handler'[d] = handler[d]
  BY <1>0 DEF HandlerTypes
<1> HIDE DEF Store, Say, Hand, Go
<1> QED
  BY <1>1, <1>2, <1>3, <1>4, <1>5, <1>6, <1>7, <1>8, <1>9, <1>10

(* Section by section handle_packet takes the stream from Calm to Calm.    *)
LEMMA PacketProgress ==
  ASSUME TypeOK, NEW c \in Conns, HandlePacket(c), NEW s \in Sids, s = Sid(c), Under(c, s)
  PROVE  IF msg'[c] = None THEN Calm(s)' ELSE Under(c, s)'
<1>0. HandlerTypes /\ StreamTypes /\ faults \in Nat /\ handler[c] \in PacketSteps
  BY PacketStep DEF TypeOK
<1>1. /\ msg[c] \in Messages /\ msg[c] # None
      /\ msg[c].codec # None /\ stream[s] \in StreamContexts /\ c # None
  BY <1>0, PacketInHand, ServerAssumption
<1>2. \A x : stream' = [stream EXCEPT ![s] = x] => stream'[s] = x
  BY <1>0 DEF StreamTypes
<1>3. \A x : recorded' = [recorded EXCEPT ![s] = x] => recorded'[s] = x
  BY <1>0 DEF StreamTypes
<1>4. \A to : handler' = [handler EXCEPT ![c] = to] => handler'[c] = to
  BY <1>0 DEF HandlerTypes
<1>5. msg' = [msg EXCEPT ![c] = None] => msg'[c] = None
  BY <1>0 DEF HandlerTypes
<1> USE DEF Section, Tell, Goto, PacketDone, Fault, streamVars
<1>6. CASE SetInfo(c)
  <2>1. /\ handler[c] = "setInfo" /\ handler'[c] = "activate"
        /\ stream'[s] = [stream[s] EXCEPT !.info = msg[c].codec]
        /\ recorded' = recorded /\ faults' = faults
    BY <1>2, <1>4, <1>6 DEF SetInfo
  <2> QED
    BY <1>1, <1>6, <2>1 DEF SetInfo, Under, Calm, StreamContexts
<1>7. CASE Activate(c)
  <2>1. /\ handler[c] = "activate" /\ handler'[c] = "initDecoder"
        /\ stream'[s] = [stream[s] EXCEPT !.state = "active"]
    BY <1>2, <1>4, <1>7 DEF Activate
  <2> QED
    BY <1>1, <1>7, <2>1 DEF Activate, Under, StreamContexts
<1>8. CASE InitDecoder(c)
  <2>1. /\ handler[c] = "initDecoder" /\ handler'[c] = "recordStart"
        /\ stream'[s] = [stream[s] EXCEPT !.decoder = IF @ = None THEN stream[s].info ELSE @]
    BY <1>2, <1>4, <1>8 DEF InitDecoder
  <2> QED
    BY <1>1, <1>8, <2>1 DEF InitDecoder, Under, StreamContexts
<1>9. CASE InitDecoderFails(c)
  <2>1. /\ handler[c] = "initDecoder" /\ handler'[c] = "recordStart"
        /\ stream'[s] = stream[s] /\ faults' = faults + 1
    BY <1>2, <1>4, <1>9 DEF InitDecoderFails
  <2>2. faults' > 0
    BY <1>0, <2>1
  <2> QED
    BY <1>1, <1>9, <2>1, <2>2 DEF InitDecoderFails, Under
<1>10. CASE RecordStart(c)
  <2>1. /\ handler[c] = "recordStart" /\ msg'[c] = None
        /\ stream' = stream /\ recorded'[s] = c /\ faults' = faults
    BY <1>3, <1>5, <1>10 DEF RecordStart
  <2> QED
    BY <1>1, <2>1 DEF Under, Calm
<1>11. CASE RecordVideo(c)
  <2>1. /\ handler[c] = "record" /\ handler'[c] = "look"
        /\ stream' = stream /\ recorded' = recorded /\ faults' = faults /\ msg' = msg
    BY <1>4, <1>11 DEF RecordVideo
  <2> QED
    BY <1>1, <2>1 DEF Under, Calm
<1>12. CASE LookForDecoder(c)
  <2>1. /\ handler[c] = "look" /\ (msg'[c] = None \/ handler'[c] = "decode")
        /\ stream' = stream /\ recorded' = recorded /\ faults' = faults
    BY <1>4, <1>5, <1>12 DEF LookForDecoder
  <2> QED
    BY <1>1, <2>1 DEF Under, Calm
<1>13. CASE Decode(c)
  <2>1. /\ handler[c] = "decode" /\ msg'[c] = None
        /\ stream'[s] = stream[s] /\ recorded' = recorded /\ faults' = faults
    BY <1>2, <1>5, <1>13 DEF Decode
  <2> QED
    BY <1>1, <2>1 DEF Under, Calm
<1>14. CASE RecordStop(c)
  <2>1. /\ handler[c] = "recordStop" /\ handler'[c] = "closeDecoder"
        /\ recorded'[s] = None /\ msg' = msg
    BY <1>3, <1>4, <1>14 DEF RecordStop
  <2> QED
    BY <1>1, <2>1 DEF Under
<1>15. CASE CloseDecoder(c)
  <2>1. /\ handler[c] = "closeDecoder" /\ handler'[c] = "deactivate"
        /\ stream'[s] = [stream[s] EXCEPT !.decoder = None] /\ recorded' = recorded /\ msg' = msg
    BY <1>2, <1>4, <1>15 DEF CloseDecoder
  <2> QED
    BY <1>1, <2>1 DEF Under, StreamContexts
<1>16. CASE Deactivate(c)
  <2>1. /\ handler[c] = "deactivate" /\ msg'[c] = None
        /\ stream'[s] = [stream[s] EXCEPT !.state = "idle"] /\ recorded' = recorded
    BY <1>2, <1>5, <1>16 DEF Deactivate
  <2> QED
    BY <1>1, <2>1 DEF Under, Calm, StreamContexts
<1> QED
  BY <1>6, <1>7, <1>8, <1>9, <1>10, <1>11, <1>12, <1>13, <1>14, <1>15, <1>16 DEF HandlePacket

(* A handler between two packets works on no stream. *)
LEMMA SessionOutside ==
  ASSUME TypeOK, SessionInv, NEW c \in Conns,
         \/ HandlerBegins(c) \/ LoopTest(c) \/ ReceiveFails(c) \/ HeaderRefused(c)
         \/ Unlink(c) \/ Destroy(c)
  PROVE  SessionInv'
<1>1. /\ HandlerTypes /\ faults \in Nat
      /\ handler[c] \notin PacketSteps /\ UNCHANGED <<main, msg, streamVars>>
      /\ faults' = faults \/ faults' = faults + 1
      /\ \E to : handler' = [handler EXCEPT ![c] = to]
  BY DEF TypeOK, HandlerBegins, LoopTest, ReceiveFails, HeaderRefused, Unlink, Destroy, Goto,
     HandlerQuiet, PacketSteps, Fault
<1>2. msg[c] = None
  BY <1>1 DEF HandlerTypes
<1>3. \A d \in Conns : msg[d] # None => handler'[d] = handler[d]
  BY <1>1, <1>2 DEF HandlerTypes
<1>4. Exited => Exited'
  BY <1>1 DEF Exited
<1> QED
  BY <1>1, <1>3, <1>4, SessionsKept

(* The accept thread's new handlers hold no packet. *)
LEMMA SessionAccept ==
  ASSUME TypeOK, AcceptInv, SessionInv, AcceptThread
  PROVE  SessionInv'
<1>1. /\ ListTypes /\ HandlerTypes /\ faults \in Nat
      /\ UNCHANGED <<main, msg, streamVars>> /\ (faults' = faults \/ faults' = faults + 1)
      /\ \/ handler' = handler
         \/ acceptor.at = "linked" /\ handler' = [handler EXCEPT ![acceptor.conn] = "begin"]
  BY DEF TypeOK, AcceptThread, Accept, Link, StartHandler, StartFails, AcceptorEnds,
     AcceptFails, AcceptorDone, AcceptorQuiet, Fault
<1>2. acceptor.at = "linked" => acceptor.conn \in Conns /\ msg[acceptor.conn] = None
  BY <1>1 DEF AcceptInv, ListTypes, HandlerTypes, PacketSteps
<1>3. \A d \in Conns : msg[d] # None => handler'[d] = handler[d]
  BY <1>1, <1>2 DEF HandlerTypes
<1>4. Exited => Exited'
  BY <1>1 DEF Exited
<1> QED
  BY <1>1, <1>3, <1>4, SessionsKept

(* Every step keeps the sessions. *)
LEMMA StepSession == IInv /\ SessionInv /\ [Next]_vars => SessionInv'
<1> SUFFICES ASSUME IInv, SessionInv, [Next]_vars PROVE SessionInv'
  OBVIOUS
<1>0. TypeOK /\ AcceptInv /\ HandlerTypes /\ StreamTypes /\ faults \in Nat
  BY DEF IInv, TypeOK
<1>1. CASE AcceptThread
  BY <1>0, <1>1, SessionAccept
<1>2. CASE DestroyStreams
  BY <1>2 DEF DestroyStreams, SessionInv, Exited
<1>3. CASE UNCHANGED <<handler, msg, streamVars, faults>> /\ (Exited => Exited')
  BY <1>0, <1>3, SessionsKept
<1>4. CASE RequestStop \/ JoinAcceptor \/ CloseClients \/ WaitForClients \/ GiveUp
  BY <1>3, <1>4 DEF RequestStop, JoinAcceptor, CloseClients, WaitForClients, GiveUp, MainQuiet,
     Exited
<1>5. CASE \E c \in Conns : Worker(c)
  BY <1>3, <1>5 DEF Worker, Connect, SendStart, SendVideo, SendStop, Send, Hangup, serverVars,
     Exited
<1>6. CASE UNCHANGED vars
  BY <1>3, <1>6 DEF vars, serverVars, Exited
<1>7. ASSUME NEW c \in Conns, HandlePacket(c) PROVE SessionInv'
  <2>0. handler[c] \in PacketSteps
    BY <1>0, <1>7, PacketStep
  <2> PICK s \in Sids : s = Sid(c)
    BY <1>0, <2>0, PacketInHand
  <2>1. /\ faults' \in Nat /\ faults' >= faults
        /\ UNCHANGED <<main, apart>>
        /\ \A t \in Sids \ {s} : stream'[t] = stream[t] /\ recorded'[t] = recorded[t]
        /\ \A d \in Conns \ {c} : msg'[d] = msg[d] /\ handler'[d] = handler[d]
        /\ msg'[c] \in {msg[c], None}
    BY <1>0, <1>7, PacketStep
  <2>2. Holds(c, s)
    BY <1>0, <2>0, PacketInHand, ServerAssumption DEF Holds, Sid
  <2>3. apart[s] /\ Under(c, s) => IF msg'[c] = None THEN Calm(s)' ELSE Under(c, s)'
    BY <1>0, <1>7, PacketProgress
  <2> QED
    BY <1>0, <2>1, <2>2, <2>3, SessionStep
<1>8. ASSUME NEW c \in Conns, Handler(c) PROVE SessionInv'
  BY <1>0, <1>7, <1>8, SessionReceive, SessionOutside DEF Handler
<1> QED
  BY <1>1, <1>2, <1>3, <1>4, <1>5, <1>6, <1>8 DEF Next, MainThread

(* While the sessions of a stream follow one another, its state, its       *)
(* decoder and the recorder's session agree between any two packets, for   *)
(* any number of handlers and streams (handle_packet's lock sections).     *)
THEOREM ServerKeepsSessions == Spec => []SessionState
<1>1. Init => SessionInv
  BY DEF Init, SessionInv, Session, Holds, Calm, IdleStream
<1>2. IInv /\ SessionInv => SessionState
  BY DEF SessionInv, Session, Holds, Calm, SessionState
<1> QED
  BY <1>1, <1>2, StepSession, InvHolds, PTL DEF Spec

=============================================================================
