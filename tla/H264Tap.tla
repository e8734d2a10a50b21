------------------------------ MODULE H264Tap -------------------------------
(***************************************************************************)
(* The H.264 tap of stream_server (h264_tap.c and maybe_start_h264_tap of  *)
(* server.c).  The first handler thread that has a VIDEO packet starts the *)
(* tap; an accept thread puts subscribers into a table of slots; every     *)
(* handler publishes its packets - access units - to the subscribers of    *)
(* the stream, under one lock and without ever blocking: each slot has one *)
(* output buffer, and what a slow subscriber cannot take is dropped.       *)
(*                                                                         *)
(* An access unit is a sequence of chunks, as send() may take any part of  *)
(* it.  Whether a buffer has been waiting for longer than g_stall_ms is a  *)
(* free choice at every publication.                                       *)
(***************************************************************************)
EXTENDS Integers, Sequences

CONSTANTS
  Publishers,  (* Handler threads of stream_server.                          *)
  Subscribers, (* Connections to the tap's port.                             *)
  Slots,       (* Indices of g_tap.clients, TAP_MAX_CLIENTS of them.         *)
  Sids,        (* Stream ids, with 1, the default of a subscription.         *)
  Payloads,    (* Access units: the NAL they begin with ("sps", "pps",       *)
               (* "slice"), whether they hold an IDR, their chunks.          *)
  Room,        (* Chunks a socket's buffers hold.                            *)
  DropToIdr,   (* g_drop_to_idr.                                             *)
  NoConn,      (* No connection.                                             *)
  MaxUnits     (* Bound: access units published.                             *)

ASSUME TapAssumption ==
  /\ 1 \in Sids /\ Sids \subseteq Nat
  /\ Slots \subseteq Nat /\ Room \in Nat /\ MaxUnits \in Nat /\ DropToIdr \in BOOLEAN
  /\ NoConn \notin Subscribers
  /\ Payloads \subseteq [first : {"sps", "pps", "slice"}, idr : BOOLEAN, size : Nat \ {0}]

VARIABLES
  started,   (* g_h264_tap_started.                                          *)
  running,   (* g_tap.running.                                               *)
  port,      (* Whether a socket of the process listens on the port.         *)
  handler,   (* Handler threads: where each is on its way to publish.        *)
  acceptor,  (* Accept thread: [at, conn, sid].                              *)
  slot,      (* g_tap.clients.                                               *)
  peer,      (* The subscriber's end: [state, asked, line], line telling     *)
             (* where its SUB line is: "unsent", "arrived" or "read".        *)
  fd,        (* The tap's end: "none", "open" or "closed".                   *)
  unread,    (* Chunks in the socket, which the subscriber has not read.     *)
  got,       (* History: the chunks sent to each subscriber.                 *)
  units,     (* Access units published so far.                               *)
  main       (* h264_tap_stop: "run", "stopping" or "stopped".               *)

startVars == <<started, running, port, handler>>
connVars  == <<peer, fd, unread, got>>
tapVars == <<startVars, acceptor, slot, connVars, units, main>>

(* A TapClient after client_close, and after memset. *)
FreeSlot == [active |-> FALSE, conn |-> NoConn, sid |-> 0, out |-> <<>>,
             needIdr |-> FALSE, sps |-> <<>>, pps |-> <<>>]

Idle == [at |-> "none", conn |-> NoConn, sid |-> 0]

TapInit ==
  /\ started = FALSE /\ running = FALSE /\ port = "free"
  /\ handler = [h \in Publishers |-> "idle"]
  /\ acceptor = Idle
  /\ slot = [i \in Slots |-> FreeSlot]
  /\ peer = [c \in Subscribers |-> [state |-> "away", asked |-> 1, line |-> "unsent"]]
  /\ fd = [c \in Subscribers |-> "none"]
  /\ unread = [c \in Subscribers |-> 0]
  /\ got = [c \in Subscribers |-> <<>>]
  /\ units = 0
  /\ main = "run"

-----------------------------------------------------------------------------
(* Starting the tap: maybe_start_h264_tap and h264_tap_start, which any    *)
(* handler may run and which no lock protects.                             *)

GoOn(h, to) == handler' = [handler EXCEPT ![h] = to]
StartQuiet  == UNCHANGED <<connVars, units, main>>

LookStarted(h) ==
  /\ handler[h] = "idle" /\ main = "run" /\ units < MaxUnits
  /\ GoOn(h, IF started THEN "publish" ELSE "clear")
  /\ StartQuiet /\ UNCHANGED <<started, running, port, acceptor, slot>>

(* memset of g_tap. *)
ClearTap(h) ==
  /\ handler[h] = "clear"
  /\ running' = FALSE
  /\ slot' = [i \in Slots |-> FreeSlot]
  /\ GoOn(h, "listen")
  /\ StartQuiet /\ UNCHANGED <<started, port, acceptor>>

(* bind and listen; a port in use makes h264_tap_start fail. *)
Listen(h) ==
  /\ handler[h] = "listen"
  /\ port' = "listening"
  /\ GoOn(h, IF port = "free" THEN "run" ELSE "publish")
  /\ StartQuiet /\ UNCHANGED <<started, running, acceptor, slot>>

RunTap(h) ==
  /\ handler[h] = "run"
  /\ running' = TRUE
  /\ acceptor' = [Idle EXCEPT !.at = "loop"]
  /\ GoOn(h, "tell")
  /\ StartQuiet /\ UNCHANGED <<started, port, slot>>

(* The accept thread cannot be created: the socket is closed again. *)
RunFails(h) ==
  /\ handler[h] = "run"
  /\ running' = FALSE /\ port' = "free"
  /\ GoOn(h, "publish")
  /\ StartQuiet /\ UNCHANGED <<started, acceptor, slot>>

TellStarted(h) ==
  /\ handler[h] = "tell"
  /\ started' = TRUE
  /\ GoOn(h, "publish")
  /\ StartQuiet /\ UNCHANGED <<running, port, acceptor, slot>>

-----------------------------------------------------------------------------
(* Subscribers.                                                            *)

PeerQuiet == UNCHANGED <<startVars, acceptor, slot, units, main>>

Subscribe(c) ==
  /\ peer[c].state = "away" /\ port = "listening"
  /\ \E sid \in Sids : peer' = [peer EXCEPT ![c].state = "open", ![c].asked = sid]
  /\ PeerQuiet /\ UNCHANGED <<fd, unread, got>>

(* The line SUB <stream_id> reaches the tap. *)
SendLine(c) ==
  /\ peer[c].state = "open" /\ peer[c].line = "unsent"
  /\ peer' = [peer EXCEPT ![c].line = "arrived"]
  /\ PeerQuiet /\ UNCHANGED <<fd, unread, got>>

ReadChunk(c) ==
  /\ peer[c].state = "open" /\ unread[c] > 0
  /\ unread' = [unread EXCEPT ![c] = @ - 1]
  /\ PeerQuiet /\ UNCHANGED <<peer, fd, got>>

Leave(c) ==
  /\ peer[c].state = "open"
  /\ peer' = [peer EXCEPT ![c].state = "gone"]
  /\ PeerQuiet /\ UNCHANGED <<fd, unread, got>>

-----------------------------------------------------------------------------
(* The accept thread (accept_loop).                                        *)

AcceptQuiet == UNCHANGED <<startVars, unread, got, units, main>>

(* accept and read_subscribe_stream_id: the descriptor does not block, so  *)
(* a line that has not arrived yet is not waited for.                      *)
Accept ==
  /\ acceptor.at = "loop" /\ running
  /\ \E c \in Subscribers :
       /\ peer[c].state # "away" /\ fd[c] = "none"
       /\ fd' = [fd EXCEPT ![c] = "open"]
       /\ LET here == peer[c].line = "arrived" IN
          /\ acceptor' = [at |-> "place", conn |-> c, sid |-> IF here THEN peer[c].asked ELSE 1]
          /\ peer' = IF here THEN [peer EXCEPT ![c].line = "read"] ELSE peer
  /\ AcceptQuiet /\ UNCHANGED slot

(* prune_dead_clients_locked closes a slot when a peek at its socket sees  *)
(* the end of the stream, which a line that was never read hides.          *)
Dead(i) ==
  slot[i].active /\ peer[slot[i].conn].state = "gone" /\ peer[slot[i].conn].line # "arrived"

Pruned == [i \in Slots |-> IF Dead(i) THEN FreeSlot ELSE slot[i]]

(* The connection gets the first free slot, or is closed.  Faulty: it is   *)
(* forgotten.                                                              *)
PlaceOrForget ==
  /\ acceptor.at = "place"
  /\ LET free == {i \in Slots : ~Pruned[i].active} IN
     /\ fd' = [c \in Subscribers |->
                 IF \E i \in Slots : Dead(i) /\ slot[i].conn = c THEN "closed" ELSE fd[c]]
     /\ slot' = [i \in Slots |->
                   IF i \in free /\ \A j \in free : i <= j
                   THEN [Pruned[i] EXCEPT !.active = TRUE, !.conn = acceptor.conn,
                                          !.sid = acceptor.sid]
                   ELSE Pruned[i]]
  /\ acceptor' = [Idle EXCEPT !.at = "loop"]
  /\ AcceptQuiet /\ UNCHANGED peer

Place ==
  /\ acceptor.at = "place"
  /\ LET free   == {i \in Slots : ~Pruned[i].active}
         closed == {slot[i].conn : i \in {j \in Slots : Dead(j)}}
                     \cup (IF free = {} THEN {acceptor.conn} ELSE {})
     IN
     /\ fd' = [c \in Subscribers |-> IF c \in closed THEN "closed" ELSE fd[c]]
     /\ slot' = [i \in Slots |->
                   IF i \in free /\ \A j \in free : i <= j
                   THEN [Pruned[i] EXCEPT !.active = TRUE, !.conn = acceptor.conn,
                                          !.sid = acceptor.sid]
                   ELSE Pruned[i]]
  /\ acceptor' = [Idle EXCEPT !.at = "loop"]
  /\ AcceptQuiet /\ UNCHANGED peer

AcceptorEnds ==
  /\ acceptor.at = "loop" /\ ~running
  /\ acceptor' = [Idle EXCEPT !.at = "ended"]
  /\ AcceptQuiet /\ UNCHANGED <<slot, peer, fd>>

-----------------------------------------------------------------------------
(* h264_tap_publish, for one slot.  A result is the slot afterwards and    *)
(* the chunks sent on the way.                                             *)

Unit(sid, payload) ==
  [k \in 1 .. payload.size |->
     [unit |-> units + 1, sid |-> sid, pic |-> payload.idr \/ payload.first = "slice",
      idr |-> payload.idr, part |-> k, of |-> payload.size]]

(* maybe_cache_param_sets keeps the whole payload by its first NAL.        *)
(* Faulty: the first one is kept for good.                                 *)
CachedOnce(s, payload, unit) ==
  CASE payload.first = "sps" /\ s.sps = <<>> -> [s EXCEPT !.sps = unit]
    [] payload.first = "pps" /\ s.pps = <<>> -> [s EXCEPT !.pps = unit]
    [] OTHER -> s

Cached(s, payload, unit) ==
  CASE payload.first = "sps"   -> [s EXCEPT !.sps = unit]
    [] payload.first = "pps"   -> [s EXCEPT !.pps = unit]
    [] payload.first = "slice" -> s

(* The buffer has waited for too long.  Faulty: no IDR is awaited. *)
GivenUpSilently(s) == [s EXCEPT !.out = <<>>]
GivenUp(s) == [s EXCEPT !.out = <<>>, !.needIdr = @ \/ DropToIdr]

(* flush_out_buf: send what the socket takes; a peer that is gone closes   *)
(* the slot.                                                               *)
Flush(s, room) ==
  LET k == IF Len(s.out) <= room THEN Len(s.out) ELSE room IN
  IF ~s.active THEN [slot |-> s, sent |-> <<>>]
  ELSE IF peer[s.conn].state = "gone" /\ s.out # <<>> THEN [slot |-> FreeSlot, sent |-> <<>>]
  ELSE [slot |-> [s EXCEPT !.out = SubSeq(@, k + 1, Len(@))], sent |-> SubSeq(s.out, 1, k)]

(* The new unit, behind the cached parameter sets after a drop. *)
Assembled(s, unit) == IF s.needIdr THEN s.sps \o s.pps \o unit ELSE unit

(* The new unit goes into the empty buffer and out of it.  This is done to *)
(* a slot that the first flush has closed as well.                         *)
Deliver(s, payload, unit, room) ==
  LET f == Flush([s EXCEPT !.out = Assembled(s, unit)], room) IN
  [f EXCEPT !.slot.needIdr = @ /\ ~(payload.idr /\ f.slot.out = <<>>)]

(* The stages of publish for a slot. *)
PublishTo(s, payload, unit, stalled, room) ==
  LET c == Cached(s, payload, unit)
      d == IF c.out # <<>> /\ stalled THEN GivenUp(c) ELSE c
      f == Flush(d, room)
      e == f.slot
      kept == e.active /\ e.out # <<>>
  IN  IF kept \/ (e.needIdr /\ ~payload.idr) THEN f
      ELSE LET g == Deliver(e, payload, unit, room - Len(f.sent)) IN
           [g EXCEPT !.sent = f.sent \o @]

(* A handler publishes a packet to every subscriber of the stream; the     *)
(* tap's lock is held throughout.                                          *)
Publish(h) ==
  /\ handler[h] = "publish"
  /\ GoOn(h, "idle")
  /\ IF ~started \/ ~running THEN UNCHANGED <<slot, fd, unread, got, units>>
     ELSE \E sid \in Sids, payload \in Payloads, stalled \in [Slots -> BOOLEAN] :
       LET to(i)   == slot[i].active /\ slot[i].sid = sid
           done(i) == PublishTo(slot[i], payload, Unit(sid, payload), stalled[i],
                                Room - unread[slot[i].conn])
           hit(c)  == {i \in Slots : to(i) /\ slot[i].conn = c}
       IN
       /\ \A i \in Slots : stalled[i] => to(i) /\ slot[i].out # <<>>
       /\ units' = units + 1
       /\ slot' = [i \in Slots |-> IF to(i) THEN done(i).slot ELSE slot[i]]
       /\ got' = [c \in Subscribers |->
                    IF hit(c) = {} THEN got[c]
                    ELSE got[c] \o done(CHOOSE i \in hit(c) : TRUE).sent]
       /\ unread' = [c \in Subscribers |-> unread[c] + Len(got'[c]) - Len(got[c])]
       /\ fd' = [c \in Subscribers |->
                   IF \E i \in hit(c) : ~done(i).slot.active THEN "closed" ELSE fd[c]]
  /\ UNCHANGED <<started, running, port, acceptor, peer, main>>

-----------------------------------------------------------------------------
(* h264_tap_stop, which server_stop calls when the handlers are gone.      *)

StopTap ==
  /\ main = "run" /\ started /\ \A h \in Publishers : handler[h] = "idle"
  /\ main' = "stopping"
  /\ running' = FALSE /\ port' = "free"
  /\ UNCHANGED <<started, handler, acceptor, slot, connVars, units>>

CloseSlots ==
  /\ main = "stopping" /\ acceptor.at = "ended"
  /\ main' = "stopped" /\ started' = FALSE
  /\ fd' = [c \in Subscribers |->
              IF \E i \in Slots : slot[i].active /\ slot[i].conn = c THEN "closed" ELSE fd[c]]
  /\ slot' = [i \in Slots |-> IF slot[i].active THEN FreeSlot ELSE slot[i]]
  /\ UNCHANGED <<running, port, handler, acceptor, peer, unread, got, units>>

-----------------------------------------------------------------------------
Start(h) == LookStarted(h) \/ ClearTap(h) \/ Listen(h) \/ RunTap(h)
            \/ RunFails(h) \/ TellStarted(h)

TapNext ==
  \/ \E h \in Publishers : Start(h) \/ Publish(h)
  \/ \E c \in Subscribers : Subscribe(c) \/ SendLine(c) \/ ReadChunk(c) \/ Leave(c)
  \/ Accept \/ Place \/ AcceptorEnds
  \/ StopTap \/ CloseSlots

TapSpec == TapInit /\ [][TapNext]_tapVars

-----------------------------------------------------------------------------
(* Properties.                                                             *)

Chunks == [unit : Nat, sid : Sids, pic : BOOLEAN, idr : BOOLEAN, part : Nat, of : Nat]
TapClients ==
  [active : BOOLEAN, conn : Subscribers \cup {NoConn}, sid : Sids \cup {0}, out : Seq(Chunks),
   needIdr : BOOLEAN, sps : Seq(Chunks), pps : Seq(Chunks)]

(* The type invariant: in particular an active slot has a connection, and  *)
(* the sockets never hold more than they can.                              *)
TapTypeOK ==
  /\ started \in BOOLEAN /\ running \in BOOLEAN /\ port \in {"free", "listening"}
  /\ handler \in [Publishers -> {"idle", "clear", "listen", "run", "tell", "publish"}]
  /\ \/ acceptor \in [at : {"none", "loop", "ended"}, conn : {NoConn}, sid : {0}]
     \/ acceptor \in [at : {"place"}, conn : Subscribers, sid : Sids]
  /\ slot \in [Slots -> TapClients]
  /\ \A i \in Slots : slot[i].active <=> slot[i].conn # NoConn
  /\ peer \in [Subscribers -> [state : {"away", "open", "gone"}, asked : Sids,
                               line : {"unsent", "arrived", "read"}]]
  /\ fd \in [Subscribers -> {"none", "open", "closed"}]
  /\ unread \in [Subscribers -> 0 .. Room]
  /\ got \in [Subscribers -> Seq(Chunks)]
  /\ units \in Nat /\ main \in {"run", "stopping", "stopped"}

(* Every descriptor the accept thread took is in exactly one slot or in    *)
(* its hand until it is closed, although accept_loop, publish, prune and   *)
(* stop all close descriptors: none is lost, none is closed in a slot that *)
(* goes on using it.                                                       *)
DescriptorsAccounted ==
  /\ TapTypeOK
  /\ \A c \in Subscribers :
       LET holders == {i \in Slots : slot[i].active /\ slot[i].conn = c} IN
       /\ \A i, j \in holders : i = j
       /\ fd[c] = "open" <=> holders # {} \/ acceptor.conn = c

(* What a subscriber gets is made of whole units, but for a unit given up  *)
(* half sent, and the first picture behind such a torn unit is an IDR      *)
(* (h264_tap.h: drop until the next IDR, then resume).                     *)
Continued(g, k) == g[k + 1] = [g[k] EXCEPT !.part = @ + 1]
Resumed(g, k) ==
  \A m \in k + 1 .. Len(g) : g[m].pic /\ (\A j \in k + 1 .. m - 1 : ~g[j].pic) => g[m].idr

Joined(g) ==
  \A k \in 1 .. Len(g) - 1 :
    Continued(g, k) \/ (g[k + 1].part = 1 /\ (g[k].part = g[k].of \/ Resumed(g, k)))

ResumesAtIdr == DropToIdr => \A c \in Subscribers : Joined(got[c])

(* Pictures reach a subscriber in the order they were published in: a      *)
(* slot's buffer never holds one back behind a later one, and the cached   *)
(* parameter sets bring no old picture back.                               *)
Ordered(g) ==
  \A k, m \in DOMAIN g : k < m /\ g[k].pic /\ g[m].pic => g[k].unit <= g[m].unit

InOrder == \A c \in Subscribers : Ordered(got[c])

(* A subscriber gets no unit of a stream other than the one its slot was   *)
(* given to it for (h264_tap_publish, accept_loop).                        *)
OnlyOwnStream ==
  \A i \in Slots : slot[i].active =>
    \A k \in DOMAIN got[slot[i].conn] : got[slot[i].conn][k].sid = slot[i].sid
=============================================================================
