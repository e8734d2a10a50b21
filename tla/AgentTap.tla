------------------------------ MODULE AgentTap ------------------------------
(***************************************************************************)
(* The video side of the agent server (strem_agent_server: h264_tap.c and  *)
(* the boot and ingest thread of main.c).  Workers connect to the ingest   *)
(* port and are served one at a time; every VIDEO packet of theirs is an   *)
(* access unit, published to the viewers of its stream.  Viewers connect   *)
(* to the tap's port and go through a handshake - a line AUTH if there is  *)
(* a token, then a line SUB - of at most three seconds in the one accept   *)
(* thread, which then looks for a slot and asks the worker for an IDR.     *)
(*                                                                         *)
(* The ingest thread goes through the slots in order with the tap's lock   *)
(* held.  What a non-blocking send() takes of a buffer, whether a buffer   *)
(* has waited for longer than g_stall_ms, and when the three seconds of a  *)
(* handshake are over are free choices.  A unit is known by its number.    *)
(***************************************************************************)
EXTENDS Integers, Sequences, SequencesExt, TLC

CONSTANTS
  Viewers,    (* Connections to the tap's port.                              *)
  MaxClients, (* TAP_MAX_CLIENTS.                                            *)
  Sids,       (* Stream ids.                                                 *)
  Kinds,      (* Access units: [first |-> their first NAL, idr |-> BOOLEAN]. *)
  Token,      (* Whether the agent was given a token.                        *)
  DropToIdr,  (* g_drop_to_idr.                                              *)
  None,       (* No connection.                                              *)
  Scripts,    (* Lines a viewer may send, in turn.                           *)
  MaxUnits    (* Bound: access units published.                              *)

(* What a line of a viewer can be to the handshake. *)
Lines == [cmd : {"AUTH", "junk"}, sid : {0}] \cup [cmd : {"SUB"}, sid : Sids]

ASSUME AgentAssumption ==
  /\ MaxUnits \in Nat
  /\ MaxClients \in Nat \ {0}
  /\ Sids \subseteq Nat \ {0}
  /\ Kinds \subseteq [first : {"sps", "pps", "slice"}, idr : BOOLEAN]
  /\ Token \in BOOLEAN /\ DropToIdr \in BOOLEAN
  /\ None \notin Viewers
  /\ Scripts \subseteq Seq(Lines)

VARIABLES
  acceptor, (* accept_loop: [at, viewer, authed, sid].                       *)
  viewer,   (* The viewer's end: [state, lines], lines that were not read.   *)
  fd,       (* The tap's end: "none", "open" or "closed".                    *)
  slot,     (* g_tap.clients.                                                *)
  params,   (* g_tap.sps and g_tap.pps: the units kept for every stream.     *)
  ingest,   (* ingest_thread: [at, i], i the slot it has come to.            *)
  units,    (* History: the units published, by number.                      *)
  got       (* History: what each viewer was sent: [unit, copy, whole, own]. *)

tapVars    == <<acceptor, viewer, fd, slot>>
ingestVars == <<ingest, units>>
vars == <<tapVars, params, ingestVars, got>>

Slots == 1 .. MaxClients

NoParams == [sps |-> 0, pps |-> 0]

(* A TapClient after client_close.  Two fields are history: own, the       *)
(* viewer the buffer was filled for, and gaveUp, whether a buffer was      *)
(* dropped since one last went out.                                        *)
FreeSlot == [viewer |-> None, sid |-> 0, buf |-> <<>>, begun |-> FALSE, own |-> None,
             needIdr |-> FALSE, pendingIdr |-> FALSE, params |-> NoParams,
             gaveUp |-> FALSE]

AtAccept == [at |-> "accept", viewer |-> None, authed |-> FALSE, sid |-> 0]

(* What h264_tap_start leaves behind. *)
Init ==
  /\ acceptor = AtAccept
  /\ viewer = [v \in Viewers |-> [state |-> "away", lines |-> <<>>]]
  /\ fd = [v \in Viewers |-> "none"]
  /\ slot = [i \in Slots |-> FreeSlot]
  /\ params = [s \in Sids |-> NoParams]
  /\ ingest = [at |-> "boot", i |-> 0]
  /\ units = <<>>
  /\ got = [v \in Viewers |-> <<>>]

-----------------------------------------------------------------------------
(* main: the tap accepts viewers before its token is set and the ingest    *)
(* thread is started.                                                      *)

Configure ==
  /\ ingest.at = "boot"
  /\ ingest' = [ingest EXCEPT !.at = "recv"]
  /\ UNCHANGED <<tapVars, params, units, got>>

-----------------------------------------------------------------------------
(* Viewers.                                                                *)

ViewerQuiet == UNCHANGED <<acceptor, fd, slot, params, ingestVars, got>>

(* A line that comes too late is one that the deadline forestalls. *)
Connect(v) ==
  /\ viewer[v].state = "away"
  /\ \E script \in Scripts : viewer' = [viewer EXCEPT ![v] = [state |-> "open", lines |-> script]]
  /\ ViewerQuiet

Leave(v) ==
  /\ viewer[v].state = "open"
  /\ viewer' = [viewer EXCEPT ![v].state = "gone"]
  /\ ViewerQuiet

-----------------------------------------------------------------------------
(* The accept thread.                                                      *)

AcceptQuiet == UNCHANGED <<params, ingestVars, got>>
LockFree    == ingest.i = 0

Accept ==
  /\ acceptor.at = "accept"
  /\ \E v \in Viewers :
       /\ viewer[v].state # "away" /\ fd[v] = "none"
       /\ acceptor' = [at |-> "handshake", viewer |-> v, sid |-> 0,
                       authed |-> ~(Token /\ ingest.at # "boot")]
       /\ fd' = [fd EXCEPT ![v] = "open"]
  /\ AcceptQuiet /\ UNCHANGED <<viewer, slot>>

Refuse == [acceptor EXCEPT !.at = "refuse"]

(* do_handshake takes the lines in turn, however they were packed. *)
ReadLine ==
  /\ acceptor.at = "handshake" /\ viewer[acceptor.viewer].lines # <<>>
  /\ LET line == Head(viewer[acceptor.viewer].lines) IN
     /\ viewer' = [viewer EXCEPT ![acceptor.viewer].lines = Tail(@)]
     /\ acceptor' =
          CASE ~acceptor.authed /\ line.cmd = "AUTH" -> [acceptor EXCEPT !.authed = TRUE]
            [] acceptor.authed /\ line.cmd = "SUB" ->
                 [acceptor EXCEPT !.at = "place", !.sid = line.sid]
            [] OTHER -> Refuse
  /\ AcceptQuiet /\ UNCHANGED <<fd, slot>>

(* recv sees the end of the stream behind the last line. *)
HandshakeEnds ==
  /\ acceptor.at = "handshake"
  /\ viewer[acceptor.viewer].state = "gone" /\ viewer[acceptor.viewer].lines = <<>>
  /\ acceptor' = Refuse
  /\ AcceptQuiet /\ UNCHANGED <<viewer, fd, slot>>

(* The deadline of three seconds.  Faulty: a peer that has authenticated   *)
(* is waited for without end.                                              *)
DeadlineBeforeAuth ==
  /\ acceptor.at = "handshake" /\ ~acceptor.authed
  /\ acceptor' = Refuse
  /\ AcceptQuiet /\ UNCHANGED <<viewer, fd, slot>>

Deadline ==
  /\ acceptor.at = "handshake"
  /\ acceptor' = Refuse
  /\ AcceptQuiet /\ UNCHANGED <<viewer, fd, slot>>

(* prune_dead_clients_locked: a peek tells that the peer has gone, unless  *)
(* bytes it sent after its SUB line hide the end of the stream.            *)
Hidden(v) == viewer[v].lines # <<>>
Dead(i)   == /\ slot[i].viewer # None
             /\ viewer[slot[i].viewer].state = "gone" /\ ~Hidden(slot[i].viewer)
Pruned    == [i \in Slots |-> IF Dead(i) THEN FreeSlot ELSE slot[i]]

(* What a new occupant finds changed: a buffer left in the slot is kept;   *)
(* copy_global_param_sets_to_client copies what there is, and its two      *)
(* allocations are taken to succeed.                                       *)
Occupied(c) ==
  LET known == params[acceptor.sid] IN
  [c EXCEPT !.viewer = acceptor.viewer, !.sid = acceptor.sid, !.needIdr = TRUE,
            !.params = [sps |-> IF known.sps # 0 THEN known.sps ELSE @.sps,
                        pps |-> IF known.pps # 0 THEN known.pps ELSE @.pps]]

(* The first slot that is free after pruning. *)
Place ==
  /\ acceptor.at = "place" /\ LockFree
  /\ LET free == {i \in Slots : Pruned[i].viewer = None} IN
     /\ slot' = [i \in Slots |->
                   IF i \in free /\ \A j \in free : i <= j THEN Occupied(Pruned[i])
                   ELSE Pruned[i]]
     /\ fd' = [v \in Viewers |->
                 IF \E i \in Slots : Dead(i) /\ slot[i].viewer = v THEN "closed" ELSE fd[v]]
     /\ acceptor' = IF free = {} THEN Refuse ELSE [acceptor EXCEPT !.at = "ask"]
  /\ AcceptQuiet /\ UNCHANGED viewer

(* request_idr_best_effort, outside of the lock. *)
AskForIdr ==
  /\ acceptor.at = "ask"
  /\ acceptor' = AtAccept
  /\ AcceptQuiet /\ UNCHANGED <<viewer, fd, slot>>

(* Faulty: the connection is not closed. *)
RefuseOpen ==
  /\ acceptor.at = "refuse"
  /\ acceptor' = AtAccept
  /\ AcceptQuiet /\ UNCHANGED <<viewer, fd, slot>>

CloseRefused ==
  /\ acceptor.at = "refuse"
  /\ fd' = [fd EXCEPT ![acceptor.viewer] = "closed"]
  /\ acceptor' = AtAccept
  /\ AcceptQuiet /\ UNCHANGED <<viewer, slot>>

-----------------------------------------------------------------------------
(* The ingest thread: it serves one worker's connection after the other,   *)
(* which makes no difference to the tap.                                   *)

(* The parameter sets after unit n of kind k: the whole packet is kept by  *)
(* its first NAL.                                                          *)
Cached(old, k, n) ==
  CASE k.first = "sps"   -> [old EXCEPT !.sps = n]
    [] k.first = "pps"   -> [old EXCEPT !.pps = n]
    [] k.first = "slice" -> old

(* A VIDEO packet: h264_tap_publish takes the lock and starts on slot 1. *)
ReceiveVideo ==
  /\ ingest.at = "recv" /\ Len(units) < MaxUnits
  /\ \E s \in Sids, k \in Kinds :
       /\ units' = Append(units, [sid |-> s, first |-> k.first, idr |-> k.idr])
       /\ params' = [params EXCEPT ![s] = Cached(@, k, Len(units) + 1)]
  /\ ingest' = [ingest EXCEPT !.at = "old", !.i = 1]
  /\ UNCHANGED <<tapVars, got>>

-----------------------------------------------------------------------------
(* The slots in turn, lock held: first what is pending there ("old"), then *)
(* the new unit ("new").                                                   *)

Number == Len(units)
Unit   == units[Number]
Cur    == slot[ingest.i]

Goto(at, i) ==
  ingest' = IF i \in Slots THEN [ingest EXCEPT !.at = at, !.i = i]
            ELSE [ingest EXCEPT !.at = "recv", !.i = 0]
NextSlot == Goto("old", ingest.i + 1)

PublishQuiet == UNCHANGED <<acceptor, viewer, params, units>>

(* c is the slot's new value and sent what its viewer was sent meanwhile.  *)
Update(c, v, sent) ==
  /\ slot' = [slot EXCEPT ![ingest.i] = c]
  /\ got' = IF v = None THEN got ELSE [got EXCEPT ![v] = sent]

(* What viewer v has been sent when k units of c's buffer went out whole   *)
(* and the next one in part if torn.                                       *)
Sent(c, k, torn) ==
  LET entry(j, w) == [unit |-> c.buf[j], copy |-> j < Len(c.buf), whole |-> w,
                      own |-> c.own = c.viewer]
      before == IF c.begun THEN Front(got[c.viewer]) ELSE got[c.viewer]
  IN  before \o [j \in 1 .. k |-> entry(j, TRUE)] \o (IF torn THEN <<entry(k + 1, FALSE)>> ELSE <<>>)

(* flush_out_buf.  Faulty: the end of a recovery is not noticed. *)
FlushedInRecovery(c) ==
  [c EXCEPT !.buf = <<>>, !.begun = FALSE, !.pendingIdr = FALSE, !.gaveUp = FALSE]

Flushed(c) ==
  [c EXCEPT !.buf = <<>>, !.begun = FALSE, !.pendingIdr = FALSE, !.needIdr = @ /\ ~c.pendingIdr,
            !.gaveUp = FALSE]

(* All of the buffer goes out. *)
FlushAll(c, at, i) ==
  /\ Update(Flushed(c), c.viewer, Sent(c, Len(c.buf), FALSE))
  /\ Goto(at, i) /\ UNCHANGED fd

(* The socket is full before the end of it. *)
FlushSome(c) ==
  /\ \E k \in 0 .. Len(c.buf) - 1, torn \in BOOLEAN :
       /\ k = 0 /\ c.begun => torn
       /\ Update([c EXCEPT !.buf = SubSeq(@, k + 1, Len(@)), !.begun = torn],
                 c.viewer, Sent(c, k, torn))
  /\ NextSlot /\ UNCHANGED fd

(* send fails, as the viewer has gone: client_close. *)
FlushFails(c, at, i) ==
  /\ viewer[c.viewer].state = "gone"
  /\ Update(FreeSlot, None, <<>>)
  /\ fd' = [fd EXCEPT ![c.viewer] = "closed"]
  /\ Goto(at, i)

SkipSlot ==
  /\ ingest.at = "old" /\ Cur.sid # Unit.sid
  /\ NextSlot
  /\ PublishQuiet /\ UNCHANGED <<fd, slot, got>>

WithParams == [Cur EXCEPT !.params = Cached(@, Unit, Number)]

NothingPending ==
  /\ ingest.at = "old" /\ Cur.sid = Unit.sid /\ Cur.buf = <<>>
  /\ Update(WithParams, None, <<>>) /\ Goto("new", ingest.i)
  /\ PublishQuiet /\ UNCHANGED fd

(* Pending for too long.  Faulty: the recovery is forgotten. *)
DropPendingQuietly ==
  /\ ingest.at = "old" /\ Cur.sid = Unit.sid /\ Cur.buf # <<>>
  /\ Update([WithParams EXCEPT !.buf = <<>>, !.begun = FALSE, !.gaveUp = TRUE], None, <<>>)
  /\ Goto("new", ingest.i)
  /\ PublishQuiet /\ UNCHANGED fd

DropPending ==
  /\ ingest.at = "old" /\ Cur.sid = Unit.sid /\ Cur.buf # <<>>
  /\ Update([WithParams EXCEPT !.buf = <<>>, !.begun = FALSE, !.gaveUp = TRUE,
                               !.needIdr = @ \/ DropToIdr], None, <<>>)
  /\ Goto("new", ingest.i)
  /\ PublishQuiet /\ UNCHANGED fd

FlushPending ==
  /\ ingest.at = "old" /\ Cur.sid = Unit.sid /\ Cur.buf # <<>>
  /\ \/ FlushAll(WithParams, "new", ingest.i)
     \/ FlushSome(WithParams)
     \/ FlushFails(WithParams, "new", ingest.i)
  /\ PublishQuiet

(* Recovery: nothing until an IDR. *)
SkipUnit ==
  /\ ingest.at = "new" /\ Cur.needIdr /\ ~Unit.idr
  /\ NextSlot
  /\ PublishQuiet /\ UNCHANGED <<fd, slot, got>>

(* The unit, behind the parameter sets in recovery.  This is done to a     *)
(* slot that FlushPending has just closed as well.                         *)
Assembled ==
  LET kept(u) == IF u = 0 THEN <<>> ELSE <<u>>
      sets == kept(Cur.params.sps) \o kept(Cur.params.pps)
  IN
  [Cur EXCEPT !.buf = IF Cur.needIdr THEN Append(sets, Number) ELSE <<Number>>,
              !.own = Cur.viewer, !.begun = FALSE,
              !.pendingIdr = @ \/ (Cur.needIdr /\ Unit.idr)]

SendUnit ==
  /\ ingest.at = "new" /\ (Cur.needIdr => Unit.idr)
  /\ \/ Cur.viewer # None /\ FlushAll(Assembled, "old", ingest.i + 1)
     \/ Cur.viewer # None /\ FlushSome(Assembled)
     \/ Cur.viewer # None /\ FlushFails(Assembled, "old", ingest.i + 1)
     \/ Cur.viewer = None /\ Update(Assembled, None, <<>>) /\ NextSlot /\ UNCHANGED fd
  /\ PublishQuiet

-----------------------------------------------------------------------------
Acceptor == Accept \/ ReadLine \/ HandshakeEnds \/ Deadline \/ Place \/ AskForIdr \/ CloseRefused
Publish  == SkipSlot \/ NothingPending \/ DropPending \/ FlushPending \/ SkipUnit \/ SendUnit

Next ==
  \/ Configure
  \/ \E v \in Viewers : Connect(v) \/ Leave(v)
  \/ Acceptor
  \/ ReceiveVideo \/ Publish

(* The accept thread runs, its clock too, and a publication never blocks.  *)
Spec == Init /\ [][Next]_vars /\ WF_vars(Acceptor) /\ WF_vars(Publish)

-----------------------------------------------------------------------------
(* Properties.                                                             *)

UnitNumbers == 0 .. MaxUnits
ParamSets == [sps : UnitNumbers, pps : UnitNumbers]
TapClients ==
  [viewer : Viewers \cup {None}, sid : Sids \cup {0}, buf : Seq(UnitNumbers), begun : BOOLEAN,
   own : Viewers \cup {None}, needIdr : BOOLEAN, pendingIdr : BOOLEAN, params : ParamSets,
   gaveUp : BOOLEAN]

(* The type invariant of the tap and of the ingest thread. *)
TypeOK ==
  /\ acceptor \in [at : {"accept", "handshake", "place", "ask", "refuse"},
                   viewer : Viewers \cup {None}, authed : BOOLEAN, sid : Sids \cup {0}]
  /\ acceptor.at # "accept" => acceptor.viewer # None
  /\ viewer \in [Viewers -> [state : {"away", "open", "gone"}, lines : Seq(Lines)]]
  /\ fd \in [Viewers -> {"none", "open", "closed"}]
  /\ slot \in [Slots -> TapClients]
  /\ \A i \in Slots : slot[i].sid = 0 <=> slot[i].viewer = None
  /\ params \in [Sids -> ParamSets]
  /\ ingest \in [at : {"boot", "recv", "old", "new"}, i : Slots \cup {0}]
  /\ ingest.at \in {"boot", "recv"} <=> ingest.i = 0
  /\ units \in Seq([sid : Sids, first : {"sps", "pps", "slice"}, idr : BOOLEAN])
  /\ got \in [Viewers -> Seq([unit : 1 .. MaxUnits, copy : BOOLEAN, whole : BOOLEAN, own : BOOLEAN])]

(* Every descriptor accept_loop took is in its hand, in exactly one slot,  *)
(* or closed, whichever of accept_loop, prune_dead_clients_locked and      *)
(* flush_out_buf closes it.                                                *)
DescriptorsAccounted ==
  /\ TypeOK
  /\ \A v \in Viewers :
       LET holders == {i \in Slots : slot[i].viewer = v}
           inHand  == acceptor.viewer = v /\ acceptor.at \in {"handshake", "place", "refuse"}
       IN  /\ \A i, j \in holders : i = j
           /\ ~(inHand /\ holders # {})
           /\ fd[v] = "open" <=> inHand \/ holders # {}

(* Between publications a viewer's slot holds the parameter sets that were *)
(* last seen on its stream, whether it was there when they came or joined  *)
(* later (update_global_param_sets, maybe_cache_param_sets,                *)
(* copy_global_param_sets_to_client).                                      *)
ParamsCurrent ==
  LockFree => \A i \in Slots : slot[i].viewer # None => slot[i].params = params[slot[i].sid]

(* What counts for a viewer: what the slot's buffer was filled with for    *)
(* it, not what the viewer before it left there.  g is what it was sent.   *)
Own(g, k) == k \in DOMAIN g /\ g[k].own

OwnPicture(g, k) == Own(g, k) /\ LET u == units[g[k].unit] IN u.idr \/ u.first = "slice"

PictureBetween(g, k, n) == \E p \in k + 1 .. n - 1 : OwnPicture(g, p)

(* "Late join: wait for an IDR frame for clean decoder start" and          *)
(* "recovery: drop until IDR": a picture that is no IDR is sent neither as *)
(* the first one nor as the first behind a unit given up in the middle.    *)
Starts(g) ==
  \A n \in DOMAIN g :
    OwnPicture(g, n) /\ ~units[g[n].unit].idr =>
      /\ PictureBetween(g, 0, n)
      /\ DropToIdr => \A k \in 1 .. n - 1 : Own(g, k) /\ ~g[k].whole => PictureBetween(g, k, n)

StartsAtIdr == \A v \in Viewers : Starts(got[v])

(* A viewer is sent every unit at most once, the units in their order, and *)
(* no parameter sets that are younger than the unit behind them: what      *)
(* waits in a slot's buffer is sent or given up before the next unit is    *)
(* put there.                                                              *)
Ordered(g) ==
  \A k, n \in DOMAIN g :
    k < n /\ Own(g, k) /\ Own(g, n) /\ ~g[n].copy =>
      /\ g[k].unit <= g[n].unit
      /\ g[k].copy \/ g[k].unit # g[n].unit

InOrder == \A v \in Viewers : Ordered(got[v])

(* What a viewer is sent, now and next, can be decoded (h264_tap_publish). *)
Playable == ParamsCurrent /\ StartsAtIdr /\ InOrder

(* A recovery ends: a viewer that was sent an IDR of its own whole, and    *)
(* nothing given up since, is not kept waiting for another (flush_out_buf: *)
(* "without this, we'd keep dropping non-IDR frames until the next IDR").  *)
WaitsRightly(c, g) ==
  c.needIdr /\ ~c.gaveUp =>
    ~\E k \in DOMAIN g : g[k].own /\ g[k].whole /\ ~g[k].copy /\ units[g[k].unit].idr

RecoveryEnds ==
  \A i \in Slots : slot[i].viewer # None => WaitsRightly(slot[i], got[slot[i].viewer])

(* Every viewer that connects gets a slot or is closed in the end, as no   *)
(* peer holds the accept thread for longer than a handshake may last.      *)
ViewersAnswered ==
  \A v \in Viewers :
    viewer[v].state = "open" ~>
      fd[v] = "closed" \/ \E i \in Slots : slot[i].viewer = v
=============================================================================
