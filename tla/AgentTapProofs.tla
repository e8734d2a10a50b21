---------------------------- MODULE AgentTapProofs ----------------------------
(***************************************************************************)
(* Theorems about the agent's tap, for any numbers of viewers, slots,      *)
(* streams and units and for units of every kind: who closes a descriptor, *)
(* what a viewer is sent and when a recovery ends.                         *)
(*                                                                         *)
(*   TapInv   types and descriptors, with what the stages of the two       *)
(*            threads know of each other;                                  *)
(*   SendInv  what the buffer of a slot holds, set against what its viewer *)
(*            was sent: none of StartsAtIdr, InOrder and RecoveryEnds is   *)
(*            inductive without it.                                        *)
(***************************************************************************)
EXTENDS AgentTap, WellFoundedInduction, TLAPS

-----------------------------------------------------------------------------
(* Types and descriptors.                                                  *)

Sends == [unit : 1 .. MaxUnits, copy : BOOLEAN, whole : BOOLEAN, own : BOOLEAN]

InHand(v) == acceptor.viewer = v /\ acceptor.at \in {"handshake", "place", "refuse"}
Holds(v)  == \E i \in Slots : slot[i].viewer = v

Descriptors ==
  \A v \in Viewers :
    /\ \A i, j \in Slots : slot[i].viewer = v /\ slot[j].viewer = v => i = j
    /\ ~(InHand(v) /\ Holds(v))
    /\ fd[v] = "open" <=> InHand(v) \/ Holds(v)

(* What the two threads rely on from one step to the next. *)
Stages ==
  /\ acceptor.at = "place" => acceptor.sid \in Sids
  /\ ingest.i # 0 => units # <<>>
  /\ ingest.at = "new" => Cur.buf = <<>> /\ ~Cur.begun

(* What is kept of units are the numbers of units. *)
UnitSets == [sps : 0 .. Len(units), pps : 0 .. Len(units)]
Kept(c)  == c.params \in UnitSets /\ \A j \in DOMAIN c.buf : c.buf[j] \in 1 .. Len(units)
Begun(c) == c.begun => c.buf # <<>> /\ c.viewer # None /\ got[c.viewer] # <<>>

Numbered ==
  /\ Len(units) <= MaxUnits
  /\ \A s \in Sids : params[s] \in UnitSets
  /\ \A i \in Slots : Kept(slot[i]) /\ Begun(slot[i])

TapInv == TypeOK /\ Descriptors /\ Stages /\ Numbered

-----------------------------------------------------------------------------
(* What is sent.                                                           *)

(* In what follows c is a slot and g what its viewer was sent.             *)

(* How much of it is settled: a unit that went out in part is going to be  *)
(* completed or given up.                                                  *)
Settled(c, g) == IF c.begun THEN Len(g) - 1 ELSE Len(g)

(* A viewer can decode what comes next: it has a picture of its own, and   *)
(* nothing was torn since.                                                 *)
InStep(g, m) ==
  \E p \in 1 .. m :
    OwnPicture(g, p) /\ (DropToIdr => \A k \in p .. m : Own(g, k) => g[k].whole)

Newest(c) == c.buf[Len(c.buf)]

(* A slot without a viewer is as client_close left it but for its buffer.  *)
Vacant(c) ==
  /\ ~c.needIdr /\ ~c.pendingIdr /\ ~c.begun /\ ~c.gaveUp
  /\ c.own = None /\ c.params = NoParams

(* The buffer a viewer found: it has not been sent anything else.          *)
Inherited(c, g) ==
  /\ c.needIdr /\ ~c.pendingIdr /\ ~c.gaveUp
  /\ \A k \in DOMAIN g : ~g[k].own

(* A buffer that may end the recovery: parameter sets and an IDR.          *)
Recovering(c) ==
  /\ c.pendingIdr /\ units[Newest(c)].idr
  /\ \A j \in DOMAIN c.buf : units[c.buf[j]].idr \/ units[c.buf[j]].first # "slice"

(* A buffer is younger than what was sent before it.                       *)
Younger(c, g) ==
  /\ \A j \in DOMAIN c.buf : c.buf[j] <= Newest(c)
  /\ \A k \in 1 .. Settled(c, g) :
       Own(g, k) => g[k].unit <= Newest(c) /\ (g[k].copy \/ g[k].unit # Newest(c))

(* What a slot holds, when no unit after number n has reached it.          *)
Filled(c, g) ==
  /\ c.buf # <<>> /\ c.own # c.viewer => Inherited(c, g)
  /\ c.buf # <<>> /\ c.own = c.viewer => Younger(c, g) /\ (c.needIdr => Recovering(c))
Follows(c, g) == ~c.needIdr => Len(c.buf) <= 1 /\ InStep(g, Settled(c, g))

Content(c, g, n) ==
  /\ \A j \in DOMAIN c.buf : c.buf[j] <= n
  /\ c.viewer = None => Vacant(c)
  /\ c.viewer # None =>
       /\ c.own \in {None, c.viewer} /\ (c.pendingIdr => c.needIdr)
       /\ \A k \in DOMAIN g : g[k].unit <= n
       /\ Filled(c, g) /\ Follows(c, g) /\ WaitsRightly(c, g)

(* The last unit that may have reached slot i. *)
Reached(i) == IF ingest.i \in 1 .. i THEN Len(units) - 1 ELSE Len(units)

ContentInv == \A i \in Slots : Content(slot[i], got[slot[i].viewer], Reached(i))

(* What was sent are units, in a playable order. *)
SentUnits(g) == \A k \in DOMAIN g : g[k].unit \in 1 .. Len(units)
SentWell == \A v \in Viewers : SentUnits(got[v]) /\ Starts(got[v]) /\ Ordered(got[v])

(* A viewer without a slot so far was sent nothing. *)
Fresh == \A v \in Viewers : fd[v] = "none" \/ InHand(v) => got[v] = <<>>

(* The sets kept for a stream, and those of a slot: the unit that is being *)
(* published is in the former and on its way to the latter.                *)
Waits(i) ==
  ingest.i # 0 /\ slot[i].sid = Unit.sid /\ (ingest.i < i \/ (ingest.i = i /\ ingest.at = "old"))
ParamsInv ==
  /\ \A s \in Sids :
       /\ params[s].sps # 0 => units[params[s].sps].first = "sps"
       /\ params[s].pps # 0 => units[params[s].pps].first = "pps"
  /\ \A i \in Slots : slot[i].viewer # None =>
       params[slot[i].sid] =
         IF Waits(i) THEN Cached(slot[i].params, Unit, Number) ELSE slot[i].params
  /\ ingest.at = "new" /\ Cur.viewer # None => Cur.sid = Unit.sid

SendInv == ContentInv /\ SentWell /\ Fresh /\ ParamsInv


-----------------------------------------------------------------------------
(* What is in the way of a publication.                                    *)

(* A set of numbers has a first one. *)
LessThan == {ss \in Nat \X Nat : ss[1] < ss[2]}

LEMMA FirstOf == ASSUME NEW S \in SUBSET Nat, S # {} PROVE \E i \in S : \A j \in S : i <= j
<1>1. OpToRel(<, Nat) = LessThan
  BY DEF OpToRel, LessThan
<1>2. PICK i \in S : \A j \in S : ~ (<<j, i>> \in OpToRel(<, Nat))
  BY WFMin, NatLessThanWellFounded
<1>3. ASSUME NEW j \in S PROVE i <= j
  <2>1. i \in Nat /\ j \in Nat /\ <<j, i>> \notin LessThan
    BY <1>1, <1>2
  <2> QED BY <2>1 DEF LessThan
<1> QED BY <1>3

(* The slot the ingest thread has come to, and the unit in its hand.       *)
LEMMA InPublication ==
  ASSUME TapInv, ingest.i # 0
  PROVE  /\ ingest.i \in Slots /\ ingest.at \in {"old", "new"}
         /\ Cur \in TapClients /\ Kept(Cur) /\ Begun(Cur)
         /\ Cur.viewer \in Viewers \cup {None}
         /\ Cur.sid = 0 <=> Cur.viewer = None
         /\ Number \in 1 .. MaxUnits /\ Number = Len(units)
         /\ Unit.sid \in Sids /\ Unit.first \in {"sps", "pps", "slice"} /\ Unit.idr \in BOOLEAN
<1> USE AgentAssumption DEF TapInv
<1>1. ingest.i \in Slots /\ ingest.at \in {"old", "new"}
  BY DEF TypeOK
<1>2. Cur \in TapClients /\ Kept(Cur) /\ Begun(Cur) /\ (Cur.sid = 0 <=> Cur.viewer = None)
  BY <1>1 DEF TypeOK, Cur, Numbered
<1>3. Cur.viewer \in Viewers \cup {None}
  BY <1>2 DEF TapClients
<1>4. units \in Seq([sid : Sids, first : {"sps", "pps", "slice"}, idr : BOOLEAN]) /\ units # <<>>
  BY <1>1 DEF TypeOK, Stages
<1>5. Number \in 1 .. MaxUnits /\ Number = Len(units)
  BY <1>4 DEF Number, Numbered
<1>6. Unit \in [sid : Sids, first : {"sps", "pps", "slice"}, idr : BOOLEAN]
  <2> DEFINE R == [sid : Sids, first : {"sps", "pps", "slice"}, idr : BOOLEAN]
  <2>1. units \in Seq(R) /\ Number \in 1 .. Len(units)
    BY <1>4, <1>5
  <2> HIDE DEF R
  <2>2. units[Number] \in R
    BY <2>1
  <2> QED BY <2>2 DEF Unit, R
<1> QED BY <1>1, <1>2, <1>3, <1>5, <1>6

(* The sets of a slot after the unit. *)
LEMMA CachedType ==
  ASSUME NEW old \in UnitSets, NEW n \in 0 .. Len(units), NEW k, k.first \in {"sps", "pps", "slice"}
  PROVE  Cached(old, k, n) \in UnitSets
  BY DEF Cached, UnitSets

LEMMA UnitSetsBounded ==
  ASSUME TapInv PROVE UnitSets \subseteq ParamSets
<1>1. Len(units) \in Nat /\ Len(units) <= MaxUnits /\ MaxUnits \in Nat
  BY AgentAssumption DEF TapInv, TypeOK, Numbered
<1>2. 0 .. Len(units) \subseteq 0 .. MaxUnits
  BY <1>1
<1> QED BY <1>2 DEF UnitSets, ParamSets, UnitNumbers

LEMMA WithParamsIs ==
  ASSUME TapInv, ingest.i # 0
  PROVE  /\ WithParams \in TapClients /\ Kept(WithParams) /\ Begun(WithParams)
         /\ \E p \in UnitSets : /\ WithParams = [Cur EXCEPT !.params = p]
                                /\ p = Cached(Cur.params, Unit, Number)
<1>1. PICK p \in UnitSets : p = Cached(Cur.params, Unit, Number)
  <2>1. Cur.params \in UnitSets
    BY InPublication DEF Kept
  <2> QED BY <2>1, InPublication, CachedType
<1>2. WithParams = [Cur EXCEPT !.params = p]
  BY <1>1 DEF WithParams
<1>3. Cur \in TapClients /\ Kept(Cur) /\ Begun(Cur)
  BY InPublication
<1>4. p \in ParamSets
  BY UnitSetsBounded
<1>5. WithParams \in TapClients
  BY <1>2, <1>3, <1>4 DEF TapClients
<1>6. WithParams.params = p /\ WithParams.buf = Cur.buf /\ WithParams.begun = Cur.begun
      /\ WithParams.viewer = Cur.viewer
  BY <1>2, <1>3 DEF TapClients
<1>7. Kept(WithParams) /\ Begun(WithParams)
  BY <1>3, <1>6 DEF Kept, Begun
<1> QED BY <1>1, <1>2, <1>5, <1>7

(* The buffer with the new unit. *)
LEMMA AssembledIs ==
  ASSUME TapInv, ingest.i # 0
  PROVE  /\ Assembled \in TapClients /\ Kept(Assembled) /\ Begun(Assembled)
         /\ Assembled.viewer = Cur.viewer /\ Assembled.sid = Cur.sid
         /\ Assembled.params = Cur.params /\ Assembled.needIdr = Cur.needIdr
         /\ Assembled.gaveUp = Cur.gaveUp /\ Assembled.own = Cur.viewer /\ Assembled.begun = FALSE
         /\ Assembled.pendingIdr = (Cur.pendingIdr \/ (Cur.needIdr /\ Unit.idr))
         /\ Len(Assembled.buf) >= 1 /\ Assembled.buf[Len(Assembled.buf)] = Number
         /\ ~Cur.needIdr => Len(Assembled.buf) = 1
         /\ \A j \in DOMAIN Assembled.buf :
              Assembled.buf[j] \in {Number, Cur.params.sps, Cur.params.pps} \ {0}
<1> DEFINE kept(u) == IF u = 0 THEN <<>> ELSE <<u>>
           buf == IF Cur.needIdr THEN Append(kept(Cur.params.sps) \o kept(Cur.params.pps), Number)
                  ELSE <<Number>>
           nums == 1 .. Len(units)
<1>1. /\ Cur \in TapClients /\ Cur.params \in UnitSets /\ Number \in nums /\ Len(units) \in Nat
      /\ Len(units) <= MaxUnits /\ Cur.viewer \in Viewers \cup {None} /\ Unit.idr \in BOOLEAN
  BY InPublication DEF Kept, TapInv, Numbered
<1>2. PICK a, b \in 0 .. Len(units) : a = Cur.params.sps /\ b = Cur.params.pps
  BY <1>1 DEF UnitSets
<1>3. kept(a) \in Seq(nums) /\ kept(b) \in Seq(nums) /\ Len(kept(a)) <= 1 /\ Len(kept(b)) <= 1
  <2>1. ASSUME NEW u \in 0 .. Len(units) PROVE kept(u) \in Seq(nums) /\ Len(kept(u)) <= 1
    <3>1. CASE u = 0
      BY <3>1
    <3>2. CASE u # 0
      <4>1. u \in nums
        BY <3>2, <1>1
      <4> QED BY <3>2, <4>1
    <3> QED BY <3>1, <3>2
  <2> QED BY <2>1
<1>4. /\ \A j \in DOMAIN kept(a) : kept(a)[j] \in {a} \ {0}
      /\ \A j \in DOMAIN kept(b) : kept(b)[j] \in {b} \ {0}
  <2>1. ASSUME NEW u \in 0 .. Len(units), NEW j \in DOMAIN kept(u) PROVE kept(u)[j] \in {u} \ {0}
    <3>1. u # 0 /\ kept(u) = <<u>>
      BY <2>1
    <3>2. j = 1
      BY <3>1
    <3> QED BY <3>1, <3>2
  <2> QED BY <2>1
<1>5. PICK sets \in Seq(nums) : /\ sets = kept(a) \o kept(b)
                               /\ \A j \in DOMAIN sets : sets[j] \in {a, b} \ {0}
  <2> HIDE DEF kept
  <2>1. kept(a) \o kept(b) \in Seq(nums)
    BY <1>3
  <2>2. ASSUME NEW j \in DOMAIN (kept(a) \o kept(b))
        PROVE  (kept(a) \o kept(b))[j] \in {a, b} \ {0}
    <3>1. j \in 1 .. Len(kept(a)) + Len(kept(b))
      BY <1>3
    <3>2. CASE j <= Len(kept(a))
      <4>1. j \in DOMAIN kept(a) /\ (kept(a) \o kept(b))[j] = kept(a)[j]
        BY <1>3, <3>1, <3>2
      <4> QED BY <4>1, <1>4
    <3>3. CASE j > Len(kept(a))
      <4>1. /\ j - Len(kept(a)) \in DOMAIN kept(b)
            /\ (kept(a) \o kept(b))[j] = kept(b)[j - Len(kept(a))]
        BY <1>3, <3>1, <3>3
      <4> QED BY <4>1, <1>4
    <3> QED BY <3>1, <3>2, <3>3, <1>3
  <2> QED BY <2>1, <2>2
<1>6. buf \in Seq(nums) /\ Len(buf) >= 1 /\ buf[Len(buf)] = Number /\ (~Cur.needIdr => Len(buf) = 1)
      /\ \A j \in DOMAIN buf : buf[j] \in {Number, Cur.params.sps, Cur.params.pps} \ {0}
  <2>1. CASE Cur.needIdr
    <3>1. buf = Append(sets, Number)
      BY <2>1, <1>2, <1>5
    <3> HIDE DEF buf
    <3>2. buf \in Seq(nums) /\ Len(buf) = Len(sets) + 1 /\ buf[Len(buf)] = Number
      BY <3>1, <1>1
    <3>3. ASSUME NEW j \in DOMAIN buf PROVE buf[j] \in {Number, a, b} \ {0}
      <4>1. j \in 1 .. Len(sets) + 1 /\ Number # 0 /\ Len(sets) \in Nat
        BY <3>2, <1>1
      <4>2. CASE j = Len(sets) + 1
        BY <3>2, <4>1, <4>2
      <4>3. CASE j # Len(sets) + 1
        <5>1. j \in DOMAIN sets
          BY <4>1, <4>3
        <5>2. buf[j] = sets[j]
          BY <3>1, <1>1, <5>1
        <5> QED BY <5>1, <5>2, <1>5
      <4> QED BY <4>2, <4>3
    <3> QED BY <3>2, <3>3, <2>1, <1>2
  <2>2. CASE ~Cur.needIdr
    BY <2>2, <1>1
  <2> QED BY <2>1, <2>2
<1>7. Assembled = [Cur EXCEPT !.buf = buf, !.own = Cur.viewer, !.begun = FALSE,
                              !.pendingIdr = Cur.pendingIdr \/ (Cur.needIdr /\ Unit.idr)]
  BY DEF Assembled
<1> HIDE DEF buf
<1>8. (Cur.pendingIdr \/ (Cur.needIdr /\ Unit.idr)) \in BOOLEAN
  OBVIOUS
<1>9. buf \in Seq(UnitNumbers)
  <2>1. nums \subseteq UnitNumbers
    BY <1>1, AgentAssumption DEF UnitNumbers
  <2> QED BY <1>6, <2>1
<1>10. Assembled \in TapClients
  BY <1>1, <1>7, <1>8, <1>9 DEF TapClients
<1>11. /\ Assembled.viewer = Cur.viewer /\ Assembled.sid = Cur.sid
       /\ Assembled.params = Cur.params /\ Assembled.needIdr = Cur.needIdr
       /\ Assembled.gaveUp = Cur.gaveUp /\ Assembled.own = Cur.viewer /\ Assembled.begun = FALSE
       /\ Assembled.pendingIdr = (Cur.pendingIdr \/ (Cur.needIdr /\ Unit.idr))
       /\ Assembled.buf = buf
  BY <1>1, <1>7 DEF TapClients
<1>12. Kept(Assembled) /\ Begun(Assembled)
  BY <1>6, <1>11, <1>1 DEF Kept, Begun
<1> QED BY <1>6, <1>10, <1>11, <1>12

-----------------------------------------------------------------------------
(* What a viewer was sent when k units of a buffer went out and perhaps    *)
(* part of the next.                                                       *)

Whole(c, j) == [unit |-> c.buf[j], copy |-> j < Len(c.buf), whole |-> TRUE, own |-> c.own = c.viewer]
Torn(c, j)  == [unit |-> c.buf[j], copy |-> j < Len(c.buf), whole |-> FALSE, own |-> c.own = c.viewer]

LEMMA EntryType ==
  ASSUME TapInv, NEW c \in TapClients, Kept(c), NEW j \in DOMAIN c.buf
  PROVE  Whole(c, j) \in Sends /\ Torn(c, j) \in Sends
<1>1. c.buf[j] \in 1 .. MaxUnits
  <2>1. c.buf[j] \in 1 .. Len(units) /\ Len(units) \in Nat /\ Len(units) <= MaxUnits
    BY DEF Kept, TapInv, TypeOK, Numbered
  <2> QED BY <2>1, AgentAssumption
<1>2. (j < Len(c.buf)) \in BOOLEAN /\ (c.own = c.viewer) \in BOOLEAN
  OBVIOUS
<1> QED BY <1>1, <1>2 DEF Whole, Torn, Sends

LEMMA SettledIs ==
  ASSUME TapInv, NEW c \in TapClients, c.viewer \in Viewers, Begun(c)
  PROVE  /\ got[c.viewer] \in Seq(Sends) /\ Len(got[c.viewer]) \in Nat
         /\ Settled(c, got[c.viewer]) \in 0 .. Len(got[c.viewer])
         /\ ~c.begun => Settled(c, got[c.viewer]) = Len(got[c.viewer])
         /\ c.begun => Settled(c, got[c.viewer]) = Len(got[c.viewer]) - 1
<1>1. got[c.viewer] \in Seq(Sends) /\ Len(got[c.viewer]) \in Nat
  <2>1. got \in [Viewers -> Seq(Sends)]
    BY DEF TapInv, TypeOK, Sends
  <2> QED BY <2>1
<1>2. c.begun => Len(got[c.viewer]) >= 1
  BY <1>1 DEF Begun
<1>3. c.begun \in BOOLEAN
  BY DEF TapClients
<1> QED BY <1>1, <1>2, <1>3 DEF Settled

LEMMA Concatenation ==
  ASSUME NEW S, NEW s \in Seq(S), NEW t \in Seq(S)
  PROVE  /\ s \o t \in Seq(S) /\ Len(s \o t) = Len(s) + Len(t)
         /\ \A n \in 1 .. Len(s) : (s \o t)[n] = s[n]
         /\ \A n \in 1 .. Len(t) : (s \o t)[Len(s) + n] = t[n]
<1>1. ASSUME NEW n \in 1 .. Len(t) PROVE (s \o t)[Len(s) + n] = t[n]
  <2>1. /\ Len(s) + n \in 1 .. Len(s) + Len(t) /\ Len(s) + n > Len(s)
        /\ (Len(s) + n) - Len(s) = n
    OBVIOUS
  <2>2. (s \o t)[Len(s) + n] = t[(Len(s) + n) - Len(s)]
    BY <2>1
  <2> QED BY <2>1, <2>2
<1> QED BY <1>1

LEMMA SentIs ==
  ASSUME TapInv, NEW c \in TapClients, c.viewer \in Viewers, Kept(c), Begun(c),
         NEW k \in 0 .. Len(c.buf), NEW torn \in BOOLEAN, torn => k < Len(c.buf)
  PROVE  LET T == Sent(c, k, torn)
             m == Settled(c, got[c.viewer])
         IN  /\ T \in Seq(Sends)
             /\ Len(T) = m + k + (IF torn THEN 1 ELSE 0)
             /\ \A n \in 1 .. m : T[n] = got[c.viewer][n]
             /\ \A j \in 1 .. k : T[m + j] = Whole(c, j)
             /\ torn => T[m + k + 1] = Torn(c, k + 1)
<1> DEFINE g == got[c.viewer]
           m == Settled(c, got[c.viewer])
           before == IF c.begun THEN Front(g) ELSE g
           wholes == [j \in 1 .. k |-> Whole(c, j)]
           tail == IF torn THEN <<Torn(c, k + 1)>> ELSE <<>>
<1>1. g \in Seq(Sends) /\ m \in 0 .. Len(g) /\ Len(g) \in Nat
      /\ (~c.begun => m = Len(g)) /\ (c.begun => m = Len(g) - 1)
  BY SettledIs
<1>2. c.buf \in Seq(UnitNumbers) /\ Len(c.buf) \in Nat /\ c.begun \in BOOLEAN /\ k \in Nat
  <2>1. c.buf \in Seq(UnitNumbers) /\ c.begun \in BOOLEAN
    BY DEF TapClients
  <2> QED BY <2>1
<1> HIDE DEF g, m
<1>3. before \in Seq(Sends) /\ Len(before) = m /\ \A n \in 1 .. m : before[n] = g[n]
  <2>1. CASE c.begun
    <3>1. before = SubSeq(g, 1, Len(g) - 1)
      BY <2>1 DEF Front
    <3> HIDE DEF before
    <3> QED BY <3>1, <2>1, <1>1, <1>2
  <2>2. CASE ~c.begun
    BY <2>2, <1>1, <1>2
  <2> QED BY <2>1, <2>2, <1>2
<1>4. wholes \in Seq(Sends) /\ Len(wholes) = k /\ \A j \in 1 .. k : wholes[j] = Whole(c, j)
  <2>1. ASSUME NEW j \in 1 .. k PROVE Whole(c, j) \in Sends
    <3>1. j \in DOMAIN c.buf
      BY <1>2
    <3> QED BY <3>1, EntryType
  <2>2. wholes \in [1 .. k -> Sends]
    BY <2>1
  <2>3. wholes \in Seq(Sends)
    BY <2>2, <1>2
  <2> QED BY <2>3, <1>2
<1>5. tail \in Seq(Sends) /\ Len(tail) = (IF torn THEN 1 ELSE 0)
      /\ (torn => tail[1] = Torn(c, k + 1))
  <2>1. CASE torn
    <3>1. k + 1 \in DOMAIN c.buf
      BY <2>1, <1>2
    <3>2. Torn(c, k + 1) \in Sends
      BY <3>1, EntryType
    <3> QED BY <2>1, <3>2
  <2>2. CASE ~torn
    BY <2>2
  <2> QED BY <2>1, <2>2
<1>6. Sent(c, k, torn) = (before \o wholes) \o tail
  BY DEF Sent, g, Whole, Torn
<1> HIDE DEF before, wholes, tail
<1> DEFINE front == before \o wholes
           T     == front \o tail
<1>7. /\ front \in Seq(Sends) /\ Len(front) = m + k
      /\ \A n \in 1 .. m : front[n] = before[n]
      /\ \A j \in 1 .. k : front[m + j] = wholes[j]
  <2>1. /\ front \in Seq(Sends) /\ Len(front) = Len(before) + Len(wholes)
        /\ \A n \in 1 .. Len(before) : front[n] = before[n]
        /\ \A j \in 1 .. Len(wholes) : front[Len(before) + j] = wholes[j]
    <3>1. before \in Seq(Sends) /\ wholes \in Seq(Sends)
      BY <1>3, <1>4
    <3> QED BY <3>1, Concatenation
  <2> HIDE DEF front
  <2> QED BY <2>1, <1>3, <1>4
<1>9. /\ T \in Seq(Sends) /\ Len(T) = m + k + Len(tail)
      /\ \A n \in 1 .. m + k : T[n] = front[n]
      /\ \A j \in 1 .. Len(tail) : T[m + k + j] = tail[j]
  <2> HIDE DEF front
  <2>1. /\ T \in Seq(Sends) /\ Len(T) = Len(front) + Len(tail)
        /\ \A n \in 1 .. Len(front) : T[n] = front[n]
        /\ \A j \in 1 .. Len(tail) : T[Len(front) + j] = tail[j]
    BY <1>5, <1>7, Concatenation
  <2> HIDE DEF T
  <2> QED BY <2>1, <1>7
<1>10. T = Sent(c, k, torn)
  BY <1>6
<1> HIDE DEF front, T
<1>11. Len(T) = m + k + (IF torn THEN 1 ELSE 0)
  BY <1>5, <1>9, <1>1
<1>12. torn => T[m + k + 1] = Torn(c, k + 1)
  <2> SUFFICES ASSUME torn PROVE T[m + k + 1] = Torn(c, k + 1)
    OBVIOUS
  <2>1. 1 \in 1 .. Len(tail)
    BY <1>5
  <2>2. T[m + k + 1] = tail[1]
    BY <2>1, <1>9
  <2> QED BY <2>2, <1>5
<1>13. \A n \in 1 .. m : T[n] = g[n]
  <2>1. \A n \in 1 .. m : n \in 1 .. m + k
    BY <1>1, <1>2
  <2> QED BY <2>1, <1>3, <1>7, <1>9
<1>14. \A j \in 1 .. k : T[m + j] = Whole(c, j)
  <2>1. \A j \in 1 .. k : m + j \in 1 .. m + k
    BY <1>1, <1>2
  <2> QED BY <2>1, <1>4, <1>7, <1>9
<1> QED BY <1>9, <1>10, <1>11, <1>12, <1>13, <1>14 DEF g, m

-----------------------------------------------------------------------------
(* The step of a publication that gives slot ingest.i the value c: its     *)
(* viewer keeps it, or is closed.                                          *)
Keeps(c)  == c.viewer = Cur.viewer /\ c.sid = Cur.sid /\ fd' = fd
Closes(c) == c = FreeSlot /\ Cur.viewer \in Viewers /\ fd' = [fd EXCEPT ![Cur.viewer] = "closed"]

SlotStep(c) ==
  /\ slot' = [slot EXCEPT ![ingest.i] = c]
  /\ PublishQuiet
  /\ Keeps(c) \/ Closes(c)
  /\ got' \in [Viewers -> Seq(Sends)]
  /\ \A v \in Viewers : v # Cur.viewer => got'[v] = got[v]
  /\ \/ NextSlot
     \/ Goto("new", ingest.i) /\ c.buf = <<>> /\ ~c.begun

LEMMA FreeSlotIs ==
  /\ FreeSlot \in TapClients /\ FreeSlot.viewer = None /\ FreeSlot.sid = 0 /\ FreeSlot.buf = <<>>
  /\ ~FreeSlot.begun
  /\ TapInv => Kept(FreeSlot)
<1>1. NoParams \in ParamSets
  BY AgentAssumption DEF NoParams, ParamSets, UnitNumbers
<1>2. <<>> \in Seq(UnitNumbers)
  OBVIOUS
<1>3. FreeSlot \in TapClients
  BY <1>1, <1>2 DEF FreeSlot, TapClients
<1>4. FreeSlot.viewer = None /\ FreeSlot.sid = 0 /\ FreeSlot.buf = <<>> /\ FreeSlot.params = NoParams
      /\ FreeSlot.begun = FALSE
  BY DEF FreeSlot
<1>5. ASSUME TapInv PROVE Kept(FreeSlot)
  <2>1. 0 \in 0 .. Len(units)
    BY <1>5 DEF TapInv, TypeOK
  <2> QED BY <1>4, <2>1 DEF Kept, UnitSets, NoParams
<1> QED BY <1>3, <1>4, <1>5

LEMMA SlotStepIngest ==
  ASSUME TapInv, ingest.i # 0, NEW c, SlotStep(c)
  PROVE  /\ ingest' \in [at : {"boot", "recv", "old", "new"}, i : Slots \cup {0}]
         /\ ingest'.at \in {"boot", "recv"} <=> ingest'.i = 0
         /\ ingest'.at = "new" => ingest'.i = ingest.i /\ c.buf = <<>> /\ ~c.begun
         /\ \/ ingest'.at = "new" /\ ingest'.i = ingest.i
            \/ ingest'.at = "old" /\ ingest'.i = ingest.i + 1
            \/ ingest'.i = 0 /\ ingest.i = MaxClients
<1>1. ingest.i \in Slots /\ ingest \in [at : {"boot", "recv", "old", "new"}, i : Slots \cup {0}]
  BY InPublication DEF TapInv, TypeOK
<1>2. (\A i \in Slots : i # 0) /\ (ingest.i + 1 \notin Slots => ingest.i = MaxClients)
  <2>1. ingest.i \in 1 .. MaxClients /\ MaxClients \in Nat
    BY <1>1, AgentAssumption DEF Slots
  <2> QED BY <2>1 DEF Slots
<1>3. CASE NextSlot
  <2>1. CASE ingest.i + 1 \in Slots
    <3>1. PICK n \in Slots : n = ingest.i + 1
      BY <2>1
    <3>2. ingest' = [ingest EXCEPT !.at = "old", !.i = n]
      BY <3>1, <1>3 DEF NextSlot, Goto
    <3>3. ingest'.at = "old" /\ ingest'.i = n
          /\ ingest' \in [at : {"boot", "recv", "old", "new"}, i : Slots \cup {0}]
      BY <3>2, <1>1
    <3> QED BY <3>1, <3>3, <1>2
  <2>2. CASE ingest.i + 1 \notin Slots
    <3>1. ingest' = [ingest EXCEPT !.at = "recv", !.i = 0]
      BY <2>2, <1>3 DEF NextSlot, Goto
    <3>2. ingest'.at = "recv" /\ ingest'.i = 0
          /\ ingest' \in [at : {"boot", "recv", "old", "new"}, i : Slots \cup {0}]
      BY <3>1, <1>1
    <3> QED BY <2>2, <3>2, <1>2
  <2> QED BY <2>1, <2>2
<1>4. CASE Goto("new", ingest.i) /\ c.buf = <<>> /\ ~c.begun
  BY <1>4, <1>1, <1>2 DEF Goto
<1> QED BY <1>3, <1>4 DEF SlotStep

LEMMA SlotStepDescriptors ==
  ASSUME TapInv, ingest.i # 0, NEW c \in TapClients, SlotStep(c)
  PROVE  Descriptors'
<1> DEFINE i == ingest.i
<1>1. i \in Slots /\ Cur = slot[i] /\ Cur.viewer \in Viewers \cup {None} /\ None \notin Viewers
  BY InPublication, AgentAssumption DEF Cur
<1>2. slot'[i] = c /\ \A j \in Slots : j # i => slot'[j] = slot[j]
  BY <1>1 DEF SlotStep, TapInv, TypeOK
<1>3. acceptor' = acceptor
  BY DEF SlotStep, PublishQuiet
<1> HIDE DEF i
<1>4. CASE Keeps(c)
  <2>1. \A j \in Slots : slot'[j].viewer = slot[j].viewer
    BY <1>1, <1>2, <1>4 DEF Keeps
  <2> QED BY <2>1, <1>3, <1>4 DEF Keeps, TapInv, Descriptors, InHand, Holds
<1>5. CASE Closes(c)
  <2>1. c.viewer = None
    BY <1>5, FreeSlotIs DEF Closes
  <2>2. fd \in [Viewers -> {"none", "open", "closed"}]
    BY DEF TapInv, TypeOK
  <2> SUFFICES ASSUME NEW v \in Viewers
               PROVE  /\ \A j, k \in Slots : slot'[j].viewer = v /\ slot'[k].viewer = v => j = k
                      /\ ~(InHand(v)' /\ Holds(v)')
                      /\ fd'[v] = "open" <=> InHand(v)' \/ Holds(v)'
    BY DEF Descriptors
  <2>3. InHand(v)' <=> InHand(v)
    BY <1>3 DEF InHand
  <2>4. /\ \A j, k \in Slots : slot[j].viewer = v /\ slot[k].viewer = v => j = k
        /\ ~(InHand(v) /\ Holds(v))
        /\ fd[v] = "open" <=> InHand(v) \/ Holds(v)
    BY DEF TapInv, Descriptors
  <2>5. \A j \in Slots : slot'[j].viewer = v => slot[j].viewer = v /\ j # i
    BY <1>1, <1>2, <2>1
  <2>6. CASE v = slot[i].viewer
    <3>1. fd'[v] = "closed" /\ ~Holds(v)' /\ Holds(v)
      BY <2>6, <2>5, <2>4, <2>2, <1>1, <1>5 DEF Closes, Holds
    <3> QED BY <3>1, <2>3, <2>4, <2>5
  <2>7. CASE v # slot[i].viewer
    <3>1. fd'[v] = fd[v]
      BY <2>7, <1>1, <1>5, <2>2 DEF Closes
    <3>2. Holds(v)' <=> Holds(v)
      BY <2>5, <2>7, <1>2 DEF Holds
    <3> QED BY <3>1, <3>2, <2>3, <2>4, <2>5
  <2> QED BY <2>6, <2>7
<1> QED BY <1>4, <1>5 DEF SlotStep

LEMMA SlotStepNumbered ==
  ASSUME TapInv, ingest.i # 0, NEW c \in TapClients, SlotStep(c), Kept(c), Begun(c)'
  PROVE  Numbered'
<1> DEFINE i == ingest.i
<1>1. i \in Slots /\ Cur = slot[i] /\ Cur.viewer \in Viewers \cup {None} /\ None \notin Viewers
  BY InPublication, AgentAssumption DEF Cur
<1>2. slot'[i] = c /\ \A j \in Slots : j # i => slot'[j] = slot[j]
  BY <1>1 DEF SlotStep, TapInv, TypeOK
<1>3. params' = params /\ units' = units
  BY DEF SlotStep, PublishQuiet
<1> HIDE DEF i
<1>4. UnitSets' = UnitSets
  BY <1>3 DEF UnitSets
<1>5. ASSUME NEW j \in Slots PROVE Kept(slot[j])' /\ Begun(slot[j])'
  <2>1. CASE j = i
    BY <2>1, <1>2, <1>3, <1>4 DEF Kept, Begun
  <2>2. CASE j # i
    <3>1. slot'[j] = slot[j] /\ Kept(slot[j]) /\ Begun(slot[j]) /\ slot[j] \in TapClients
      BY <2>2, <1>2 DEF TapInv, Numbered, TypeOK
    <3>2. slot[j].begun => got'[slot[j].viewer] = got[slot[j].viewer]
      <4> SUFFICES ASSUME slot[j].begun PROVE got'[slot[j].viewer] = got[slot[j].viewer]
        OBVIOUS
      <4>1. slot[j].viewer \in Viewers
        BY <3>1 DEF Begun, TapClients
      <4>2. slot[j].viewer # slot[i].viewer
        BY <4>1, <1>1, <2>2 DEF TapInv, Descriptors
      <4> QED BY <4>1, <4>2, <1>1 DEF SlotStep
    <3> QED BY <3>1, <3>2, <1>3, <1>4 DEF Kept, Begun
  <2> QED BY <2>1, <2>2
<1> QED BY <1>3, <1>4, <1>5 DEF Numbered, TapInv

LEMMA SlotStepTyped ==
  ASSUME TapInv, ingest.i # 0, NEW c \in TapClients, SlotStep(c)
  PROVE  TypeOK'
<1> DEFINE i == ingest.i
<1>1. i \in Slots /\ Cur = slot[i] /\ (Cur.sid = 0 <=> Cur.viewer = None)
  BY InPublication DEF Cur
<1>2. /\ slot' \in [Slots -> TapClients] /\ slot'[i] = c
      /\ \A j \in Slots : j # i => slot'[j] = slot[j]
  BY <1>1 DEF SlotStep, TapInv, TypeOK
<1>3. acceptor' = acceptor /\ viewer' = viewer /\ params' = params /\ units' = units
  BY DEF SlotStep, PublishQuiet
<1> HIDE DEF i
<1>4. c.sid = 0 <=> c.viewer = None
  BY <1>1, FreeSlotIs DEF SlotStep, Keeps, Closes
<1>5. \A j \in Slots : slot'[j].sid = 0 <=> slot'[j].viewer = None
  <2>1. \A j \in Slots : slot[j].sid = 0 <=> slot[j].viewer = None
    BY DEF TapInv, TypeOK
  <2> SUFFICES ASSUME NEW j \in Slots PROVE slot'[j].sid = 0 <=> slot'[j].viewer = None
    OBVIOUS
  <2>2. CASE j = i
    BY <2>2, <1>2, <1>4
  <2>3. CASE j # i
    BY <2>1, <2>3, <1>2
  <2> QED BY <2>2, <2>3
<1>6. fd' \in [Viewers -> {"none", "open", "closed"}]
  BY DEF SlotStep, Keeps, Closes, TapInv, TypeOK
<1>7. got' \in [Viewers -> Seq(Sends)]
  BY DEF SlotStep
<1> QED BY <1>2, <1>3, <1>5, <1>6, <1>7, SlotStepIngest DEF TapInv, TypeOK, Sends

LEMMA SlotStepStages ==
  ASSUME TapInv, ingest.i # 0, NEW c \in TapClients, SlotStep(c)
  PROVE  Stages'
<1>1. ingest.i \in Slots /\ slot'[ingest.i] = c
  BY InPublication DEF SlotStep, TapInv, TypeOK
<1>2. acceptor' = acceptor /\ units' = units /\ units # <<>>
  BY DEF SlotStep, PublishQuiet, TapInv, Stages
<1>3. ingest'.at = "new" => Cur' = c /\ c.buf = <<>> /\ ~c.begun
  BY <1>1, SlotStepIngest DEF Cur
<1> QED BY <1>2, <1>3 DEF Stages, TapInv

LEMMA SlotChanges ==
  ASSUME TapInv, ingest.i # 0, NEW c \in TapClients, SlotStep(c), Kept(c), Begun(c)'
  PROVE  TapInv'
  BY SlotStepTyped, SlotStepDescriptors, SlotStepStages, SlotStepNumbered DEF TapInv

-----------------------------------------------------------------------------
(* What each way through a slot leaves in it.                              *)

LEMMA FlushedIs ==
  ASSUME NEW c \in TapClients
  PROVE  /\ Flushed(c) \in TapClients
         /\ Flushed(c).viewer = c.viewer /\ Flushed(c).sid = c.sid /\ Flushed(c).own = c.own
         /\ Flushed(c).buf = <<>> /\ Flushed(c).begun = FALSE /\ Flushed(c).pendingIdr = FALSE
         /\ Flushed(c).needIdr = (c.needIdr /\ ~c.pendingIdr) /\ Flushed(c).gaveUp = FALSE
         /\ Flushed(c).params = c.params
<1>1. (c.needIdr /\ ~c.pendingIdr) \in BOOLEAN /\ <<>> \in Seq(UnitNumbers)
  OBVIOUS
<1>2. Flushed(c) \in TapClients
  BY <1>1 DEF Flushed, TapClients
<1> QED BY <1>2 DEF Flushed, TapClients

Rest(c, k, torn) == [c EXCEPT !.buf = SubSeq(@, k + 1, Len(@)), !.begun = torn]

LEMMA RestIs ==
  ASSUME TapInv, NEW c \in TapClients, Kept(c), NEW k \in 0 .. Len(c.buf) - 1, NEW torn \in BOOLEAN
  PROVE  LET r == Rest(c, k, torn)
         IN  /\ r \in TapClients /\ Kept(r)
             /\ r.viewer = c.viewer /\ r.sid = c.sid /\ r.own = c.own /\ r.begun = torn
             /\ r.pendingIdr = c.pendingIdr /\ r.needIdr = c.needIdr /\ r.gaveUp = c.gaveUp
             /\ r.params = c.params
             /\ Len(r.buf) = Len(c.buf) - k /\ Len(r.buf) >= 1
             /\ \A j \in 1 .. Len(c.buf) - k : r.buf[j] = c.buf[k + j]
<1>1. c.buf \in Seq(UnitNumbers) /\ Len(c.buf) \in Nat /\ k \in Nat
  <2>1. c.buf \in Seq(UnitNumbers)
    BY DEF TapClients
  <2> QED BY <2>1
<1>2. PICK b \in Seq(UnitNumbers) :
        /\ b = SubSeq(c.buf, k + 1, Len(c.buf)) /\ Len(b) = Len(c.buf) - k
        /\ \A j \in 1 .. Len(c.buf) - k : b[j] = c.buf[k + j]
  <2> DEFINE b == SubSeq(c.buf, k + 1, Len(c.buf))
  <2>1. b \in Seq(UnitNumbers) /\ Len(b) = Len(c.buf) - k
    BY <1>1
  <2>2. ASSUME NEW j \in 1 .. Len(c.buf) - k PROVE b[j] = c.buf[k + j]
    <3>1. b[j] = c.buf[(k + 1) + j - 1] /\ (k + 1) + j - 1 = k + j
      BY <1>1
    <3> QED BY <3>1
  <2> QED BY <2>1, <2>2
<1>3. Rest(c, k, torn) = [c EXCEPT !.buf = b, !.begun = torn]
  BY <1>2 DEF Rest
<1>4. Rest(c, k, torn) \in TapClients
  BY <1>3 DEF TapClients
<1>5. /\ Rest(c, k, torn).buf = b /\ Rest(c, k, torn).begun = torn
      /\ Rest(c, k, torn).viewer = c.viewer /\ Rest(c, k, torn).sid = c.sid
      /\ Rest(c, k, torn).own = c.own /\ Rest(c, k, torn).pendingIdr = c.pendingIdr
      /\ Rest(c, k, torn).needIdr = c.needIdr /\ Rest(c, k, torn).gaveUp = c.gaveUp
      /\ Rest(c, k, torn).params = c.params
  BY <1>3 DEF TapClients
<1>6. \A j \in DOMAIN b : b[j] \in 1 .. Len(units)
  <2> SUFFICES ASSUME NEW j \in DOMAIN b PROVE b[j] \in 1 .. Len(units)
    OBVIOUS
  <2>1. j \in 1 .. Len(c.buf) - k /\ k + j \in DOMAIN c.buf
    BY <1>1, <1>2
  <2> QED BY <2>1, <1>2 DEF Kept
<1>7. Kept(Rest(c, k, torn))
  BY <1>5, <1>6 DEF Kept
<1>8. Len(b) >= 1
  BY <1>1, <1>2
<1> QED BY <1>2, <1>4, <1>5, <1>7, <1>8

(* c, a new content of the slot the ingest thread has come to, goes to its *)
(* viewer.                                                                 *)
Loaded(c) ==
  /\ c \in TapClients /\ Kept(c) /\ Begun(c) /\ c.buf # <<>>
  /\ c.viewer = Cur.viewer /\ c.sid = Cur.sid /\ c.viewer \in Viewers

LEMMA UpdateIs ==
  ASSUME TapInv, ingest.i # 0, NEW c, c.viewer = Cur.viewer, c.viewer \in Viewers, NEW d, NEW T \in Seq(Sends),
         Update(d, c.viewer, T)
  PROVE  /\ slot' = [slot EXCEPT ![ingest.i] = d]
         /\ got' \in [Viewers -> Seq(Sends)]
         /\ got'[c.viewer] = T
         /\ \A v \in Viewers : v # Cur.viewer => got'[v] = got[v]
<1>1. got' = [got EXCEPT ![c.viewer] = T] /\ slot' = [slot EXCEPT ![ingest.i] = d]
  BY AgentAssumption DEF Update
<1>2. got \in [Viewers -> Seq(Sends)]
  BY DEF TapInv, TypeOK, Sends
<1> QED BY <1>1, <1>2

LEMMA FlushAllStep ==
  ASSUME TapInv, ingest.i # 0, NEW c, Loaded(c), PublishQuiet,
         FlushAll(c, "old", ingest.i + 1) \/ FlushAll(c, "new", ingest.i)
  PROVE  /\ SlotStep(Flushed(c)) /\ TapInv'
         /\ got'[c.viewer] = Sent(c, Len(c.buf), FALSE)
<1>1. /\ c \in TapClients /\ Kept(c) /\ Begun(c) /\ c.viewer \in Viewers /\ c.viewer = Cur.viewer
      /\ c.sid = Cur.sid
  BY DEF Loaded
<1>2. Len(c.buf) \in 0 .. Len(c.buf)
  <2>1. c.buf \in Seq(UnitNumbers)
    BY <1>1 DEF TapClients
  <2> QED BY <2>1
<1>3. PICK T \in Seq(Sends) : T = Sent(c, Len(c.buf), FALSE)
  BY <1>1, <1>2, SentIs
<1>4. Update(Flushed(c), c.viewer, T) /\ fd' = fd
  BY <1>3 DEF FlushAll
<1>5. PICK d \in TapClients : /\ d = Flushed(c) /\ d.viewer = Cur.viewer /\ d.sid = Cur.sid
                              /\ d.buf = <<>> /\ d.begun = FALSE /\ d.params = c.params
  <2>1. /\ Flushed(c) \in TapClients /\ Flushed(c).viewer = c.viewer /\ Flushed(c).sid = c.sid
        /\ Flushed(c).buf = <<>> /\ Flushed(c).begun = FALSE /\ Flushed(c).params = c.params
    BY <1>1, FlushedIs
  <2> QED BY <2>1, <1>1
<1>6. /\ slot' = [slot EXCEPT ![ingest.i] = d] /\ got' \in [Viewers -> Seq(Sends)]
      /\ got'[c.viewer] = T /\ \A v \in Viewers : v # Cur.viewer => got'[v] = got[v]
  BY <1>1, <1>4, <1>5, UpdateIs
<1>7. SlotStep(d)
  BY <1>4, <1>5, <1>6 DEF SlotStep, Keeps, FlushAll, NextSlot
<1>8. Kept(d) /\ Begun(d)'
  BY <1>1, <1>5 DEF Kept, Begun
<1> QED BY <1>3, <1>5, <1>6, <1>7, <1>8, SlotChanges

LEMMA FlushSomeStep ==
  ASSUME TapInv, ingest.i # 0, NEW c, Loaded(c), PublishQuiet, FlushSome(c)
  PROVE  /\ TapInv'
         /\ \E k \in 0 .. Len(c.buf) - 1, torn \in BOOLEAN :
              /\ k = 0 /\ c.begun => torn
              /\ SlotStep(Rest(c, k, torn))
              /\ got'[c.viewer] = Sent(c, k, torn)
<1>1. /\ c \in TapClients /\ Kept(c) /\ Begun(c) /\ c.viewer \in Viewers /\ c.viewer = Cur.viewer
      /\ c.sid = Cur.sid
  BY DEF Loaded
<1>2. PICK k \in 0 .. Len(c.buf) - 1, torn \in BOOLEAN :
        /\ k = 0 /\ c.begun => torn
        /\ Update(Rest(c, k, torn), c.viewer, Sent(c, k, torn))
  BY DEF FlushSome, Rest
<1>3. Len(c.buf) \in Nat /\ k \in 0 .. Len(c.buf) /\ k < Len(c.buf)
  <2>1. c.buf \in Seq(UnitNumbers)
    BY <1>1 DEF TapClients
  <2> QED BY <2>1
<1>4. PICK T \in Seq(Sends) :
        T = Sent(c, k, torn) /\ Len(T) = Settled(c, got[c.viewer]) + k + (IF torn THEN 1 ELSE 0)
  BY <1>1, <1>3, SentIs
<1>5. PICK d \in TapClients : /\ d = Rest(c, k, torn) /\ Kept(d)
                              /\ d.viewer = Cur.viewer /\ d.sid = Cur.sid
                              /\ d.begun = torn /\ Len(d.buf) >= 1
  BY <1>1, RestIs
<1>6. /\ slot' = [slot EXCEPT ![ingest.i] = d] /\ got' \in [Viewers -> Seq(Sends)]
      /\ got'[c.viewer] = T /\ \A v \in Viewers : v # Cur.viewer => got'[v] = got[v]
  BY <1>1, <1>2, <1>4, <1>5, UpdateIs
<1>7. SlotStep(d)
  BY <1>1, <1>5, <1>6 DEF SlotStep, Keeps, FlushSome
<1>8. Begun(d)'
  <2> SUFFICES ASSUME torn PROVE d.buf # <<>> /\ d.viewer # None /\ got'[d.viewer] # <<>>
    BY <1>5 DEF Begun
  <2>1. d.buf # <<>>
    <3>1. Len(d.buf) >= 1
      BY <1>5
    <3> QED BY <3>1
  <2>2. T # <<>>
    <3>1. Settled(c, got[c.viewer]) \in 0 .. Len(got[c.viewer]) /\ Len(got[c.viewer]) \in Nat
      BY <1>1, SettledIs
    <3>2. Len(T) = Settled(c, got[c.viewer]) + k + 1
      BY <1>4
    <3>3. Len(T) >= 1
      BY <3>1, <3>2, <1>3
    <3> QED BY <3>3
  <2>3. d.viewer = c.viewer /\ d.viewer # None
    BY <1>1, <1>5, AgentAssumption
  <2> QED BY <2>1, <2>2, <2>3, <1>6
<1>9. TapInv'
  BY <1>5, <1>7, <1>8, SlotChanges
<1> QED BY <1>2, <1>4, <1>5, <1>6, <1>7, <1>9

LEMMA FlushFailsStep ==
  ASSUME TapInv, ingest.i # 0, NEW c, Loaded(c), PublishQuiet,
         FlushFails(c, "old", ingest.i + 1) \/ FlushFails(c, "new", ingest.i)
  PROVE  SlotStep(FreeSlot) /\ TapInv' /\ got' = got
<1>1. /\ slot' = [slot EXCEPT ![ingest.i] = FreeSlot] /\ got' = got
      /\ fd' = [fd EXCEPT ![Cur.viewer] = "closed"] /\ Cur.viewer \in Viewers
  BY DEF FlushFails, Update, Loaded
<1>2. got \in [Viewers -> Seq(Sends)]
  BY DEF TapInv, TypeOK, Sends
<1>3. SlotStep(FreeSlot)
  BY <1>1, <1>2, FreeSlotIs DEF SlotStep, Closes, FlushFails, NextSlot
<1> QED BY <1>1, <1>3, FreeSlotIs, SlotChanges DEF Begun

LEMMA LoadedParams ==
  ASSUME TapInv, ingest.at = "old", ingest.i # 0, Cur.sid = Unit.sid, Cur.buf # <<>>
  PROVE  Loaded(WithParams)
<1>1. Cur \in TapClients /\ Cur.sid # 0 /\ Cur.viewer \in Viewers
  BY InPublication, AgentAssumption
<1>2. PICK p \in UnitSets : WithParams = [Cur EXCEPT !.params = p]
  BY WithParamsIs
<1>3. WithParams.buf = Cur.buf /\ WithParams.viewer = Cur.viewer /\ WithParams.sid = Cur.sid
  BY <1>1, <1>2 DEF TapClients
<1> QED BY <1>1, <1>3, WithParamsIs DEF Loaded

LEMMA LoadedAssembled ==
  ASSUME TapInv, ingest.i # 0, Cur.viewer # None
  PROVE  Loaded(Assembled)
<1>1. Cur.viewer \in Viewers
  BY InPublication
<1>2. Assembled.buf # <<>>
  <2>1. Len(Assembled.buf) >= 1
    BY AssembledIs
  <2> QED BY <2>1
<1> QED BY <1>1, <1>2, AssembledIs DEF Loaded

(* A buffer that waited for too long is dropped. *)
Dropped == [WithParams EXCEPT !.buf = <<>>, !.begun = FALSE, !.gaveUp = TRUE, !.needIdr = @ \/ DropToIdr]

LEMMA DroppedIs ==
  ASSUME TapInv, ingest.i # 0
  PROVE  /\ Dropped \in TapClients /\ Kept(Dropped)
         /\ Dropped.viewer = Cur.viewer /\ Dropped.sid = Cur.sid /\ Dropped.own = Cur.own
         /\ Dropped.buf = <<>> /\ Dropped.begun = FALSE /\ Dropped.gaveUp = TRUE
         /\ Dropped.needIdr = (Cur.needIdr \/ DropToIdr) /\ Dropped.pendingIdr = Cur.pendingIdr
         /\ Dropped.params = WithParams.params
<1>1. PICK c \in TapClients : /\ c = WithParams /\ Kept(c)
                              /\ \E p \in UnitSets : c = [Cur EXCEPT !.params = p]
  BY WithParamsIs
<1>2. Cur \in TapClients
  BY InPublication
<1>3. c.viewer = Cur.viewer /\ c.sid = Cur.sid /\ c.own = Cur.own /\ c.needIdr = Cur.needIdr
      /\ c.pendingIdr = Cur.pendingIdr
  BY <1>1, <1>2 DEF TapClients
<1>4. (c.needIdr \/ DropToIdr) \in BOOLEAN /\ <<>> \in Seq(UnitNumbers)
  OBVIOUS
<1>5. Dropped = [c EXCEPT !.buf = <<>>, !.begun = FALSE, !.gaveUp = TRUE, !.needIdr = c.needIdr \/ DropToIdr]
  BY <1>1 DEF Dropped
<1>6. Dropped \in TapClients
  BY <1>4, <1>5 DEF TapClients
<1>7. /\ Dropped.viewer = c.viewer /\ Dropped.sid = c.sid /\ Dropped.own = c.own
      /\ Dropped.buf = <<>> /\ Dropped.begun = FALSE /\ Dropped.gaveUp = TRUE
      /\ Dropped.needIdr = (c.needIdr \/ DropToIdr) /\ Dropped.pendingIdr = c.pendingIdr
      /\ Dropped.params = c.params
  BY <1>5 DEF TapClients
<1>8. Kept(Dropped)
  <2>1. c.params \in UnitSets
    BY <1>1 DEF Kept
  <2>2. Dropped.buf = <<>> /\ Dropped.params \in UnitSets
    BY <1>7, <2>1
  <2> QED BY <2>2 DEF Kept
<1> QED BY <1>1, <1>3, <1>6, <1>7, <1>8

(* A step that sends nothing. *)
LEMMA QuietUpdate ==
  ASSUME TapInv, ingest.i # 0, NEW c \in TapClients, Kept(c), Begun(c), PublishQuiet,
         c.viewer = Cur.viewer, c.sid = Cur.sid,
         slot' = [slot EXCEPT ![ingest.i] = c], got' = got, fd' = fd,
         NextSlot \/ (Goto("new", ingest.i) /\ c.buf = <<>>)
  PROVE  SlotStep(c) /\ TapInv'
<1>1. got \in [Viewers -> Seq(Sends)]
  BY DEF TapInv, TypeOK, Sends
<1>2. SlotStep(c)
  BY <1>1 DEF SlotStep, Keeps, Begun
<1>3. Begun(c)'
  BY DEF Begun
<1> QED BY <1>2, <1>3, SlotChanges

LEMMA SkipStep ==
  ASSUME TapInv, ingest.i # 0, NextSlot, PublishQuiet, UNCHANGED <<fd, slot, got>>
  PROVE  SlotStep(Cur) /\ TapInv'
<1>1. PICK c \in TapClients : c = Cur /\ Kept(c) /\ Begun(c)
  BY InPublication
<1>2. slot' = [slot EXCEPT ![ingest.i] = c]
  BY <1>1, InPublication DEF Cur, TapInv, TypeOK
<1> QED BY <1>1, <1>2, QuietUpdate

LEMMA PublishActive ==
  ASSUME TapInv, ingest.at \in {"old", "new"} PROVE ingest.i # 0
  BY DEF TapInv, TypeOK

LEMMA NothingPendingStep ==
  ASSUME TapInv, NothingPending PROVE SlotStep(WithParams) /\ TapInv' /\ got' = got
<1>1. ingest.i # 0 /\ Cur \in TapClients
  BY PublishActive, InPublication DEF NothingPending
<1>2. PICK c \in TapClients : /\ c = WithParams /\ Kept(c) /\ Begun(c)
                              /\ \E p \in UnitSets : c = [Cur EXCEPT !.params = p]
  BY <1>1, WithParamsIs
<1>3. c.viewer = Cur.viewer /\ c.sid = Cur.sid /\ c.buf = Cur.buf
  BY <1>1, <1>2 DEF TapClients
<1> QED BY <1>1, <1>2, <1>3, QuietUpdate DEF NothingPending, Update

LEMMA DropPendingStep ==
  ASSUME TapInv, DropPending PROVE SlotStep(Dropped) /\ TapInv' /\ got' = got
<1>1. ingest.i # 0
  BY PublishActive DEF DropPending
<1>2. PICK c \in TapClients : c = Dropped /\ Kept(c) /\ c.viewer = Cur.viewer /\ c.sid = Cur.sid
                              /\ c.buf = <<>> /\ c.begun = FALSE
  BY <1>1, DroppedIs
<1>3. slot' = [slot EXCEPT ![ingest.i] = c] /\ got' = got /\ fd' = fd /\ PublishQuiet
      /\ Goto("new", ingest.i)
  BY <1>2 DEF DropPending, Update, Dropped
<1>4. Begun(c)
  BY <1>2 DEF Begun
<1> QED BY <1>1, <1>2, <1>3, <1>4, QuietUpdate

LEMMA FlushPendingStep ==
  ASSUME TapInv, FlushPending PROVE TapInv'
<1>1. ingest.i # 0 /\ Loaded(WithParams) /\ PublishQuiet
  BY PublishActive, LoadedParams DEF FlushPending
<1>2. PICK c : c = WithParams
  OBVIOUS
<1> QED BY <1>1, <1>2, FlushAllStep, FlushSomeStep, FlushFailsStep DEF FlushPending

(* A unit that goes into a slot that was closed just before. *)
LEMMA FillVacantStep ==
  ASSUME TapInv, ingest.i # 0, Cur.viewer = None, PublishQuiet,
         Update(Assembled, None, <<>>), NextSlot, fd' = fd
  PROVE  SlotStep(Assembled) /\ TapInv' /\ got' = got
<1>1. PICK c \in TapClients : /\ c = Assembled /\ Kept(c) /\ Begun(c)
                              /\ c.viewer = Cur.viewer /\ c.sid = Cur.sid
  BY AssembledIs
<1> QED BY <1>1, QuietUpdate DEF Update

LEMMA SendUnitStep ==
  ASSUME TapInv, SendUnit PROVE TapInv'
<1>1. ingest.i # 0 /\ PublishQuiet
  BY PublishActive DEF SendUnit
<1>2. PICK c : c = Assembled
  OBVIOUS
<1>3. CASE Cur.viewer = None
  BY <1>1, <1>3, FillVacantStep DEF SendUnit
<1>4. CASE Cur.viewer # None
  BY <1>1, <1>2, <1>4, LoadedAssembled, FlushAllStep, FlushSomeStep, FlushFailsStep DEF SendUnit
<1> QED BY <1>3, <1>4

LEMMA PublishTapInv ==
  ASSUME TapInv, Publish PROVE TapInv'
<1>1. CASE SkipSlot
  BY <1>1, PublishActive, SkipStep DEF SkipSlot
<1>2. CASE SkipUnit
  BY <1>2, PublishActive, SkipStep DEF SkipUnit
<1> QED BY <1>1, <1>2, NothingPendingStep, DropPendingStep, FlushPendingStep, SendUnitStep DEF Publish

-----------------------------------------------------------------------------
(* The other steps.                                                        *)

LEMMA SameNumbers ==
  ASSUME TapInv, UNCHANGED <<slot, params, units, got>>
  PROVE  Numbered'
<1>1. UnitSets' = UnitSets
  BY DEF UnitSets
<1> QED BY <1>1 DEF TapInv, Numbered, Kept, Begun

LEMMA InitTapInv == Init => TapInv
<1> SUFFICES ASSUME Init PROVE TapInv
  OBVIOUS
<1> USE AgentAssumption DEF Init
<1>1. FreeSlot \in TapClients /\ FreeSlot.viewer = None /\ FreeSlot.sid = 0 /\ FreeSlot.buf = <<>>
      /\ ~FreeSlot.begun /\ FreeSlot.params = NoParams
  BY FreeSlotIs DEF FreeSlot
<1>2. NoParams \in ParamSets /\ NoParams \in UnitSets
  BY DEF NoParams, ParamSets, UnitNumbers, UnitSets
<1>3. TypeOK
  <2>1. \A v \in Viewers : <<>> \in Seq(Lines)
    OBVIOUS
  <2>2. viewer \in [Viewers -> [state : {"away", "open", "gone"}, lines : Seq(Lines)]]
    BY <2>1
  <2>3. got \in [Viewers -> Seq(Sends)]
    OBVIOUS
  <2>4. slot \in [Slots -> TapClients]
    BY <1>1
  <2>5. params \in [Sids -> ParamSets]
    BY <1>2
  <2>6. /\ ingest \in [at : {"boot", "recv", "old", "new"}, i : Slots \cup {0}]
        /\ ingest.at \in {"boot", "recv"} <=> ingest.i = 0
    OBVIOUS
  <2>7. \A i \in Slots : slot[i].sid = 0 <=> slot[i].viewer = None
    BY <1>1
  <2>8. units \in Seq([sid : Sids, first : {"sps", "pps", "slice"}, idr : BOOLEAN])
    OBVIOUS
  <2> QED BY <2>2, <2>3, <2>4, <2>5, <2>6, <2>7, <2>8 DEF TypeOK, AtAccept, Sends
<1>4. Descriptors
  BY <1>1 DEF Descriptors, InHand, Holds, AtAccept
<1>5. Stages
  BY DEF Stages, AtAccept
<1>6. Numbered
  BY <1>1, <1>2 DEF Numbered, Kept, Begun
<1> QED BY <1>3, <1>4, <1>5, <1>6 DEF TapInv

(* A step outside of a publication that leaves what is kept and sent.      *)
LEMMA OutsideStep ==
  ASSUME TapInv, UNCHANGED <<slot, params, ingest, units, got>>,
         acceptor'.at = "place" => acceptor'.sid \in Sids
  PROVE  Numbered' /\ Stages'
  BY SameNumbers DEF Cur, TapInv, Stages

LEMMA AcceptorType ==
  ASSUME TapInv
  PROVE  /\ acceptor \in [at : {"accept", "handshake", "place", "ask", "refuse"},
                          viewer : Viewers \cup {None}, authed : BOOLEAN, sid : Sids \cup {0}]
         /\ acceptor.at # "accept" => acceptor.viewer \in Viewers
  BY DEF TapInv, TypeOK

LEMMA AcceptStep == ASSUME TapInv, Accept PROVE TapInv'
<1>1. PICK v \in Viewers :
        /\ fd[v] = "none"
        /\ acceptor' = [at |-> "handshake", viewer |-> v, sid |-> 0,
                        authed |-> ~(Token /\ ingest.at # "boot")]
        /\ fd' = [fd EXCEPT ![v] = "open"]
  BY DEF Accept
<1>2. UNCHANGED <<viewer, slot, params, ingest, units, got>> /\ acceptor.at = "accept"
  BY DEF Accept, AcceptQuiet, ingestVars
<1>3. acceptor'.at = "handshake" /\ acceptor'.viewer = v /\ acceptor'.sid = 0
  BY <1>1
<1>4. acceptor' \in [at : {"accept", "handshake", "place", "ask", "refuse"},
                     viewer : Viewers \cup {None}, authed : BOOLEAN, sid : Sids \cup {0}]
  <2>1. (~(Token /\ ingest.at # "boot")) \in BOOLEAN
    OBVIOUS
  <2> QED BY <1>1, <2>1
<1>5. fd \in [Viewers -> {"none", "open", "closed"}]
  BY DEF TapInv, TypeOK
<1>6. TypeOK'
  BY <1>1, <1>2, <1>3, <1>4, <1>5, AgentAssumption DEF TapInv, TypeOK
<1>7. Descriptors'
  <2> SUFFICES ASSUME NEW w \in Viewers
               PROVE  /\ \A i, j \in Slots : slot'[i].viewer = w /\ slot'[j].viewer = w => i = j
                      /\ ~(InHand(w)' /\ Holds(w)')
                      /\ fd'[w] = "open" <=> InHand(w)' \/ Holds(w)'
    BY DEF Descriptors
  <2>1. /\ \A i, j \in Slots : slot[i].viewer = w /\ slot[j].viewer = w => i = j
        /\ fd[w] = "open" <=> InHand(w) \/ Holds(w)
    BY DEF TapInv, Descriptors
  <2>2. (Holds(w)' <=> Holds(w)) /\ (InHand(w)' <=> w = v) /\ ~InHand(w)
    BY <1>2, <1>3 DEF Holds, InHand
  <2>3. CASE w = v
    BY <2>1, <2>2, <2>3, <1>1, <1>2, <1>5
  <2>4. CASE w # v
    BY <2>1, <2>2, <2>4, <1>1, <1>2, <1>5
  <2> QED BY <2>3, <2>4
<1>8. Numbered' /\ Stages'
  BY <1>2, <1>3, OutsideStep
<1> QED BY <1>6, <1>7, <1>8 DEF TapInv

(* A step of the accept thread that keeps its viewer in hand. *)
LEMMA HandshakeStep ==
  ASSUME TapInv, UNCHANGED <<fd, slot, params, ingest, units, got>>,
         viewer' \in [Viewers -> [state : {"away", "open", "gone"}, lines : Seq(Lines)]],
         NEW at \in {"handshake", "place", "refuse"}, NEW authed \in BOOLEAN, NEW sid \in Sids \cup {0},
         acceptor.at = "handshake",
         acceptor' = [acceptor EXCEPT !.at = at, !.authed = authed, !.sid = sid],
         at = "place" => sid \in Sids
  PROVE  TapInv'
<1>1. /\ acceptor'.at = at /\ acceptor'.viewer = acceptor.viewer /\ acceptor'.sid = sid
      /\ acceptor' \in [at : {"accept", "handshake", "place", "ask", "refuse"},
                        viewer : Viewers \cup {None}, authed : BOOLEAN, sid : Sids \cup {0}]
      /\ acceptor.viewer \in Viewers
  BY AcceptorType
<1>2. TypeOK'
  BY <1>1, AgentAssumption DEF TapInv, TypeOK
<1>3. Descriptors'
  BY <1>1 DEF TapInv, Descriptors, InHand, Holds
<1> QED BY <1>1, <1>2, <1>3, OutsideStep DEF TapInv

LEMMA ViewerType ==
  ASSUME TapInv PROVE viewer \in [Viewers -> [state : {"away", "open", "gone"}, lines : Seq(Lines)]]
  BY DEF TapInv, TypeOK

LEMMA RefuseStep ==
  ASSUME TapInv, acceptor.at = "handshake", acceptor' = Refuse,
         UNCHANGED <<fd, slot, params, ingest, units, got>>,
         viewer' \in [Viewers -> [state : {"away", "open", "gone"}, lines : Seq(Lines)]]
  PROVE  TapInv'
<1>1. PICK authed \in BOOLEAN, sid \in Sids \cup {0} : authed = acceptor.authed /\ sid = acceptor.sid
  BY AcceptorType
<1>2. acceptor' = [acceptor EXCEPT !.at = "refuse", !.authed = authed, !.sid = sid]
  BY <1>1, AcceptorType DEF Refuse
<1> QED BY <1>2, HandshakeStep

LEMMA ReadLineStep == ASSUME TapInv, ReadLine PROVE TapInv'
<1>1. PICK v \in Viewers : v = acceptor.viewer
  BY AcceptorType DEF ReadLine
<1>2. viewer[v].lines \in Seq(Lines) /\ viewer[v].lines # <<>>
  BY <1>1, ViewerType DEF ReadLine
<1>3. PICK line \in Lines : line = Head(viewer[v].lines)
  BY <1>2
<1>4. Tail(viewer[v].lines) \in Seq(Lines)
  BY <1>2
<1>5. PICK rest \in Seq(Lines) : rest = Tail(viewer[v].lines)
  BY <1>4
<1>6. viewer' = [viewer EXCEPT ![v].lines = rest]
  BY <1>1, <1>5 DEF ReadLine
<1>7. viewer' \in [Viewers -> [state : {"away", "open", "gone"}, lines : Seq(Lines)]]
  BY <1>6, ViewerType
<1>8. UNCHANGED <<fd, slot, params, ingest, units, got>> /\ acceptor.at = "handshake"
  BY DEF ReadLine, AcceptQuiet, ingestVars
<1>9. CASE acceptor' = Refuse
  BY <1>7, <1>8, <1>9, RefuseStep
<1>10. CASE acceptor' = [acceptor EXCEPT !.authed = TRUE]
  <2>1. PICK sid \in Sids \cup {0} : sid = acceptor.sid
    BY AcceptorType
  <2>2. acceptor' = [acceptor EXCEPT !.at = "handshake", !.authed = TRUE, !.sid = sid]
    BY <2>1, <1>8, <1>10, AcceptorType
  <2> QED BY <2>2, <1>7, <1>8, HandshakeStep
<1>11. CASE line.cmd = "SUB" /\ acceptor' = [acceptor EXCEPT !.at = "place", !.sid = line.sid]
  <2>1. PICK authed \in BOOLEAN : authed = acceptor.authed
    BY AcceptorType
  <2>2. PICK sid \in Sids : sid = line.sid
    BY <1>11 DEF Lines
  <2>3. acceptor' = [acceptor EXCEPT !.at = "place", !.authed = authed, !.sid = sid]
    BY <2>1, <2>2, <1>11, AcceptorType
  <2> QED BY <2>3, <1>7, <1>8, HandshakeStep
<1> QED BY <1>1, <1>3, <1>9, <1>10, <1>11 DEF ReadLine

LEMMA AskForIdrStep == ASSUME TapInv, AskForIdr PROVE TapInv'
<1>1. UNCHANGED <<viewer, fd, slot, params, ingest, units, got>> /\ acceptor' = AtAccept /\ acceptor.at = "ask"
  BY DEF AskForIdr, AcceptQuiet, ingestVars
<1>2. TypeOK'
  BY <1>1 DEF TapInv, TypeOK, AtAccept
<1>3. Descriptors'
  <2>1. \A v \in Viewers : (InHand(v)' <=> InHand(v)) /\ (Holds(v)' <=> Holds(v))
    BY <1>1 DEF InHand, Holds, AtAccept
  <2> QED BY <1>1, <2>1 DEF TapInv, Descriptors
<1>4. acceptor'.at = "accept"
  BY <1>1 DEF AtAccept
<1> QED BY <1>1, <1>2, <1>3, <1>4, OutsideStep DEF TapInv

LEMMA CloseRefusedStep == ASSUME TapInv, CloseRefused PROVE TapInv'
<1>1. PICK v \in Viewers : v = acceptor.viewer /\ fd' = [fd EXCEPT ![v] = "closed"]
  BY AcceptorType DEF CloseRefused
<1>2. UNCHANGED <<viewer, slot, params, ingest, units, got>> /\ acceptor' = AtAccept /\ acceptor.at = "refuse"
  BY DEF CloseRefused, AcceptQuiet, ingestVars
<1>3. fd \in [Viewers -> {"none", "open", "closed"}]
  BY DEF TapInv, TypeOK
<1>4. TypeOK'
  BY <1>1, <1>2, <1>3 DEF TapInv, TypeOK, AtAccept
<1>5. Descriptors'
  <2> SUFFICES ASSUME NEW w \in Viewers
               PROVE  /\ \A i, j \in Slots : slot'[i].viewer = w /\ slot'[j].viewer = w => i = j
                      /\ ~(InHand(w)' /\ Holds(w)')
                      /\ fd'[w] = "open" <=> InHand(w)' \/ Holds(w)'
    BY DEF Descriptors
  <2>1. /\ \A i, j \in Slots : slot[i].viewer = w /\ slot[j].viewer = w => i = j
        /\ ~(InHand(w) /\ Holds(w))
        /\ fd[w] = "open" <=> InHand(w) \/ Holds(w)
    BY DEF TapInv, Descriptors
  <2>2. (Holds(w)' <=> Holds(w)) /\ ~InHand(w)' /\ (InHand(w) <=> w = v)
    BY <1>1, <1>2 DEF Holds, InHand, AtAccept
  <2>3. CASE w = v
    BY <2>1, <2>2, <2>3, <1>1, <1>2, <1>3
  <2>4. CASE w # v
    BY <2>1, <2>2, <2>4, <1>1, <1>2, <1>3
  <2> QED BY <2>3, <2>4
<1>6. acceptor'.at = "accept"
  BY <1>2 DEF AtAccept
<1> QED BY <1>2, <1>4, <1>5, <1>6, OutsideStep DEF TapInv

(* Pruning and the choice of a slot. *)
LEMMA PrunedIs ==
  ASSUME TapInv, NEW i \in Slots
  PROVE  /\ Pruned[i] \in TapClients /\ Kept(Pruned[i]) /\ Begun(Pruned[i])
         /\ Pruned[i].sid = 0 <=> Pruned[i].viewer = None
         /\ Dead(i) => Pruned[i] = FreeSlot /\ slot[i].viewer \in Viewers
         /\ ~Dead(i) => Pruned[i] = slot[i]
<1>1. slot[i] \in TapClients /\ Kept(slot[i]) /\ Begun(slot[i]) /\ (slot[i].sid = 0 <=> slot[i].viewer = None)
  BY DEF TapInv, TypeOK, Numbered
<1>2. CASE Dead(i)
  <2>1. Pruned[i] = FreeSlot
    BY <1>2 DEF Pruned
  <2>2. slot[i].viewer \in Viewers
    BY <1>1, <1>2 DEF Dead, TapClients
  <2> QED BY <2>1, <2>2, <1>2, FreeSlotIs DEF Begun
<1>3. CASE ~Dead(i)
  BY <1>1, <1>3 DEF Pruned
<1> QED BY <1>2, <1>3

LEMMA OccupiedIs ==
  ASSUME TapInv, acceptor.at = "place", NEW c \in TapClients, Kept(c), c.viewer = None, Begun(c)
  PROVE  LET o == Occupied(c)
             known == params[acceptor.sid]
         IN  /\ o \in TapClients /\ Kept(o) /\ ~o.begun
             /\ o.viewer = acceptor.viewer /\ o.sid = acceptor.sid /\ o.needIdr = TRUE
             /\ o.buf = c.buf /\ o.begun = c.begun /\ o.own = c.own /\ o.pendingIdr = c.pendingIdr
             /\ o.gaveUp = c.gaveUp
             /\ o.params = [sps |-> IF known.sps # 0 THEN known.sps ELSE c.params.sps,
                            pps |-> IF known.pps # 0 THEN known.pps ELSE c.params.pps]
<1> DEFINE known == params[acceptor.sid]
           p == [sps |-> IF known.sps # 0 THEN known.sps ELSE c.params.sps,
                 pps |-> IF known.pps # 0 THEN known.pps ELSE c.params.pps]
<1>1. acceptor.viewer \in Viewers /\ acceptor.sid \in Sids /\ known \in UnitSets
  BY AcceptorType DEF TapInv, Stages, Numbered
<1>2. p \in UnitSets
  <2>1. c.params \in UnitSets
    BY DEF Kept
  <2> QED BY <2>1, <1>1 DEF UnitSets
<1>3. p \in ParamSets
  BY <1>2, UnitSetsBounded
<1>4. Occupied(c) = [c EXCEPT !.viewer = acceptor.viewer, !.sid = acceptor.sid, !.needIdr = TRUE, !.params = p]
  BY DEF Occupied
<1> HIDE DEF p, known
<1>5. Occupied(c) \in TapClients
  BY <1>1, <1>3, <1>4 DEF TapClients
<1>6. /\ Occupied(c).viewer = acceptor.viewer /\ Occupied(c).sid = acceptor.sid /\ Occupied(c).needIdr = TRUE
      /\ Occupied(c).buf = c.buf /\ Occupied(c).begun = c.begun /\ Occupied(c).own = c.own
      /\ Occupied(c).pendingIdr = c.pendingIdr
      /\ Occupied(c).gaveUp = c.gaveUp /\ Occupied(c).params = p
  BY <1>4 DEF TapClients
<1>7. Kept(Occupied(c)) /\ ~Occupied(c).begun
  BY <1>2, <1>6 DEF Kept, Begun
<1> QED BY <1>5, <1>6, <1>7 DEF p, known

(* What Place does, slot by slot: f is the slot the viewer gets, if any.   *)
Placed(f) ==
  /\ f \in Slots \cup {0}
  /\ slot' \in [Slots -> TapClients]
  /\ \A i \in Slots : i # f => slot'[i] = Pruned[i]
  /\ f # 0 => Pruned[f].viewer = None /\ slot'[f] = Occupied(Pruned[f])
  /\ acceptor' = [acceptor EXCEPT !.at = IF f = 0 THEN "refuse" ELSE "ask"]

LEMMA PlaceIs == ASSUME TapInv, Place PROVE \E f : Placed(f)
<1> DEFINE free == {i \in Slots : Pruned[i].viewer = None}
<1>1. acceptor.at = "place" /\ slot' = [i \in Slots |->
        IF i \in free /\ \A j \in free : i <= j THEN Occupied(Pruned[i]) ELSE Pruned[i]]
      /\ acceptor' = IF free = {} THEN Refuse ELSE [acceptor EXCEPT !.at = "ask"]
  BY DEF Place
<1>2. \A i \in Slots : Pruned[i] \in TapClients
  BY PrunedIs
<1>3. \A i \in free : Occupied(Pruned[i]) \in TapClients
  BY <1>1, PrunedIs, OccupiedIs
<1>4. slot' \in [Slots -> TapClients]
  BY <1>1, <1>2, <1>3
<1>5. Slots \subseteq Nat /\ 0 \notin Slots
  BY AgentAssumption DEF Slots
<1>6. CASE free = {}
  <2>1. \A i \in Slots : slot'[i] = Pruned[i]
    BY <1>1, <1>6
  <2>2. Placed(0)
    BY <2>1, <1>1, <1>4, <1>6 DEF Placed, Refuse
  <2> QED BY <2>2
<1>7. CASE free # {}
  <2>1. PICK f \in free : \A j \in free : f <= j
    <3>1. free \in SUBSET Nat
      BY <1>5
    <3> QED BY <3>1, <1>7, FirstOf
  <2>2. \A i \in free : (\A j \in free : i <= j) => i = f
    BY <2>1, <1>5
  <2>3. f \in Slots /\ f # 0 /\ Pruned[f].viewer = None
    BY <2>1, <1>5
  <2>4. slot'[f] = Occupied(Pruned[f])
    BY <2>1, <2>3, <1>1
  <2>5. \A i \in Slots : i # f => slot'[i] = Pruned[i]
    BY <2>2, <1>1
  <2>6. acceptor' = [acceptor EXCEPT !.at = "ask"]
    BY <1>1, <1>7
  <2> HIDE DEF free
  <2>7. Placed(f)
    BY <2>3, <2>4, <2>5, <2>6, <1>4 DEF Placed
  <2> QED BY <2>7
<1> QED BY <1>6, <1>7

LEMMA PlaceStep == ASSUME TapInv, Place PROVE TapInv'
<1>1. /\ UNCHANGED <<viewer, params, ingest, units, got>> /\ acceptor.at = "place"
      /\ fd' = [v \in Viewers |->
                 IF \E i \in Slots : Dead(i) /\ slot[i].viewer = v THEN "closed" ELSE fd[v]]
  BY DEF Place, AcceptQuiet, ingestVars
<1>2. PICK f : Placed(f)
  BY PlaceIs
<1>3. PICK a \in Viewers : a = acceptor.viewer
  BY <1>1, AcceptorType
<1>4. /\ acceptor'.viewer = a /\ acceptor'.at = (IF f = 0 THEN "refuse" ELSE "ask")
      /\ acceptor' \in [at : {"accept", "handshake", "place", "ask", "refuse"},
                        viewer : Viewers \cup {None}, authed : BOOLEAN, sid : Sids \cup {0}]
  BY <1>2, <1>3, AcceptorType DEF Placed
<1>5. f # 0 => /\ slot'[f].viewer = a /\ slot'[f].sid \in Sids /\ f \in Slots
               /\ Kept(slot'[f]) /\ ~slot'[f].begun
  <2> SUFFICES ASSUME f # 0
               PROVE  /\ slot'[f].viewer = a /\ slot'[f].sid \in Sids /\ f \in Slots
                      /\ Kept(slot'[f]) /\ ~slot'[f].begun
    OBVIOUS
  <2>1. f \in Slots /\ Pruned[f].viewer = None /\ slot'[f] = Occupied(Pruned[f])
    BY <1>2 DEF Placed
  <2>2. PICK c \in TapClients : c = Pruned[f] /\ Kept(c) /\ Begun(c)
    BY <2>1, PrunedIs
  <2>3. /\ Occupied(c).viewer = acceptor.viewer /\ Occupied(c).sid = acceptor.sid
        /\ Kept(Occupied(c)) /\ ~Occupied(c).begun
    BY <2>1, <2>2, <1>1, OccupiedIs
  <2>4. acceptor.sid \in Sids
    BY <1>1 DEF TapInv, Stages
  <2> QED BY <2>1, <2>2, <2>3, <2>4, <1>3
<1>6. \A i \in Slots : i # f => slot'[i] = Pruned[i]
  BY <1>2 DEF Placed
<1>7. TypeOK'
  <2>1. \A i \in Slots : slot'[i].sid = 0 <=> slot'[i].viewer = None
    <3> SUFFICES ASSUME NEW i \in Slots PROVE slot'[i].sid = 0 <=> slot'[i].viewer = None
      OBVIOUS
    <3>1. CASE i = f
      <4>1. i # 0
        BY DEF Slots
      <4> QED BY <4>1, <3>1, <1>5, AgentAssumption
    <3>2. CASE i # f
      BY <3>2, <1>6, PrunedIs
    <3> QED BY <3>1, <3>2
  <2>2. fd' \in [Viewers -> {"none", "open", "closed"}]
    BY <1>1 DEF TapInv, TypeOK
  <2>3. slot' \in [Slots -> TapClients]
    BY <1>2 DEF Placed
  <2> QED BY <2>1, <2>2, <2>3, <1>1, <1>3, <1>4, AgentAssumption DEF TapInv, TypeOK
<1>8. Descriptors'
  <2> SUFFICES ASSUME NEW v \in Viewers
               PROVE  /\ \A i, j \in Slots : slot'[i].viewer = v /\ slot'[j].viewer = v => i = j
                      /\ ~(InHand(v)' /\ Holds(v)')
                      /\ fd'[v] = "open" <=> InHand(v)' \/ Holds(v)'
    BY DEF Descriptors
  <2>1. /\ \A i, j \in Slots : slot[i].viewer = v /\ slot[j].viewer = v => i = j
        /\ ~(InHand(v) /\ Holds(v))
        /\ fd[v] = "open" <=> InHand(v) \/ Holds(v)
    BY DEF TapInv, Descriptors
  <2>2. \A i \in Slots : i # f => (slot'[i].viewer = v <=> slot[i].viewer = v /\ ~Dead(i))
    <3> SUFFICES ASSUME NEW i \in Slots, i # f
                 PROVE  slot'[i].viewer = v <=> slot[i].viewer = v /\ ~Dead(i)
      OBVIOUS
    <3>1. v # None
      BY AgentAssumption
    <3> QED BY <3>1, <1>6, PrunedIs, FreeSlotIs
  <2>3. CASE v = a
    <3>1. InHand(v)
      BY <2>3, <1>1, <1>3 DEF InHand
    <3>2. fd[v] = "open" /\ ~Holds(v)
      BY <3>1, <2>1
    <3>3. \A i \in Slots : slot[i].viewer # v
      BY <3>2 DEF Holds
    <3>4. fd'[v] = "open"
      BY <3>2, <3>3, <1>1
    <3>5. \A i \in Slots : slot'[i].viewer = v => i = f
      BY <3>3, <2>2
    <3>6. CASE f = 0
      <4>1. InHand(v)'
        BY <3>6, <2>3, <1>4 DEF InHand
      <4>2. ~Holds(v)'
        BY <3>5, <3>6 DEF Holds, Slots
      <4> QED BY <4>1, <4>2, <3>4, <3>5
    <3>7. CASE f # 0
      <4>1. ~InHand(v)'
        BY <3>7, <1>4 DEF InHand
      <4>2. Holds(v)'
        BY <3>7, <2>3, <1>5 DEF Holds
      <4> QED BY <4>1, <4>2, <3>4, <3>5
    <3> QED BY <3>6, <3>7
  <2>4. CASE v # a
    <3>1. ~InHand(v) /\ ~InHand(v)'
      BY <2>4, <1>3, <1>4 DEF InHand
    <3>2. f # 0 => slot'[f].viewer # v
      BY <2>4, <1>5
    <3>3. \A i \in Slots : slot'[i].viewer = v => slot[i].viewer = v /\ ~Dead(i)
      BY <2>2, <3>2, <1>2 DEF Slots
    <3>4. CASE \E i \in Slots : Dead(i) /\ slot[i].viewer = v
      <4>1. fd'[v] = "closed"
        BY <3>4, <1>1
      <4>2. ~Holds(v)'
        BY <3>3, <3>4, <2>1 DEF Holds
      <4> QED BY <4>1, <4>2, <3>1, <3>3, <2>1
    <3>5. CASE ~\E i \in Slots : Dead(i) /\ slot[i].viewer = v
      <4>1. fd'[v] = fd[v]
        BY <3>5, <1>1
      <4>2. ASSUME NEW i \in Slots, slot[i].viewer = v PROVE slot'[i].viewer = v
        <5>1. i # f
          <6>1. CASE i = f
            <7>1. i # 0
              BY DEF Slots
            <7>2. Pruned[i].viewer = None
              BY <6>1, <7>1, <1>2 DEF Placed
            <7> QED BY <7>2, <4>2, <3>5, PrunedIs, AgentAssumption
          <6> QED BY <6>1
        <5> QED BY <5>1, <4>2, <3>5, <2>2
      <4>3. Holds(v)' <=> Holds(v)
        BY <4>2, <3>3 DEF Holds
      <4> QED BY <4>1, <4>3, <3>1, <3>3, <2>1
    <3> QED BY <3>4, <3>5
  <2> QED BY <2>3, <2>4
<1>9. Numbered'
  <2>1. UnitSets' = UnitSets
    BY <1>1 DEF UnitSets
  <2>2. ASSUME NEW i \in Slots PROVE Kept(slot'[i]) /\ Begun(slot'[i])
    <3>1. CASE i = f
      <4>1. i # 0
        BY DEF Slots
      <4> QED BY <4>1, <3>1, <1>5 DEF Begun
    <3>2. CASE i # f
      BY <3>2, <1>6, PrunedIs
    <3> QED BY <3>1, <3>2
  <2>3. ASSUME NEW i \in Slots PROVE Kept(slot[i])' /\ Begun(slot[i])'
    BY <2>1, <2>2, <1>1 DEF Kept, Begun
  <2> QED BY <2>1, <2>3, <1>1 DEF TapInv, Numbered
<1>10. Stages'
  <2>1. ingest'.i = 0 /\ ingest'.at # "new"
    BY <1>1 DEF Place, LockFree, TapInv, TypeOK
  <2>2. acceptor'.at # "place"
    BY <1>4
  <2> QED BY <2>1, <2>2 DEF Stages
<1> QED BY <1>7, <1>8, <1>9, <1>10 DEF TapInv

LEMMA ConfigureStep == ASSUME TapInv, Configure PROVE TapInv'
<1>1. /\ UNCHANGED <<acceptor, viewer, fd, slot, params, units, got>>
      /\ ingest' = [ingest EXCEPT !.at = "recv"] /\ ingest.at = "boot"
  BY DEF Configure, tapVars
<1>2. ingest'.at = "recv" /\ ingest'.i = 0 /\ ingest.i = 0
      /\ ingest' \in [at : {"boot", "recv", "old", "new"}, i : Slots \cup {0}]
  BY <1>1 DEF TapInv, TypeOK
<1>3. TypeOK'
  BY <1>1, <1>2 DEF TapInv, TypeOK
<1>4. Descriptors'
  BY <1>1 DEF TapInv, Descriptors, InHand, Holds
<1>5. Stages'
  BY <1>1, <1>2 DEF TapInv, Stages
<1> QED BY <1>1, <1>3, <1>4, <1>5, SameNumbers DEF TapInv

LEMMA ViewerStep ==
  ASSUME TapInv, NEW v \in Viewers, Connect(v) \/ Leave(v)
  PROVE  TapInv' /\ UNCHANGED <<acceptor, fd, slot, params, ingest, units, got>>
<1>1. UNCHANGED <<acceptor, fd, slot, params, ingest, units, got>>
  BY DEF Connect, Leave, ViewerQuiet, ingestVars
<1>2. viewer' \in [Viewers -> [state : {"away", "open", "gone"}, lines : Seq(Lines)]]
  <2>1. CASE Connect(v)
    BY <2>1, ViewerType, AgentAssumption DEF Connect
  <2>2. CASE Leave(v)
    BY <2>2, ViewerType DEF Leave
  <2> QED BY <2>1, <2>2
<1>3. TypeOK'
  BY <1>1, <1>2 DEF TapInv, TypeOK
<1>4. Descriptors'
  BY <1>1 DEF TapInv, Descriptors, InHand, Holds
<1> QED BY <1>1, <1>3, <1>4, OutsideStep DEF TapInv, Stages

UnitType == [sid : Sids, first : {"sps", "pps", "slice"}, idr : BOOLEAN]

(* A unit comes in. *)
LEMMA ReceiveVideoIs ==
  ASSUME TapInv, ReceiveVideo
  PROVE  /\ UNCHANGED <<acceptor, viewer, fd, slot, got>> /\ ingest.i = 0
         /\ ingest'.at = "old" /\ ingest'.i = 1 /\ 1 \in Slots
         /\ ingest' \in [at : {"boot", "recv", "old", "new"}, i : Slots \cup {0}]
         /\ units' \in Seq(UnitType) /\ Len(units') = Len(units) + 1 /\ Len(units') \in Nat
         /\ Len(units') <= MaxUnits
         /\ \A n \in 1 .. Len(units) : units'[n] = units[n]
         /\ \E s \in Sids, u \in UnitType :
              /\ u.sid = s /\ units'[Len(units')] = u
              /\ params' = [params EXCEPT ![s] = Cached(@, u, Len(units'))]
<1>1. PICK s \in Sids, k \in Kinds :
        /\ units' = Append(units, [sid |-> s, first |-> k.first, idr |-> k.idr])
        /\ params' = [params EXCEPT ![s] = Cached(@, k, Len(units) + 1)]
  BY DEF ReceiveVideo
<1>2. UNCHANGED <<acceptor, viewer, fd, slot, got>> /\ ingest.at = "recv" /\ Len(units) < MaxUnits
      /\ ingest' = [ingest EXCEPT !.at = "old", !.i = 1]
  BY DEF ReceiveVideo, tapVars
<1>3. units \in Seq(UnitType) /\ Len(units) \in Nat
  <2>1. units \in Seq(UnitType)
    BY DEF TapInv, TypeOK, UnitType
  <2> QED BY <2>1
<1>4. 1 \in Slots
  BY AgentAssumption DEF Slots
<1>5. /\ ingest.i = 0 /\ ingest'.at = "old" /\ ingest'.i = 1
      /\ ingest' \in [at : {"boot", "recv", "old", "new"}, i : Slots \cup {0}]
  BY <1>2, <1>4 DEF TapInv, TypeOK
<1>6. k.first \in {"sps", "pps", "slice"} /\ k.idr \in BOOLEAN
  BY AgentAssumption
<1>7. PICK u \in UnitType : /\ u = [sid |-> s, first |-> k.first, idr |-> k.idr]
                            /\ u.sid = s /\ u.first = k.first
  <2> DEFINE u == [sid |-> s, first |-> k.first, idr |-> k.idr]
  <2>1. u \in UnitType
    BY <1>6 DEF UnitType
  <2>2. u.sid = s /\ u.first = k.first
    OBVIOUS
  <2> HIDE DEF u
  <2>3. u = [sid |-> s, first |-> k.first, idr |-> k.idr]
    BY DEF u
  <2> QED BY <2>1, <2>2, <2>3
<1>8. units' = Append(units, u)
  BY <1>1, <1>7
<1>9. /\ units' \in Seq(UnitType) /\ Len(units') = Len(units) + 1 /\ units'[Len(units) + 1] = u
      /\ \A n \in 1 .. Len(units) : units'[n] = units[n]
  BY <1>3, <1>8
<1>10. Cached(params[s], k, Len(units) + 1) = Cached(params[s], u, Len(units'))
  BY <1>7, <1>9 DEF Cached
<1>11. params' = [params EXCEPT ![s] = Cached(@, u, Len(units'))]
  BY <1>1, <1>10
<1>12. Len(units') <= MaxUnits /\ Len(units') \in Nat
  BY <1>2, <1>3, <1>9, AgentAssumption
<1> QED BY <1>2, <1>4, <1>5, <1>7, <1>9, <1>11, <1>12

LEMMA ReceiveVideoStep == ASSUME TapInv, ReceiveVideo PROVE TapInv'
<1>1. /\ UNCHANGED <<acceptor, viewer, fd, slot, got>>
      /\ ingest'.at = "old" /\ ingest'.i = 1 /\ 1 \in Slots
      /\ ingest' \in [at : {"boot", "recv", "old", "new"}, i : Slots \cup {0}]
      /\ units' \in Seq(UnitType) /\ Len(units') = Len(units) + 1 /\ Len(units') \in Nat
      /\ Len(units') <= MaxUnits
  BY ReceiveVideoIs
<1>2. PICK s \in Sids, u \in UnitType : params' = [params EXCEPT ![s] = Cached(@, u, Len(units'))]
  BY ReceiveVideoIs
<1>3. Len(units) \in Nat
  BY DEF TapInv, TypeOK
<1>4. UnitSets \subseteq UnitSets'
  <2>1. 0 .. Len(units) \subseteq 0 .. Len(units')
    BY <1>1, <1>3
  <2> QED BY <2>1 DEF UnitSets
<1>5. u.first \in {"sps", "pps", "slice"}
  BY DEF UnitType
<1>6. params' \in [Sids -> UnitSets']
  <2>1. params \in [Sids -> ParamSets] /\ \A x \in Sids : params[x] \in UnitSets'
    BY <1>4 DEF TapInv, TypeOK, Numbered
  <2>2. Cached(params[s], u, Len(units')) \in UnitSets'
    <3>1. params[s] \in [sps : 0 .. Len(units'), pps : 0 .. Len(units')]
      BY <2>1 DEF UnitSets
    <3>2. Len(units') \in 0 .. Len(units')
      BY <1>1
    <3> QED BY <3>1, <3>2, <1>5 DEF Cached, UnitSets
  <2> HIDE DEF UnitSets
  <2> QED BY <2>1, <2>2, <1>2
<1>7. UnitSets' \subseteq ParamSets
  <2>1. 0 .. Len(units') \subseteq 0 .. MaxUnits
    BY <1>1, AgentAssumption
  <2> QED BY <2>1 DEF UnitSets, ParamSets, UnitNumbers
<1>8. TypeOK'
  <2>1. params' \in [Sids -> ParamSets]
    BY <1>6, <1>7
  <2>2. ingest'.at \in {"boot", "recv"} <=> ingest'.i = 0
    BY <1>1
  <2> QED BY <2>1, <2>2, <1>1 DEF TapInv, TypeOK, UnitType
<1>9. Descriptors'
  BY <1>1 DEF TapInv, Descriptors, InHand, Holds
<1>10. Stages'
  <2>1. units' # <<>>
    BY <1>1, <1>3
  <2> QED BY <2>1, <1>1 DEF TapInv, Stages
<1>11. Numbered'
  <2>1. ASSUME NEW i \in Slots PROVE Kept(slot[i])' /\ Begun(slot[i])'
    <3>1. Kept(slot[i]) /\ Begun(slot[i])
      BY DEF TapInv, Numbered
    <3>2. \A j \in DOMAIN slot[i].buf : slot[i].buf[j] \in 1 .. Len(units')
      BY <3>1, <1>1, <1>3 DEF Kept
    <3> QED BY <3>1, <3>2, <1>1, <1>4 DEF Kept, Begun
  <2> QED BY <2>1, <1>1, <1>6 DEF Numbered
<1> QED BY <1>8, <1>9, <1>10, <1>11 DEF TapInv

-----------------------------------------------------------------------------

LEMMA StepTapInv == ASSUME TapInv, [Next]_vars PROVE TapInv'
<1>1. CASE Acceptor
  <2>1. CASE HandshakeEnds \/ Deadline
    BY <2>1, ViewerType, RefuseStep DEF HandshakeEnds, Deadline, AcceptQuiet, ingestVars
  <2> QED BY <1>1, <2>1, AcceptStep, ReadLineStep, PlaceStep, AskForIdrStep, CloseRefusedStep DEF Acceptor
<1>2. CASE UNCHANGED vars
  <2>1. UNCHANGED <<acceptor, viewer, fd, slot, params, ingest, units, got>>
    BY <1>2 DEF vars, tapVars, ingestVars
  <2>2. TypeOK'
    BY <2>1 DEF TapInv, TypeOK
  <2>3. Descriptors'
    BY <2>1 DEF TapInv, Descriptors, InHand, Holds
  <2> QED BY <2>1, <2>2, <2>3, OutsideStep DEF TapInv, Stages
<1> QED BY <1>1, <1>2, ConfigureStep, ViewerStep, ReceiveVideoStep, PublishTapInv DEF Next

LEMMA AlwaysTapInv == Spec => []TapInv
  BY InitTapInv, StepTapInv, PTL DEF Spec

(* For any number of viewers and slots, every descriptor the accept thread *)
(* took is in its hand, in one slot or closed, whoever closes it           *)
(* (accept_loop, prune_dead_clients_locked, flush_out_buf).                *)
THEOREM AgentDescriptors == Spec => []DescriptorsAccounted
<1>1. TapInv => DescriptorsAccounted
  BY DEF TapInv, Descriptors, DescriptorsAccounted, InHand, Holds
<1> QED BY <1>1, AlwaysTapInv, PTL

-----------------------------------------------------------------------------
(* What is sent.                                                           *)

LEMMA NewestIs ==
  ASSUME NEW c \in TapClients, Kept(c), c.buf # <<>>
  PROVE  /\ Len(c.buf) \in Nat /\ Len(c.buf) >= 1 /\ Len(c.buf) \in DOMAIN c.buf
         /\ DOMAIN c.buf = 1 .. Len(c.buf)
         /\ Newest(c) \in 1 .. Len(units)
<1>1. c.buf \in Seq(UnitNumbers)
  BY DEF TapClients
<1>2. /\ Len(c.buf) \in Nat /\ Len(c.buf) >= 1 /\ Len(c.buf) \in DOMAIN c.buf
      /\ DOMAIN c.buf = 1 .. Len(c.buf)
  BY <1>1
<1> QED BY <1>2 DEF Newest, Kept

(* A step after which the units published before are what they were.       *)
UnitsGrow ==
  /\ Len(units) \in Nat /\ Len(units') \in Nat /\ Len(units) <= Len(units')
  /\ \A x \in 1 .. Len(units) : units'[x] = units[x]

LEMMA PicturesLast ==
  ASSUME NEW g, SentUnits(g), UnitsGrow, NEW k
  PROVE  OwnPicture(g, k)' <=> OwnPicture(g, k)
<1>1. ASSUME Own(g, k) PROVE units'[g[k].unit] = units[g[k].unit]
  BY <1>1 DEF Own, SentUnits, UnitsGrow
<1> QED BY <1>1 DEF OwnPicture, Own

LEMMA SentLasts ==
  ASSUME NEW g, SentUnits(g), UnitsGrow
  PROVE  SentUnits(g)' /\ (Starts(g) => Starts(g)') /\ (Ordered(g) => Ordered(g)')
<1>1. SentUnits(g)'
  BY DEF SentUnits, UnitsGrow
<1>2. ASSUME Starts(g) PROVE Starts(g)'
  <2> SUFFICES ASSUME NEW n \in DOMAIN g, OwnPicture(g, n)', ~units'[g[n].unit].idr
               PROVE  /\ PictureBetween(g, 0, n)'
                      /\ DropToIdr =>
                           \A k \in 1 .. n - 1 : Own(g, k) /\ ~g[k].whole => PictureBetween(g, k, n)'
    BY DEF Starts, Own
  <2>1. OwnPicture(g, n) /\ ~units[g[n].unit].idr
    BY PicturesLast DEF SentUnits, UnitsGrow
  <2>2. \A k : PictureBetween(g, k, n) => PictureBetween(g, k, n)'
    BY PicturesLast DEF PictureBetween
  <2> QED BY <1>2, <2>1, <2>2 DEF Starts
<1>3. ASSUME Ordered(g) PROVE Ordered(g)'
  BY <1>3 DEF Ordered, Own
<1> QED BY <1>1, <1>2, <1>3

LEMMA ContentLasts ==
  ASSUME NEW c \in TapClients, Kept(c), NEW g, NEW n, Content(c, g, n), UnitsGrow,
         c.viewer # None => SentUnits(g)
  PROVE  Content(c, g, n)'
<1>1. CASE c.viewer = None
  BY <1>1 DEF Content, Vacant
<1>2. CASE c.viewer # None
  <2>1. SentUnits(g)
    BY <1>2
  <2>2. Follows(c, g)'
    <3>1. Follows(c, g)
      BY <1>2 DEF Content
    <3>2. \A k : OwnPicture(g, k)' <=> OwnPicture(g, k)
      BY <2>1, PicturesLast
    <3> QED BY <3>1, <3>2 DEF Follows, InStep, Own, Settled
  <2>3. Filled(c, g)'
    <3>1. ASSUME c.buf # <<>>, c.own # c.viewer PROVE Inherited(c, g)'
      BY <1>2, <3>1 DEF Content, Filled, Inherited
    <3>2. ASSUME c.buf # <<>>, c.own = c.viewer PROVE Younger(c, g)'
      BY <1>2, <3>2 DEF Content, Filled, Younger, Newest, Own, Settled
    <3>3. ASSUME c.buf # <<>>, c.own = c.viewer, c.needIdr PROVE Recovering(c)'
      <4>1. Recovering(c)
        BY <1>2, <3>3 DEF Content, Filled
      <4>2. units'[Newest(c)] = units[Newest(c)] /\ Newest(c)' = Newest(c)
        BY <3>3, NewestIs DEF UnitsGrow, Newest
      <4>3. \A j \in DOMAIN c.buf : units'[c.buf[j]] = units[c.buf[j]]
        BY DEF Kept, UnitsGrow
      <4> QED BY <4>1, <4>2, <4>3 DEF Recovering
    <3> QED BY <3>1, <3>2, <3>3 DEF Filled
  <2>4. WaitsRightly(c, g)'
    <3>1. \A k \in DOMAIN g : units'[g[k].unit] = units[g[k].unit]
      BY <2>1 DEF SentUnits, UnitsGrow
    <3> QED BY <1>2, <3>1 DEF Content, WaitsRightly
  <2> QED BY <1>2, <2>2, <2>3, <2>4 DEF Content
<1> QED BY <1>1, <1>2

LEMMA ContentMono ==
  ASSUME NEW c \in TapClients, Kept(c), NEW g, NEW n \in Int, NEW m \in Int, n <= m,
         Content(c, g, n), c.viewer # None => SentUnits(g), Len(units) \in Nat
  PROVE  Content(c, g, m)
<1>1. \A j \in DOMAIN c.buf : c.buf[j] <= m
  <2> SUFFICES ASSUME NEW j \in DOMAIN c.buf PROVE c.buf[j] <= m
    OBVIOUS
  <2>1. c.buf[j] \in Int /\ c.buf[j] <= n
    BY DEF Kept, Content
  <2> QED BY <2>1
<1>2. ASSUME c.viewer # None, NEW k \in DOMAIN g PROVE g[k].unit <= m
  <2>1. g[k].unit \in Int /\ g[k].unit <= n
    BY <1>2 DEF SentUnits, Content
  <2> QED BY <2>1
<1> QED BY <1>1, <1>2 DEF Content

(* What a slot holds does not depend on its parameter sets. *)
LEMMA ContentSame ==
  ASSUME NEW c, NEW d, NEW g, NEW n, Content(c, g, n), c.viewer # None,
         d.viewer = c.viewer, d.buf = c.buf, d.begun = c.begun, d.own = c.own,
         d.needIdr = c.needIdr, d.pendingIdr = c.pendingIdr, d.gaveUp = c.gaveUp
  PROVE  Content(d, g, n)
  BY DEF Content, Filled, Inherited, Younger, Newest, Recovering, Settled, Follows, WaitsRightly


(* The fields of an entry of the sent list. *)
Entry(e, c, j, w) ==
  e.unit = c.buf[j] /\ (e.copy <=> j < Len(c.buf)) /\ (e.own <=> c.own = c.viewer) /\ (e.whole <=> w)

LEMMA EntryIs ==
  ASSUME NEW c, NEW j PROVE Entry(Whole(c, j), c, j, TRUE) /\ Entry(Torn(c, j), c, j, FALSE)
  BY DEF Whole, Torn, Entry

(* What becomes of what a viewer was sent when k units of c's buffer go    *)
(* out whole, and perhaps part of the next.                                *)
Continues(T, g, c, k, torn) ==
  /\ g \in Seq(Sends) /\ Len(g) \in Nat /\ Settled(c, g) \in 0 .. Len(g)
  /\ T \in Seq(Sends) /\ Len(T) = Settled(c, g) + k + (IF torn THEN 1 ELSE 0)
  /\ \A n \in 1 .. Settled(c, g) : T[n] = g[n]
  /\ \A n \in DOMAIN T : n > Settled(c, g) =>
       \E j \in 1 .. Len(c.buf) :
         /\ n = Settled(c, g) + j /\ T[n].unit = c.buf[j]
         /\ T[n].copy <=> j < Len(c.buf)
         /\ T[n].own <=> c.own = c.viewer
         /\ T[n].whole <=> j <= k

LEMMA SentContinues ==
  ASSUME TapInv, NEW c \in TapClients, c.viewer \in Viewers, Kept(c), Begun(c), c.buf # <<>>,
         NEW k \in 0 .. Len(c.buf), NEW torn \in BOOLEAN, torn => k < Len(c.buf),
         NEW T, T = Sent(c, k, torn)
  PROVE  Continues(T, got[c.viewer], c, k, torn)
<1> DEFINE m == Settled(c, got[c.viewer])
           L == Len(c.buf)
<1>1. /\ got[c.viewer] \in Seq(Sends) /\ Len(got[c.viewer]) \in Nat /\ m \in 0 .. Len(got[c.viewer])
  BY SettledIs
<1>2. L \in Nat /\ k \in Nat /\ k <= L
  BY NewestIs
<1>3. /\ T \in Seq(Sends)
      /\ Len(T) = m + k + (IF torn THEN 1 ELSE 0)
      /\ \A n \in 1 .. m : T[n] = got[c.viewer][n]
      /\ \A j \in 1 .. k : T[m + j] = Whole(c, j)
      /\ torn => T[m + k + 1] = Torn(c, k + 1)
  BY SentIs
<1> HIDE DEF m, L
<1>4. ASSUME NEW n \in DOMAIN T, n > m
      PROVE  \E j \in 1 .. L : /\ n = m + j /\ T[n].unit = c.buf[j]
                               /\ T[n].copy <=> j < L
                               /\ T[n].own <=> c.own = c.viewer
                               /\ T[n].whole <=> j <= k
  <2>1. n \in 1 .. Len(T)
    BY <1>3
  <2>2. CASE n <= m + k
    <3>1. PICK j \in 1 .. k : n = m + j
      <4>1. n - m \in 1 .. k /\ n = m + (n - m)
        BY <2>1, <2>2, <1>1, <1>2, <1>4
      <4> QED BY <4>1
    <3>2. T[n] = Whole(c, j)
      BY <3>1, <1>3
    <3>3. j \in 1 .. L /\ j <= k
      BY <1>2
    <3>4. Entry(T[n], c, j, TRUE)
      BY <3>2, EntryIs, Zenon
    <3> QED BY <3>1, <3>3, <3>4 DEF L, Entry
  <2>3. CASE n > m + k
    <3>1. torn /\ n = m + k + 1
      BY <2>1, <2>3, <1>1, <1>2, <1>3
    <3>2. T[n] = Torn(c, k + 1)
      BY <3>1, <1>3
    <3>3. k + 1 \in 1 .. L /\ n = m + (k + 1) /\ ~(k + 1 <= k)
      BY <3>1, <1>1, <1>2 DEF L
    <3>4. Entry(T[n], c, k + 1, FALSE)
      BY <3>2, EntryIs, Zenon
    <3> QED BY <3>3, <3>4 DEF L, Entry
  <2> QED BY <2>1, <2>2, <2>3, <1>1, <1>2
<1> QED BY <1>1, <1>2, <1>3, <1>4 DEF m, L, Continues

(* A slot with something in its buffer, for a viewer that was sent g, and  *)
(* what becomes of g.                                                      *)
Pending(c, g, N) ==
  /\ Kept(c) /\ c.buf # <<>> /\ c.viewer # None
  /\ SentUnits(g) /\ Starts(g) /\ Ordered(g) /\ Content(c, g, N)

LEMMA PendingIs ==
  ASSUME NEW c \in TapClients, NEW g, NEW N, Pending(c, g, N)
  PROVE  /\ Len(c.buf) \in Nat /\ Len(c.buf) >= 1 /\ DOMAIN c.buf = 1 .. Len(c.buf)
         /\ \A j \in 1 .. Len(c.buf) : c.buf[j] \in 1 .. Len(units) /\ c.buf[j] <= N
         /\ Newest(c) = c.buf[Len(c.buf)]
         /\ c.own # c.viewer => Inherited(c, g)
         /\ c.own = c.viewer => Younger(c, g) /\ (c.needIdr => Recovering(c))
         /\ ~c.needIdr => Len(c.buf) = 1 /\ InStep(g, Settled(c, g))
         /\ \A k \in DOMAIN g : g[k].unit <= N
<1>1. /\ Len(c.buf) \in Nat /\ Len(c.buf) >= 1 /\ DOMAIN c.buf = 1 .. Len(c.buf)
      /\ Newest(c) = c.buf[Len(c.buf)]
  BY NewestIs DEF Pending, Newest
<1>2. \A j \in 1 .. Len(c.buf) : c.buf[j] \in 1 .. Len(units) /\ c.buf[j] <= N
  BY <1>1 DEF Pending, Kept, Content
<1>3. /\ c.own # c.viewer => Inherited(c, g)
      /\ c.own = c.viewer => Younger(c, g) /\ (c.needIdr => Recovering(c))
      /\ ~c.needIdr => Len(c.buf) <= 1 /\ InStep(g, Settled(c, g))
      /\ \A k \in DOMAIN g : g[k].unit <= N
  BY DEF Pending, Content, Filled, Follows
<1>4. ~c.needIdr => Len(c.buf) = 1
  <2>1. \A l \in Nat : l <= 1 /\ l >= 1 => l = 1
    OBVIOUS
  <2> QED BY <2>1, <1>1, <1>3, Zenon
<1> QED BY <1>1, <1>2, <1>3, <1>4

(* The places of the list. *)
LEMMA ContinuesIs ==
  ASSUME NEW T, NEW g, NEW c \in TapClients, NEW k \in Nat, NEW torn \in BOOLEAN, Continues(T, g, c, k, torn)
  PROVE  LET m == Settled(c, g)
         IN  /\ m \in Nat /\ Len(T) \in Nat /\ DOMAIN T = 1 .. Len(T)
             /\ Len(g) \in Nat /\ DOMAIN g = 1 .. Len(g) /\ m <= Len(g) /\ m + k <= Len(T)
             /\ Len(T) <= m + k + 1
             /\ \A n \in 1 .. m : n \in DOMAIN g /\ n \in DOMAIN T /\ T[n] = g[n]
             /\ \A n \in 1 .. m : (Own(T, n) <=> Own(g, n)) /\ (OwnPicture(T, n) <=> OwnPicture(g, n))
<1> DEFINE m == Settled(c, g)
<1>1. /\ g \in Seq(Sends) /\ Len(g) \in Nat /\ m \in 0 .. Len(g) /\ T \in Seq(Sends)
      /\ Len(T) = m + k + (IF torn THEN 1 ELSE 0) /\ \A n \in 1 .. m : T[n] = g[n]
  BY DEF Continues
<1> HIDE DEF m
<1>2. DOMAIN T = 1 .. Len(T) /\ DOMAIN g = 1 .. Len(g) /\ Len(T) \in Nat
  BY <1>1
<1>3. m + k <= Len(T) /\ Len(T) <= m + k + 1 /\ m \in Nat /\ m <= Len(g)
  BY <1>1
<1>4. \A n \in 1 .. m : n \in DOMAIN g /\ n \in DOMAIN T /\ T[n] = g[n]
  BY <1>1, <1>2, <1>3
<1>5. \A n \in 1 .. m : (Own(T, n) <=> Own(g, n)) /\ (OwnPicture(T, n) <=> OwnPicture(g, n))
  BY <1>4 DEF Own, OwnPicture
<1> QED BY <1>1, <1>2, <1>3, <1>4, <1>5 DEF m

LEMMA ContinuesUnits ==
  ASSUME NEW T, NEW g, NEW c \in TapClients, NEW N \in Int, Pending(c, g, N),
         NEW k \in Nat, NEW torn \in BOOLEAN, Continues(T, g, c, k, torn)
  PROVE  SentUnits(T) /\ \A n \in DOMAIN T : T[n].unit <= N
<1> SUFFICES ASSUME NEW n \in DOMAIN T PROVE T[n].unit \in 1 .. Len(units) /\ T[n].unit <= N
  BY DEF SentUnits
<1>1. CASE n <= Settled(c, g)
  <2>1. n \in DOMAIN g /\ T[n] = g[n]
    BY <1>1, ContinuesIs
  <2> QED BY <2>1, PendingIs DEF Pending, SentUnits
<1>2. CASE n > Settled(c, g)
  <2>1. PICK j \in 1 .. Len(c.buf) : T[n].unit = c.buf[j]
    BY <1>2 DEF Continues
  <2> QED BY <2>1, PendingIs
<1> QED BY <1>1, <1>2, ContinuesIs

LEMMA ContinuesOrdered ==
  ASSUME NEW T, NEW g, NEW c \in TapClients, NEW N \in Int, Pending(c, g, N),
         NEW k \in Nat, NEW torn \in BOOLEAN, Continues(T, g, c, k, torn)
  PROVE  Ordered(T)
<1> DEFINE m == Settled(c, g)
           L == Len(c.buf)
<1> SUFFICES ASSUME NEW a \in DOMAIN T, NEW n \in DOMAIN T,
                    a < n, Own(T, a), Own(T, n), ~T[n].copy
             PROVE  T[a].unit <= T[n].unit /\ (T[a].copy \/ T[a].unit # T[n].unit)
  BY DEF Ordered
<1>1. m \in Nat /\ a \in Nat /\ n \in Nat /\ a >= 1 /\ n >= 1 /\ L \in Nat
  BY ContinuesIs, PendingIs
<1>2. CASE n <= m
  <2>1. a \in 1 .. m /\ n \in 1 .. m
    BY <1>1, <1>2
  <2>2. a \in DOMAIN g /\ n \in DOMAIN g /\ T[a] = g[a] /\ T[n] = g[n] /\ Own(g, a) /\ Own(g, n)
    BY <2>1, ContinuesIs
  <2>3. Ordered(g)
    BY DEF Pending
  <2> QED BY <2>2, <2>3 DEF Ordered
<1>3. CASE n > m
  <2>1. PICK j \in 1 .. L : /\ n = m + j /\ T[n].unit = c.buf[j] /\ (T[n].copy <=> j < L)
                            /\ (T[n].own <=> c.own = c.viewer)
    BY <1>3 DEF Continues
  <2>2. j = L /\ c.own = c.viewer
    BY <2>1, <1>1 DEF Own
  <2>3. T[n].unit = Newest(c) /\ Younger(c, g)
    BY <2>1, <2>2, PendingIs
  <2>4. CASE a <= m
    <3>1. a \in 1 .. m
      BY <2>4, <1>1
    <3>2. T[a] = g[a] /\ Own(g, a)
      BY <3>1, ContinuesIs
    <3> QED BY <3>1, <3>2, <2>3 DEF Younger
  <2>5. CASE a > m
    <3>1. PICK i \in 1 .. L : a = m + i /\ T[a].unit = c.buf[i] /\ (T[a].copy <=> i < L)
      BY <2>5 DEF Continues
    <3>2. T[a].copy
      BY <3>1, <2>1, <2>2, <1>1
    <3>3. c.buf[i] <= Newest(c)
      BY <2>3, PendingIs DEF Younger
    <3> QED BY <3>1, <3>2, <3>3, <2>3
  <2> QED BY <2>4, <2>5, <1>1
<1> QED BY <1>2, <1>3, <1>1

LEMMA ContinuesStarts ==
  ASSUME NEW T, NEW g, NEW c \in TapClients, NEW N \in Int, Pending(c, g, N),
         NEW k \in Nat, NEW torn \in BOOLEAN, Continues(T, g, c, k, torn)
  PROVE  Starts(T)
<1> DEFINE m == Settled(c, g)
           L == Len(c.buf)
<1> SUFFICES ASSUME NEW n \in DOMAIN T, OwnPicture(T, n), ~units[T[n].unit].idr
             PROVE  /\ PictureBetween(T, 0, n)
                    /\ DropToIdr => \A a \in 1 .. n - 1 : Own(T, a) /\ ~T[a].whole => PictureBetween(T, a, n)
  BY DEF Starts
<1>1. m \in Nat /\ n \in Nat /\ n >= 1 /\ L \in Nat
  <2>1. m \in Nat /\ Len(T) \in Nat /\ n \in 1 .. Len(T)
    BY ContinuesIs
  <2>2. L \in Nat
    BY PendingIs
  <2> QED BY <2>1, <2>2
<1>2. ASSUME NEW p \in 1 .. m, OwnPicture(g, p) PROVE OwnPicture(T, p)
  BY <1>2, ContinuesIs
<1>3. \A a \in 1 .. m : Own(T, a) => Own(g, a) /\ T[a] = g[a]
  BY ContinuesIs
<1>4. CASE n <= m
  <2>1. n \in 1 .. m
    BY <1>1, <1>4
  <2>2. n \in DOMAIN g /\ OwnPicture(g, n) /\ ~units[g[n].unit].idr /\ Starts(g)
    BY <2>1, ContinuesIs DEF Pending
  <2>3. \A a \in 0 .. n - 1 : PictureBetween(g, a, n) => PictureBetween(T, a, n)
    <3> SUFFICES ASSUME NEW a \in 0 .. n - 1, NEW p \in a + 1 .. n - 1, OwnPicture(g, p)
                 PROVE  PictureBetween(T, a, n)
      BY DEF PictureBetween
    <3>1. p \in 1 .. m
      BY <1>1, <1>4
    <3> QED BY <3>1, <1>2 DEF PictureBetween
  <2>4. \A a \in 1 .. n - 1 : a \in 1 .. m /\ a \in 0 .. n - 1
    BY <1>1, <1>4
  <2>5. 0 \in 0 .. n - 1
    BY <1>1
  <2> QED BY <2>2, <2>3, <2>4, <2>5, <1>3 DEF Starts
<1>5. CASE n > m
  <2>1. PICK j \in 1 .. L : /\ n = m + j /\ T[n].unit = c.buf[j]
                            /\ (T[n].own <=> c.own = c.viewer)
    BY <1>5 DEF Continues
  <2>2. c.own = c.viewer /\ units[T[n].unit].first = "slice"
    BY <2>1 DEF OwnPicture, Own
  <2>3. ~c.needIdr
    <3> SUFFICES ASSUME c.needIdr PROVE FALSE
      OBVIOUS
    <3>1. Recovering(c) /\ j \in DOMAIN c.buf
      BY <2>2, PendingIs
    <3> QED BY <3>1, <2>1, <2>2 DEF Recovering
  <2>4. L = 1 /\ InStep(g, m)
    BY <2>3, PendingIs
  <2>5. PICK p \in 1 .. m :
          OwnPicture(g, p) /\ (DropToIdr => \A a \in p .. m : Own(g, a) => g[a].whole)
    BY <2>4 DEF InStep
  <2>6. n = m + 1
    BY <2>1, <2>4, <1>1
  <2>7. PictureBetween(T, 0, n)
    <3>1. p \in 0 + 1 .. n - 1
      BY <2>6, <1>1
    <3> QED BY <3>1, <2>5, <1>2 DEF PictureBetween
  <2>8. ASSUME DropToIdr, NEW a \in 1 .. n - 1, Own(T, a), ~T[a].whole
        PROVE  PictureBetween(T, a, n)
    <3>1. a \in 1 .. m
      BY <2>6, <1>1
    <3>2. Own(g, a) /\ ~g[a].whole
      BY <3>1, <2>8, <1>3
    <3>3. a \notin p .. m
      BY <3>2, <2>5, <2>8
    <3>4. p \in a + 1 .. n - 1
      BY <3>1, <3>3, <2>6, <1>1
    <3> QED BY <3>4, <2>5, <1>2 DEF PictureBetween
  <2> QED BY <2>7, <2>8
<1> QED BY <1>4, <1>5, <1>1

(* All of the buffer went out. *)
LEMMA FlushedContent ==
  ASSUME NEW T, NEW g, NEW c \in TapClients, NEW N \in Int, Pending(c, g, N),
         NEW k \in Nat, k <= Len(c.buf), Len(c.buf) <= k, NEW torn \in BOOLEAN, ~torn, Continues(T, g, c, k, torn)
  PROVE  Content(Flushed(c), T, N)
<1> DEFINE m == Settled(c, g)
           L == Len(c.buf)
<1>1. PICK d \in TapClients :
        /\ d = Flushed(c) /\ d.viewer = c.viewer /\ d.own = c.own /\ d.buf = <<>> /\ d.begun = FALSE
        /\ d.pendingIdr = FALSE /\ d.needIdr = (c.needIdr /\ ~c.pendingIdr) /\ d.gaveUp = FALSE
  BY FlushedIs
<1>2. /\ m \in Nat /\ L \in Nat /\ L >= 1 /\ Len(T) = m + L /\ DOMAIN T = 1 .. Len(T)
      /\ c.viewer # None /\ c.own \in {None, c.viewer}
  <2>1. L \in Nat /\ L >= 1 /\ c.viewer # None /\ c.own \in {None, c.viewer}
    BY PendingIs DEF Pending, Content
  <2>2. Len(T) = m + L /\ m \in Nat /\ DOMAIN T = 1 .. Len(T)
    <3>1. DOMAIN T = 1 .. Len(T) /\ m \in Nat
      BY <2>1, ContinuesIs
    <3>2. Len(T) = m + L + (IF torn THEN 1 ELSE 0)
      BY DEF Continues
    <3> QED BY <3>1, <3>2, <2>1
  <2> QED BY <2>1, <2>2
<1>3. \A n \in DOMAIN T : T[n].unit <= N
  BY ContinuesUnits
<1>4. ASSUME NEW n \in 1 .. Len(T), n > m PROVE T[n].whole
  <2>1. PICK j \in 1 .. L : T[n].whole <=> j <= L
    BY <1>2, <1>4 DEF Continues
  <2> QED BY <2>1, <1>2
<1>5. ASSUME NEW n \in 1 .. m
      PROVE  /\ n \in DOMAIN g /\ T[n] = g[n] /\ (Own(T, n) <=> Own(g, n))
             /\ (OwnPicture(T, n) <=> OwnPicture(g, n))
  <2>1. n \in DOMAIN T /\ n \in DOMAIN g /\ T[n] = g[n]
    BY ContinuesIs
  <2> QED BY <2>1 DEF Own, OwnPicture
<1>6. ASSUME ~d.needIdr PROVE InStep(T, Len(T))
  <2>1. CASE ~c.needIdr
    <3>1. PICK p \in 1 .. m :
            OwnPicture(g, p) /\ (DropToIdr => \A n \in p .. m : Own(g, n) => g[n].whole)
      BY <2>1, PendingIs DEF InStep
    <3>2. ASSUME DropToIdr, NEW n \in p .. Len(T), Own(T, n) PROVE T[n].whole
      <4>1. CASE n <= m
        <5>1. n \in p .. m /\ n \in 1 .. m
          BY <1>2, <4>1
        <5> QED BY <5>1, <3>1, <3>2, <1>5
      <4>2. CASE n > m
        <5>1. n \in 1 .. Len(T)
          BY <1>2
        <5> QED BY <5>1, <4>2, <1>4
      <4> QED BY <4>1, <4>2, <1>2
    <3>3. p \in 1 .. Len(T)
      BY <1>2
    <3> QED BY <3>1, <3>2, <3>3, <1>5 DEF InStep
  <2>2. CASE c.needIdr
    <3>1. c.pendingIdr
      BY <2>2, <1>1, <1>6
    <3>2. c.own = c.viewer
      BY <3>1, PendingIs DEF Inherited
    <3>3. Recovering(c)
      BY <2>2, <3>2, PendingIs
    <3>4. Len(T) \in DOMAIN T /\ Len(T) > m /\ Len(T) \in 1 .. Len(T)
      BY <1>2
    <3>5. PICK j \in 1 .. L : /\ Len(T) = m + j /\ T[Len(T)].unit = c.buf[j]
                              /\ (T[Len(T)].own <=> c.own = c.viewer)
      BY <3>4 DEF Continues
    <3>6. j = L
      BY <3>5, <1>2
    <3>7. units[T[Len(T)].unit].idr /\ T[Len(T)].own
      BY <3>2, <3>3, <3>5, <3>6, PendingIs DEF Recovering
    <3>8. OwnPicture(T, Len(T))
      BY <3>4, <3>7 DEF OwnPicture, Own
    <3>9. \A n \in Len(T) .. Len(T) : T[n].whole
      <4>1. \A n \in Len(T) .. Len(T) : n \in 1 .. Len(T) /\ n > m
        BY <1>2
      <4> QED BY <4>1, <1>4
    <3> QED BY <3>4, <3>8, <3>9 DEF InStep
  <2> QED BY <2>1, <2>2
<1>7. WaitsRightly(d, T)
  <2> SUFFICES ASSUME d.needIdr, NEW n \in DOMAIN T, T[n].own PROVE FALSE
    BY DEF WaitsRightly
  <2>1. c.needIdr /\ ~c.pendingIdr
    BY <1>1
  <2>2. c.own # c.viewer
    BY <2>1, PendingIs DEF Recovering
  <2>3. \A i \in DOMAIN g : ~g[i].own
    BY <2>2, PendingIs DEF Inherited
  <2>4. CASE n <= m
    <3>1. n \in 1 .. m
      BY <2>4, <1>2
    <3>2. n \in DOMAIN g /\ T[n] = g[n]
      BY <3>1, <1>5
    <3> QED BY <3>2, <2>3
  <2>5. CASE n > m
    BY <2>2, <2>5 DEF Continues
  <2> QED BY <2>4, <2>5, <1>2
<1>8. Len(d.buf) = 0 /\ DOMAIN d.buf = {} /\ Settled(d, T) = Len(T)
  BY <1>1 DEF Settled
<1>9. d.own \in {None, d.viewer} /\ (d.pendingIdr => d.needIdr) /\ d.viewer # None
  BY <1>1, <1>2
<1>10. Filled(d, T)
  BY <1>1 DEF Filled
<1>11. Follows(d, T)
  BY <1>6, <1>8 DEF Follows
<1> QED BY <1>1, <1>3, <1>7, <1>8, <1>9, <1>10, <1>11 DEF Content

(* Some of it did. *)
LEMMA RestContent ==
  ASSUME TapInv, NEW T, NEW g, NEW c \in TapClients, NEW N \in Int, Pending(c, g, N),
         NEW k \in Nat, k < Len(c.buf), NEW torn \in BOOLEAN, Continues(T, g, c, k, torn)
  PROVE  Content(Rest(c, k, torn), T, N)
<1> DEFINE m == Settled(c, g)
           L == Len(c.buf)
<1>1. /\ L \in Nat /\ L >= 1 /\ k \in Nat /\ k < L /\ DOMAIN c.buf = 1 .. L
      /\ c.viewer # None /\ c.own \in {None, c.viewer} /\ (c.pendingIdr => c.needIdr)
      /\ WaitsRightly(c, g)
  BY PendingIs DEF Pending, Content
<1>2. PICK d \in TapClients :
        /\ d = Rest(c, k, torn) /\ d.viewer = c.viewer /\ d.own = c.own /\ d.begun = torn
        /\ d.pendingIdr = c.pendingIdr /\ d.needIdr = c.needIdr /\ d.gaveUp = c.gaveUp
        /\ Len(d.buf) = L - k /\ \A j \in 1 .. L - k : d.buf[j] = c.buf[k + j]
  <2>1. k \in 0 .. Len(c.buf) - 1
    BY <1>1
  <2>2. Kept(c)
    BY DEF Pending
  <2> QED BY <2>1, <2>2, RestIs
<1>3. DOMAIN d.buf = 1 .. L - k /\ d.buf # <<>>
  <2>1. d.buf \in Seq(UnitNumbers)
    BY DEF TapClients
  <2>2. DOMAIN d.buf = 1 .. L - k
    BY <2>1, <1>2
  <2>3. 1 \in 1 .. L - k
    BY <1>1
  <2> QED BY <2>2, <2>3
<1>4. \A j \in DOMAIN d.buf : \E i \in 1 .. L : d.buf[j] = c.buf[i]
  <2> SUFFICES ASSUME NEW j \in 1 .. L - k PROVE \E i \in 1 .. L : d.buf[j] = c.buf[i]
    BY <1>3
  <2>1. k + j \in 1 .. L
    BY <1>1
  <2> QED BY <2>1, <1>2
<1>5. Newest(d) = Newest(c)
  <2>1. L - k \in 1 .. L - k /\ k + (L - k) = L
    BY <1>1
  <2>2. d.buf[L - k] = c.buf[L]
    BY <2>1, <1>2
  <2> QED BY <2>2, <1>2 DEF Newest
<1>6. /\ m \in Nat /\ Len(T) \in Nat /\ DOMAIN T = 1 .. Len(T) /\ Settled(d, T) = m + k
      /\ m + k <= Len(T)
  <2>1. m \in Nat /\ Len(T) \in Nat /\ DOMAIN T = 1 .. Len(T)
    BY <1>1, ContinuesIs
  <2>2. Len(T) = m + k + (IF torn THEN 1 ELSE 0)
    BY DEF Continues
  <2>3. Settled(d, T) = IF torn THEN Len(T) - 1 ELSE Len(T)
    BY <1>2 DEF Settled
  <2> QED BY <2>1, <2>2, <2>3, <1>1
<1>7. ASSUME NEW n \in 1 .. m
      PROVE  /\ n \in DOMAIN g /\ T[n] = g[n] /\ (Own(T, n) <=> Own(g, n))
             /\ (OwnPicture(T, n) <=> OwnPicture(g, n))
  <2>1. n \in DOMAIN T /\ n \in DOMAIN g /\ T[n] = g[n]
    BY ContinuesIs
  <2> QED BY <2>1 DEF Own, OwnPicture
<1>8. ASSUME NEW n \in DOMAIN T, n > m
      PROVE  \E j \in 1 .. L : /\ n = m + j /\ T[n].unit = c.buf[j]
                               /\ (T[n].copy <=> j < L) /\ (T[n].own <=> c.own = c.viewer)
                               /\ (T[n].whole <=> j <= k)
  BY <1>8 DEF Continues
<1>9. ASSUME c.own # c.viewer PROVE Inherited(d, T)
  <2>1. Inherited(c, g)
    BY <1>9, PendingIs
  <2>2. ASSUME NEW n \in DOMAIN T PROVE ~T[n].own
    <3>1. CASE n <= m
      <4>1. n \in 1 .. m
        BY <3>1, <1>6
      <4> QED BY <4>1, <1>7, <2>1 DEF Inherited
    <3>2. CASE n > m
      BY <3>2, <1>8, <1>9
    <3> QED BY <3>1, <3>2, <1>6
  <2> QED BY <2>1, <2>2, <1>2 DEF Inherited
<1>10. ASSUME c.own = c.viewer PROVE Younger(d, T)
  <2>1. Younger(c, g)
    BY <1>10, PendingIs
  <2>2. \A j \in DOMAIN d.buf : d.buf[j] <= Newest(d)
    BY <2>1, <1>1, <1>4, <1>5 DEF Younger
  <2>3. ASSUME NEW n \in 1 .. m + k, Own(T, n)
        PROVE  T[n].unit <= Newest(d) /\ (T[n].copy \/ T[n].unit # Newest(d))
    <3>1. CASE n <= m
      <4>1. n \in 1 .. m
        BY <3>1, <1>6
      <4> QED BY <4>1, <1>5, <1>7, <2>1, <2>3 DEF Younger
    <3>2. CASE n > m
      <4>1. n \in DOMAIN T
        BY <1>1, <1>6
      <4>2. PICK j \in 1 .. L : n = m + j /\ T[n].unit = c.buf[j] /\ (T[n].copy <=> j < L)
        BY <4>1, <3>2, <1>8
      <4>3. j < L
        BY <4>2, <1>1, <1>6
      <4>4. c.buf[j] <= Newest(c)
        BY <2>1, <1>1 DEF Younger
      <4> QED BY <4>2, <4>3, <4>4, <1>5
    <3> QED BY <3>1, <3>2, <1>6, <1>1
  <2> QED BY <2>2, <2>3, <1>6 DEF Younger
<1>11. ASSUME c.own = c.viewer, c.needIdr PROVE Recovering(d)
  <2>1. /\ c.pendingIdr /\ units[Newest(c)].idr
        /\ \A i \in 1 .. L : units[c.buf[i]].idr \/ units[c.buf[i]].first # "slice"
    BY <1>11, <1>1, PendingIs DEF Recovering
  <2>2. \A j \in DOMAIN d.buf : units[d.buf[j]].idr \/ units[d.buf[j]].first # "slice"
    BY <2>1, <1>4
  <2> QED BY <2>1, <2>2, <1>2, <1>5 DEF Recovering
<1>12. Filled(d, T)
  BY <1>2, <1>9, <1>10, <1>11 DEF Filled
<1>13. ASSUME ~c.needIdr PROVE Len(d.buf) <= 1 /\ InStep(T, m + k)
  <2>1. L = 1 /\ InStep(g, m)
    BY <1>13, PendingIs
  <2>2. k = 0 /\ L - k = 1 /\ m + k = m
    BY <2>1, <1>1, <1>6
  <2>3. PICK p \in 1 .. m :
          OwnPicture(g, p) /\ (DropToIdr => \A a \in p .. m : Own(g, a) => g[a].whole)
    BY <2>1 DEF InStep
  <2>4. \A a \in p .. m : a \in 1 .. m
    BY <1>6
  <2>5. ASSUME DropToIdr, NEW a \in p .. m, Own(T, a) PROVE T[a].whole
    BY <2>3, <2>4, <2>5, <1>7
  <2>6. InStep(T, m)
    BY <2>3, <2>5, <1>7 DEF InStep
  <2>7. InStep(T, m + k)
    BY <2>2, <2>6, Zenon
  <2>8. Len(d.buf) = 1
    BY <2>2, <1>2, Zenon
  <2>9. \A l : l = 1 => l <= 1
    OBVIOUS
  <2> QED BY <2>7, <2>8, <2>9, Zenon
<1>14. WaitsRightly(d, T)
  <2> SUFFICES ASSUME c.needIdr, ~c.gaveUp, NEW n \in DOMAIN T,
                      T[n].own, T[n].whole, ~T[n].copy, units[T[n].unit].idr
               PROVE  FALSE
    BY <1>2 DEF WaitsRightly
  <2>1. CASE n <= m
    <3>1. n \in 1 .. m
      BY <2>1, <1>6
    <3> QED BY <3>1, <1>1, <1>7 DEF WaitsRightly
  <2>2. CASE n > m
    <3>1. PICK j \in 1 .. L : (T[n].copy <=> j < L) /\ (T[n].whole <=> j <= k)
      BY <2>2, <1>8
    <3> QED BY <3>1, <1>1
  <2> QED BY <2>1, <2>2, <1>6
<1>15. \A n \in DOMAIN T : T[n].unit <= N
  BY ContinuesUnits
<1>16. \A j \in DOMAIN d.buf : d.buf[j] <= N
  BY <1>4, PendingIs
<1>17. Follows(d, T)
  BY <1>2, <1>6, <1>13 DEF Follows
<1> QED BY <1>1, <1>2, <1>12, <1>14, <1>15, <1>16, <1>17 DEF Content

-----------------------------------------------------------------------------
(* The slot the ingest thread has come to.                                 *)

LEMMA CurContent ==
  ASSUME TapInv, SendInv, ingest.i # 0
  PROVE  /\ Content(Cur, got[Cur.viewer], Number - 1)
         /\ Cur.viewer # None =>
              /\ SentUnits(got[Cur.viewer]) /\ Starts(got[Cur.viewer]) /\ Ordered(got[Cur.viewer])
              /\ Cur.sid \in Sids
              /\ params[Cur.sid] = IF ingest.at = "old" /\ Cur.sid = Unit.sid
                                   THEN Cached(Cur.params, Unit, Number) ELSE Cur.params
              /\ ingest.at = "new" => Cur.sid = Unit.sid
<1>1. ingest.i \in Slots /\ ingest.i \in Int /\ Cur = slot[ingest.i] /\ ingest.at \in {"old", "new"}
      /\ Cur.viewer \in Viewers \cup {None} /\ (Cur.sid = 0 <=> Cur.viewer = None) /\ Cur \in TapClients
  BY InPublication DEF Cur, Slots
<1>2. Reached(ingest.i) = Number - 1
  <2>1. ingest.i \in 1 .. ingest.i
    BY <1>1 DEF Slots
  <2> QED BY <2>1 DEF Reached, Number
<1>3. Content(Cur, got[Cur.viewer], Number - 1)
  BY <1>1, <1>2 DEF SendInv, ContentInv
<1>4. ASSUME Cur.viewer # None
      PROVE  /\ SentUnits(got[Cur.viewer]) /\ Starts(got[Cur.viewer]) /\ Ordered(got[Cur.viewer])
             /\ Cur.sid \in Sids
  <2>1. Cur.viewer \in Viewers /\ Cur.sid \in Sids
    BY <1>1, <1>4 DEF TapClients
  <2> QED BY <2>1 DEF SendInv, SentWell
<1>5. Waits(ingest.i) <=> ingest.at = "old" /\ Cur.sid = Unit.sid
  BY <1>1 DEF Waits
<1>6. ASSUME Cur.viewer # None
      PROVE  /\ params[Cur.sid] = IF ingest.at = "old" /\ Cur.sid = Unit.sid
                                  THEN Cached(Cur.params, Unit, Number) ELSE Cur.params
             /\ ingest.at = "new" => Cur.sid = Unit.sid
  BY <1>1, <1>5, <1>6 DEF SendInv, ParamsInv
<1> QED BY <1>3, <1>4, <1>6

LEMMA DroppedContent ==
  ASSUME TapInv, SendInv, ingest.i # 0, Cur.viewer # None
  PROVE  Content(Dropped, got[Cur.viewer], Number - 1)
<1>1. PICK c \in TapClients : c = Cur /\ Begun(c) /\ c.viewer \in Viewers
  BY InPublication
<1>2. PICK g \in Seq(Sends) : /\ g = got[c.viewer] /\ Len(g) \in Nat /\ Settled(c, g) \in 0 .. Len(g)
                              /\ Content(c, g, Number - 1)
  <2>1. /\ got[c.viewer] \in Seq(Sends) /\ Len(got[c.viewer]) \in Nat
        /\ Settled(c, got[c.viewer]) \in 0 .. Len(got[c.viewer])
    BY <1>1, SettledIs
  <2>2. Content(c, got[c.viewer], Number - 1)
    BY <1>1, CurContent
  <2> QED BY <2>1, <2>2
<1>3. PICK d \in TapClients :
        /\ d = Dropped /\ d.viewer = c.viewer /\ d.own = c.own /\ d.buf = <<>> /\ d.begun = FALSE
        /\ d.gaveUp = TRUE /\ d.needIdr = (c.needIdr \/ DropToIdr) /\ d.pendingIdr = c.pendingIdr
  BY <1>1, DroppedIs
<1>4. Settled(d, g) = Len(g) /\ Len(d.buf) = 0 /\ DOMAIN d.buf = {} /\ d.viewer # None
  BY <1>1, <1>3 DEF Settled
<1>5. ASSUME ~d.needIdr PROVE InStep(g, Len(g))
  <2>1. ~c.needIdr /\ ~DropToIdr
    BY <1>3, <1>5
  <2>2. InStep(g, Settled(c, g))
    BY <1>1, <1>2, <2>1 DEF Content, Follows
  <2>3. PICK p \in 1 .. Settled(c, g) : OwnPicture(g, p)
    BY <2>2 DEF InStep
  <2>4. p \in 1 .. Len(g)
    BY <1>2
  <2> QED BY <2>1, <2>3, <2>4 DEF InStep
<1>6. Filled(d, g) /\ Follows(d, g) /\ WaitsRightly(d, g)
  BY <1>3, <1>4, <1>5 DEF Filled, Follows, WaitsRightly
<1>7. /\ d.own \in {None, d.viewer} /\ (d.pendingIdr => d.needIdr)
      /\ \A k \in DOMAIN g : g[k].unit <= Number - 1
  BY <1>1, <1>2, <1>3 DEF Content
<1>8. Content(d, g, Number - 1)
  BY <1>4, <1>6, <1>7 DEF Content
<1> QED BY <1>1, <1>2, <1>3, <1>8

(* The sets that go in front of an IDR are no pictures.                    *)
LEMMA SetsNoPictures ==
  ASSUME TapInv, SendInv, ingest.at = "new", ingest.i # 0, Cur.viewer # None, Unit.idr,
         NEW j \in DOMAIN Assembled.buf
  PROVE  units[Assembled.buf[j]].idr \/ units[Assembled.buf[j]].first # "slice"
<1>1. Assembled.buf[j] \in {Number, Cur.params.sps, Cur.params.pps} \ {0}
  BY AssembledIs
<1>2. Cur.params = params[Cur.sid] /\ Cur.sid \in Sids
  BY CurContent
<1>3. Cur.params.sps # 0 => units[Cur.params.sps].first = "sps"
  BY <1>2 DEF SendInv, ParamsInv
<1>4. Cur.params.pps # 0 => units[Cur.params.pps].first = "pps"
  BY <1>2 DEF SendInv, ParamsInv
<1> QED BY <1>1, <1>3, <1>4 DEF Unit

LEMMA AssembledContent ==
  ASSUME TapInv, SendInv, ingest.at = "new", ingest.i # 0, Cur.needIdr => Unit.idr
  PROVE  Content(Assembled, got[Cur.viewer], Number)
<1>1. PICK c \in TapClients : c = Cur /\ Begun(c) /\ c.viewer \in Viewers \cup {None}
                              /\ c.buf = <<>> /\ ~c.begun
  BY InPublication DEF TapInv, Stages
<1>2. PICK d \in TapClients :
        /\ d = Assembled /\ Kept(d) /\ d.viewer = c.viewer /\ d.params = c.params
        /\ d.needIdr = c.needIdr /\ d.gaveUp = c.gaveUp /\ d.own = c.viewer /\ d.begun = FALSE
        /\ d.pendingIdr = (c.pendingIdr \/ (c.needIdr /\ Unit.idr))
        /\ Len(d.buf) >= 1 /\ d.buf[Len(d.buf)] = Number /\ (~c.needIdr => Len(d.buf) = 1)
  BY <1>1, AssembledIs
<1>3. PICK n \in Nat : n = Number /\ n = Len(units)
  BY InPublication
<1>4. \A j \in DOMAIN d.buf : d.buf[j] <= n
  <2> SUFFICES ASSUME NEW j \in DOMAIN d.buf PROVE d.buf[j] <= n
    OBVIOUS
  <2>1. d.buf[j] \in 1 .. Len(units)
    BY <1>2 DEF Kept
  <2> QED BY <2>1, <1>3
<1>5. CASE c.viewer = None
  <2>1. Vacant(c)
    BY <1>1, <1>5, CurContent DEF Content
  <2>2. Vacant(d)
    BY <2>1, <1>2, <1>5 DEF Vacant
  <2> QED BY <2>2, <1>2, <1>3, <1>4, <1>5 DEF Content
<1>6. CASE c.viewer # None
  <2>1. PICK g \in Seq(Sends) : g = got[c.viewer] /\ Len(g) \in Nat /\ Content(c, g, n - 1) /\ SentUnits(g)
    <3>1. got[c.viewer] \in Seq(Sends) /\ Len(got[c.viewer]) \in Nat
      BY <1>1, <1>6, SettledIs
    <3>2. Content(c, got[c.viewer], n - 1) /\ SentUnits(got[c.viewer])
      BY <1>1, <1>3, <1>6, CurContent
    <3> QED BY <3>1, <3>2
  <2>2. ASSUME NEW k \in DOMAIN g PROVE g[k].unit \in Nat /\ g[k].unit <= n - 1
    BY <1>6, <2>1, <1>3 DEF Content, SentUnits
  <2>3. \A k \in DOMAIN g : g[k].unit <= n /\ g[k].unit # n
    <3> SUFFICES ASSUME NEW k \in DOMAIN g PROVE g[k].unit <= n /\ g[k].unit # n
      OBVIOUS
    <3> QED BY <2>2
  <2>4. Settled(d, g) = Len(g) /\ Settled(c, g) = Len(g) /\ DOMAIN g = 1 .. Len(g) /\ Newest(d) = n
    BY <1>1, <1>2, <1>3, <2>1 DEF Settled, Newest
  <2>5. Younger(d, g)
    BY <1>4, <2>3, <2>4 DEF Younger
  <2>6. ASSUME c.needIdr PROVE Recovering(d)
    <3>1. Unit.idr /\ d.pendingIdr
      BY <2>6, <1>1, <1>2
    <3>2. units[Newest(d)].idr
      BY <3>1, <2>4, <1>3 DEF Unit
    <3>3. \A j \in DOMAIN d.buf : units[d.buf[j]].idr \/ units[d.buf[j]].first # "slice"
      BY <3>1, <1>1, <1>2, <1>6, SetsNoPictures
    <3> QED BY <3>1, <3>2, <3>3 DEF Recovering
  <2>7. Filled(d, g)
    BY <1>2, <2>5, <2>6 DEF Filled
  <2>8. Follows(c, g) /\ WaitsRightly(c, g) /\ (c.pendingIdr => c.needIdr)
    BY <2>1, <1>6 DEF Content
  <2>9. Follows(d, g)
    <3> SUFFICES ASSUME ~c.needIdr PROVE Len(d.buf) <= 1 /\ InStep(g, Settled(d, g))
      BY <1>2 DEF Follows
    <3>1. \A l \in {1} : l <= 1
      OBVIOUS
    <3>2. Len(d.buf) \in {1}
      BY <1>2
    <3> QED BY <3>1, <3>2, <2>4, <2>8 DEF Follows
  <2>10. WaitsRightly(d, g)
    BY <2>8, <1>2 DEF WaitsRightly
  <2>11. d.own \in {None, d.viewer} /\ (d.pendingIdr => d.needIdr) /\ d.viewer # None
    BY <1>2, <1>6, <2>8
  <2>12. Content(d, g, n)
    BY <1>4, <2>3, <2>7, <2>9, <2>10, <2>11 DEF Content
  <2> QED BY <1>1, <1>2, <1>3, <2>1, <2>12
<1> QED BY <1>5, <1>6

(* Where the unit has come to, from one slot to the next. *)
LEMMA ReachedStep ==
  ASSUME TapInv, ingest.i # 0, NEW c \in TapClients, SlotStep(c), NEW i, i = ingest.i
  PROVE  /\ \A j \in Slots : j # i => Reached(j)' = Reached(j) /\ (Waits(j)' <=> Waits(j))
         /\ Number - 1 <= Reached(i)' /\ Reached(i)' <= Number
         /\ NextSlot => Reached(i)' = Number
         /\ ~Waits(i)'
         /\ ingest'.at = "new" => ingest'.i = i /\ ~NextSlot
<1>1. i \in Slots /\ i \in Nat /\ i >= 1 /\ MaxClients \in Nat /\ Slots = 1 .. MaxClients
  BY InPublication, AgentAssumption DEF Slots
<1>2. PICK n \in Nat : n = Number /\ n = Len(units)
  BY InPublication
<1>3. /\ slot'[i] = c /\ \A j \in Slots : j # i => slot'[j] = slot[j]
      /\ units' = units /\ Unit' = Unit
  BY <1>1 DEF SlotStep, TapInv, TypeOK, PublishQuiet, Unit, Number
<1>4. PICK k \in Slots \cup {0} :
        /\ k = ingest'.i
        /\ \/ ingest'.at = "new" /\ k = i
           \/ ingest'.at = "old" /\ k = i + 1
           \/ k = 0 /\ i = MaxClients /\ ingest'.at # "new"
  <2>1. ingest'.at \in {"boot", "recv"} <=> ingest'.i = 0
    BY SlotStepIngest
  <2>2. ingest' \in [at : {"boot", "recv", "old", "new"}, i : Slots \cup {0}]
    BY SlotStepIngest
  <2>3. ingest'.i = 0 => ingest'.at # "new"
    BY <2>1
  <2> QED BY <1>1, <2>2, <2>3, SlotStepIngest
<1>5. NextSlot => ingest'.at # "new"
  <2>1. ingest \in [at : {"boot", "recv", "old", "new"}, i : Slots \cup {0}]
    BY DEF TapInv, TypeOK
  <2> QED BY <2>1 DEF NextSlot, Goto
<1>6. k # 0 => k = i \/ k = i + 1
  BY <1>4
<1>7. ASSUME NEW j \in Slots, j # i PROVE Reached(j)' = Reached(j) /\ (Waits(j)' <=> Waits(j))
  <2>1. /\ j \in Nat /\ j >= 1 /\ j <= MaxClients
        /\ k \in 1 .. j <=> i \in 1 .. j
        /\ (k # 0 /\ (k < j \/ (k = j /\ ingest'.at = "old"))) <=> (i < j)
    BY <1>1, <1>4, <1>7
  <2>2. Reached(j)' = IF k \in 1 .. j THEN n - 1 ELSE n
    BY <1>2, <1>3, <1>4 DEF Reached
  <2>3. Reached(j) = IF i \in 1 .. j THEN n - 1 ELSE n
    BY <1>1, <1>2 DEF Reached
  <2>4. Waits(j)' <=> slot[j].sid = Unit.sid /\ k # 0 /\ (k < j \/ (k = j /\ ingest'.at = "old"))
    BY <1>3, <1>4, <1>7 DEF Waits
  <2>5. Waits(j) <=> slot[j].sid = Unit.sid /\ (i < j)
    BY <1>1, <1>7 DEF Waits
  <2> QED BY <2>1, <2>2, <2>3, <2>4, <2>5
<1>8. ~Waits(i)'
  <2>1. k # 0 => ~(k < i) /\ ~(k = i /\ ingest'.at = "old")
    BY <1>1, <1>4
  <2> QED BY <2>1, <1>4 DEF Waits
<1>9. Number - 1 <= Reached(i)' /\ Reached(i)' <= Number /\ (ingest'.at # "new" => Reached(i)' = Number)
  <2>1. Reached(i)' = IF k \in 1 .. i THEN n - 1 ELSE n
    BY <1>2, <1>3, <1>4 DEF Reached
  <2>2. ingest'.at # "new" => k \notin 1 .. i
    BY <1>1, <1>4
  <2> QED BY <2>1, <2>2, <1>2
<1>10. ingest'.at = "new" => k = i
  BY <1>1, <1>4
<1> QED BY <1>1, <1>4, <1>5, <1>7, <1>8, <1>9, <1>10

(* A step that gives the slot a content that fits what its viewer has then *)
(* been sent.                                                              *)
WellSent(T) == SentUnits(T) /\ Starts(T) /\ Ordered(T)

LEMMA SendStep ==
  ASSUME TapInv, SendInv, ingest.i # 0, NEW d \in TapClients, Kept(d), SlotStep(d),
         NEW T, Cur.viewer # None => T = got'[Cur.viewer] /\ WellSent(T),
         NEW n \in Int, n <= Number, Content(d, T, n),
         NextSlot \/ (n <= Number - 1 /\ (d.viewer # None => d.sid = Unit.sid)),
         d.viewer # None => params[d.sid] = d.params
  PROVE  SendInv'
<1>1. PICK i \in Slots : /\ i = ingest.i /\ i # 0 /\ slot[i] = Cur
                         /\ Cur.viewer \in Viewers \cup {None} /\ None \notin Viewers
  BY InPublication, AgentAssumption DEF Cur
<1>2. PICK N \in Nat : N = Number /\ N = Len(units)
  BY InPublication
<1>3. /\ slot'[i] = d /\ \A j \in Slots : j # i => slot'[j] = slot[j]
      /\ units' = units /\ Unit' = Unit /\ Number' = Number /\ params' = params /\ acceptor' = acceptor
  BY <1>1 DEF SlotStep, TapInv, TypeOK, PublishQuiet, Unit, Number
<1>4. UnitsGrow
  BY <1>2, <1>3 DEF UnitsGrow
<1>5. d.viewer # None => d.viewer = Cur.viewer
  BY FreeSlotIs DEF SlotStep, Keeps, Closes
<1>6. \A v \in Viewers : v # Cur.viewer => got'[v] = got[v]
  BY DEF SlotStep
<1>7. SentWell'
  <2> SUFFICES ASSUME NEW v \in Viewers, NEW h, h = got'[v]
               PROVE  SentUnits(h)' /\ Starts(h)' /\ Ordered(h)'
    BY DEF SentWell
  <2>1. SentUnits(h) /\ Starts(h) /\ Ordered(h)
    <3>1. CASE v = Cur.viewer
      BY <3>1, <1>1 DEF WellSent
    <3>2. CASE v # Cur.viewer
      BY <3>2, <1>6 DEF SendInv, SentWell
    <3> QED BY <3>1, <3>2
  <2> QED BY <2>1, <1>4, SentLasts
<1>8. ContentInv'
  <2> SUFFICES ASSUME NEW j \in Slots, NEW e, e = slot'[j], NEW h, h = got'[e.viewer],
                      NEW r, r = Reached(j)'
               PROVE  Content(e, h, r)'
    BY DEF ContentInv
  <2>1. CASE j = i
    <3>1. e = d /\ (d.viewer # None => h = T /\ SentUnits(T))
      BY <2>1, <1>3, <1>5 DEF WellSent
    <3>2. Content(d, h, n)
      <4>1. CASE d.viewer = None
        BY <4>1 DEF Content
      <4>2. CASE d.viewer # None
        BY <4>2, <3>1
      <4> QED BY <4>1, <4>2
    <3>3. r \in Int /\ n <= r
      <4>1. N - 1 <= r /\ r <= N /\ (NextSlot => r = N)
        BY <1>1, <1>2, <2>1, ReachedStep
      <4>2. r \in {N - 1, N}
        <5>1. r = IF ingest'.i \in 1 .. j THEN N - 1 ELSE N
          BY <1>2, <1>3 DEF Reached
        <5> QED BY <5>1
      <4> QED BY <4>1, <4>2, <1>2
    <3>4. Content(d, h, r)
      BY <3>1, <3>2, <3>3, <1>2, ContentMono
    <3> QED BY <3>1, <3>4, <1>4, ContentLasts
  <2>2. CASE j # i
    <3>1. e = slot[j] /\ e \in TapClients /\ Kept(e) /\ r = Reached(j)
      <4>1. e = slot[j] /\ e \in TapClients /\ Kept(e)
        BY <2>2, <1>3 DEF TapInv, TypeOK, Numbered
      <4>2. r = Reached(j)
        BY <2>2, <1>1, ReachedStep
      <4> QED BY <4>1, <4>2
    <3>2. Content(e, got[e.viewer], r)
      BY <3>1 DEF SendInv, ContentInv
    <3>3. e.viewer # None => h = got[e.viewer] /\ SentUnits(h)
      <4> SUFFICES ASSUME e.viewer # None PROVE h = got[e.viewer] /\ SentUnits(h)
        OBVIOUS
      <4>1. e.viewer \in Viewers
        BY <3>1 DEF TapClients
      <4>2. e.viewer # Cur.viewer
        BY <4>1, <3>1, <2>2, <1>1 DEF TapInv, Descriptors
      <4> QED BY <4>1, <4>2, <1>6 DEF SendInv, SentWell
    <3>4. Content(e, h, r)
      <4>1. CASE e.viewer = None
        BY <4>1, <3>2 DEF Content
      <4>2. CASE e.viewer # None
        BY <4>2, <3>2, <3>3
      <4> QED BY <4>1, <4>2
    <3> QED BY <3>1, <3>3, <3>4, <1>4, ContentLasts
  <2> QED BY <2>1, <2>2
<1>9. Fresh'
  <2> SUFFICES ASSUME NEW v \in Viewers, fd'[v] = "none" \/ InHand(v)' PROVE got'[v] = <<>>
    BY DEF Fresh
  <2>1. InHand(v)' <=> InHand(v)
    BY <1>3 DEF InHand
  <2>2. fd \in [Viewers -> {"none", "open", "closed"}]
    BY DEF TapInv, TypeOK
  <2>3. v # Cur.viewer
    <3> SUFFICES ASSUME v = Cur.viewer PROVE FALSE
      OBVIOUS
    <3>1. Holds(v)
      BY <1>1 DEF Holds
    <3>2. fd[v] = "open" /\ ~InHand(v)
      BY <3>1 DEF TapInv, Descriptors
    <3>3. fd'[v] \in {"open", "closed"}
      BY <3>2, <2>2 DEF SlotStep, Keeps, Closes
    <3> QED BY <3>2, <3>3, <2>1
  <2>4. fd'[v] = fd[v]
    BY <2>2, <2>3 DEF SlotStep, Keeps, Closes
  <2> QED BY <2>1, <2>3, <2>4, <1>6 DEF SendInv, Fresh
<1>10. ParamsInv'
  <2>1. \A s \in Sids :
          /\ params'[s].sps # 0 => units'[params'[s].sps].first = "sps"
          /\ params'[s].pps # 0 => units'[params'[s].pps].first = "pps"
    BY <1>3 DEF SendInv, ParamsInv
  <2>2. ASSUME NEW j \in Slots, slot'[j].viewer # None
        PROVE  params'[slot'[j].sid] =
                 IF Waits(j)' THEN Cached(slot'[j].params, Unit', Number') ELSE slot'[j].params
    <3>1. CASE j = i
      <4>1. ~Waits(j)'
        BY <1>1, <3>1, ReachedStep
      <4> QED BY <4>1, <2>2, <3>1, <1>3
    <3>2. CASE j # i
      <4>1. Waits(j)' <=> Waits(j)
        BY <1>1, <3>2, ReachedStep
      <4>2. slot'[j] = slot[j]
        BY <3>2, <1>3
      <4>3. params[slot[j].sid] =
              IF Waits(j) THEN Cached(slot[j].params, Unit, Number) ELSE slot[j].params
        BY <4>2, <2>2 DEF SendInv, ParamsInv
      <4> QED BY <4>1, <4>2, <4>3, <1>3
    <3> QED BY <3>1, <3>2
  <2>3. ASSUME ingest'.at = "new", Cur'.viewer # None PROVE Cur'.sid = Unit'.sid
    <3>1. ingest'.i = i /\ ~NextSlot
      BY <2>3, <1>1, ReachedStep
    <3>2. Cur' = d
      BY <3>1, <1>3 DEF Cur
    <3> QED BY <3>1, <3>2, <2>3, <1>3
  <2> QED BY <2>1, <2>2, <2>3 DEF ParamsInv
<1> QED BY <1>7, <1>8, <1>9, <1>10 DEF SendInv

-----------------------------------------------------------------------------
(* The steps of a publication.                                             *)

LEMMA PendingOf ==
  ASSUME TapInv, SendInv, ingest.i # 0, NEW c, Loaded(c), NEW n,
         Content(c, got[c.viewer], n)
  PROVE  Pending(c, got[c.viewer], n) /\ c \in TapClients /\ c.viewer \in Viewers /\ Kept(c) /\ Begun(c)
<1>1. c \in TapClients /\ c.viewer \in Viewers /\ Kept(c) /\ Begun(c) /\ c.buf # <<>>
  BY DEF Loaded
<1>2. SentUnits(got[c.viewer]) /\ Starts(got[c.viewer]) /\ Ordered(got[c.viewer])
  BY <1>1 DEF SendInv, SentWell
<1> QED BY <1>1, <1>2, AgentAssumption DEF Pending

LEMMA FlushAllSends ==
  ASSUME TapInv, SendInv, ingest.i # 0, NEW c, Loaded(c), PublishQuiet,
         NEW n \in Int, n <= Number, Content(c, got[c.viewer], n),
         c.sid = Unit.sid, params[c.sid] = c.params,
         FlushAll(c, "old", ingest.i + 1) \/ (FlushAll(c, "new", ingest.i) /\ n <= Number - 1)
  PROVE  SendInv'
<1>1. PICK g : g = got[c.viewer]
  OBVIOUS
<1>2. Pending(c, g, n) /\ c \in TapClients /\ c.viewer \in Viewers /\ Kept(c) /\ Begun(c)
      /\ c.viewer = Cur.viewer /\ c.buf # <<>>
  BY <1>1, PendingOf DEF Loaded
<1>3. PICK k \in Nat : k = Len(c.buf) /\ k <= Len(c.buf) /\ Len(c.buf) <= k /\ k \in 0 .. Len(c.buf)
  <2>1. Len(c.buf) \in Nat
    BY <1>2, NewestIs
  <2> QED BY <2>1
<1>4. PICK torn \in BOOLEAN : torn = FALSE
  OBVIOUS
<1>5. PICK T : T = got'[c.viewer]
  OBVIOUS
<1>6. SlotStep(Flushed(c)) /\ T = Sent(c, k, torn)
  BY <1>3, <1>4, <1>5, FlushAllStep
<1>7. Continues(T, g, c, k, torn)
  BY <1>1, <1>2, <1>3, <1>4, <1>6, SentContinues
<1>8. SentUnits(T) /\ Starts(T) /\ Ordered(T)
  BY <1>2, <1>7, ContinuesUnits, ContinuesStarts, ContinuesOrdered
<1>9. Content(Flushed(c), T, n)
  BY <1>2, <1>3, <1>4, <1>7, FlushedContent
<1>10. PICK d \in TapClients :
         d = Flushed(c) /\ Kept(d) /\ d.params = c.params /\ d.sid = c.sid /\ d.viewer = c.viewer
  <2>1. /\ Flushed(c) \in TapClients /\ Flushed(c).params = c.params /\ Flushed(c).sid = c.sid
        /\ Flushed(c).buf = <<>> /\ Flushed(c).viewer = c.viewer
    BY <1>2, FlushedIs
  <2>2. Kept(Flushed(c))
    BY <2>1, <1>2 DEF Kept
  <2> QED BY <2>1, <2>2
<1>11. NextSlot \/ n <= Number - 1
  BY DEF FlushAll, NextSlot
<1>12. T = got'[Cur.viewer] /\ WellSent(T)
  BY <1>2, <1>5, <1>8 DEF WellSent
<1> QED BY <1>6, <1>9, <1>10, <1>11, <1>12, SendStep

LEMMA FlushSomeSends ==
  ASSUME TapInv, SendInv, ingest.i # 0, NEW c, Loaded(c), PublishQuiet,
         NEW n \in Int, n <= Number, Content(c, got[c.viewer], n),
         c.sid = Unit.sid, params[c.sid] = c.params, FlushSome(c)
  PROVE  SendInv'
<1>1. PICK g : g = got[c.viewer]
  OBVIOUS
<1>2. Pending(c, g, n) /\ c \in TapClients /\ c.viewer \in Viewers /\ Kept(c) /\ Begun(c)
      /\ c.viewer = Cur.viewer /\ c.buf # <<>>
  BY <1>1, PendingOf DEF Loaded
<1>3. PICK k \in 0 .. Len(c.buf) - 1, torn \in BOOLEAN :
        SlotStep(Rest(c, k, torn)) /\ got'[c.viewer] = Sent(c, k, torn)
  BY FlushSomeStep
<1>4. k \in Nat /\ k < Len(c.buf) /\ k \in 0 .. Len(c.buf)
  <2>1. Len(c.buf) \in Nat
    BY <1>2, NewestIs
  <2> QED BY <2>1
<1>5. PICK T : T = got'[c.viewer]
  OBVIOUS
<1>6. Continues(T, g, c, k, torn)
  BY <1>1, <1>2, <1>3, <1>4, <1>5, SentContinues
<1>7. SentUnits(T) /\ Starts(T) /\ Ordered(T)
  BY <1>2, <1>4, <1>6, ContinuesUnits, ContinuesStarts, ContinuesOrdered
<1>8. Content(Rest(c, k, torn), T, n)
  BY <1>2, <1>4, <1>6, RestContent
<1>9. PICK d \in TapClients :
        /\ d = Rest(c, k, torn) /\ Kept(d) /\ d.params = c.params /\ d.sid = c.sid
        /\ d.viewer = c.viewer
  BY <1>2, RestIs
<1>10. NextSlot
  BY DEF FlushSome
<1>11. T = got'[Cur.viewer] /\ WellSent(T)
  BY <1>2, <1>5, <1>7 DEF WellSent
<1> QED BY <1>3, <1>8, <1>9, <1>10, <1>11, SendStep

(* A step that sends nothing. *)
LEMMA QuietSends ==
  ASSUME TapInv, SendInv, ingest.i # 0, NEW d \in TapClients, Kept(d), SlotStep(d), got' = got,
         NEW n \in Int, n <= Number, Content(d, got[Cur.viewer], n),
         NextSlot \/ (n <= Number - 1 /\ (d.viewer # None => d.sid = Unit.sid)),
         d.viewer # None => params[d.sid] = d.params
  PROVE  SendInv'
<1>1. PICK T : T = got[Cur.viewer]
  OBVIOUS
<1>2. Cur.viewer # None => T = got'[Cur.viewer] /\ WellSent(T)
  BY <1>1, CurContent DEF WellSent
<1> QED BY <1>1, <1>2, SendStep

LEMMA FlushFailsSends ==
  ASSUME TapInv, SendInv, ingest.i # 0, NEW c, Loaded(c), PublishQuiet,
         FlushFails(c, "old", ingest.i + 1) \/ FlushFails(c, "new", ingest.i)
  PROVE  SendInv'
<1>1. SlotStep(FreeSlot) /\ got' = got
  BY FlushFailsStep
<1>2. FreeSlot \in TapClients /\ Kept(FreeSlot) /\ FreeSlot.viewer = None
  BY FreeSlotIs
<1>3. PICK n \in Int : n = Number - 1 /\ n <= Number
  <2>1. Number \in Nat
    BY InPublication
  <2> QED BY <2>1
<1>4. Content(FreeSlot, got[Cur.viewer], n)
  BY <1>2 DEF Content, Vacant, FreeSlot
<1> QED BY <1>1, <1>2, <1>3, <1>4, QuietSends

LEMMA SkipSends ==
  ASSUME TapInv, SendInv, SkipSlot \/ SkipUnit
  PROVE  SendInv'
<1>1. ingest.i # 0 /\ NextSlot /\ PublishQuiet /\ UNCHANGED <<fd, slot, got>>
      /\ ~(ingest.at = "old" /\ Cur.sid = Unit.sid)
  BY PublishActive DEF SkipSlot, SkipUnit
<1>2. PICK d \in TapClients : d = Cur /\ Kept(d)
  BY <1>1, InPublication
<1>3. SlotStep(d)
  BY <1>1, <1>2, SkipStep
<1>4. PICK n \in Int : n = Number - 1 /\ n <= Number
  <2>1. Number \in Nat
    BY <1>1, InPublication
  <2> QED BY <2>1
<1>5. Content(d, got[Cur.viewer], n) /\ (d.viewer # None => params[d.sid] = d.params)
  BY <1>1, <1>2, <1>4, CurContent
<1> QED BY <1>1, <1>2, <1>3, <1>4, <1>5, QuietSends

(* What is pending in the slot of a viewer whose stream the unit is of.    *)
LEMMA WithParamsContent ==
  ASSUME TapInv, SendInv, ingest.at = "old", ingest.i # 0, Cur.sid = Unit.sid
  PROVE  /\ Cur.viewer # None /\ params[Cur.sid] = WithParams.params
         /\ WithParams.viewer = Cur.viewer /\ WithParams.sid = Cur.sid
         /\ Content(WithParams, got[Cur.viewer], Number - 1)
<1>1. Cur \in TapClients /\ Cur.viewer # None
  BY InPublication, AgentAssumption
<1>2. PICK p \in UnitSets : WithParams = [Cur EXCEPT !.params = p] /\ p = Cached(Cur.params, Unit, Number)
  BY WithParamsIs
<1>3. PICK c \in TapClients : c = Cur
  BY <1>1
<1>4. PICK d : /\ d = WithParams /\ d.viewer = c.viewer /\ d.buf = c.buf /\ d.begun = c.begun
               /\ d.own = c.own /\ d.needIdr = c.needIdr /\ d.pendingIdr = c.pendingIdr
               /\ d.gaveUp = c.gaveUp /\ d.sid = c.sid /\ d.params = p
  BY <1>2, <1>3 DEF TapClients
<1>5. Content(c, got[c.viewer], Number - 1) /\ params[c.sid] = p
  BY <1>1, <1>2, <1>3, CurContent
<1>6. Content(d, got[c.viewer], Number - 1)
  BY <1>1, <1>3, <1>4, <1>5, ContentSame
<1> QED BY <1>1, <1>3, <1>4, <1>5, <1>6

LEMMA NothingPendingSends == ASSUME TapInv, SendInv, NothingPending PROVE SendInv'
<1>1. ingest.i # 0 /\ ingest.at = "old" /\ Cur.sid = Unit.sid
  BY PublishActive DEF NothingPending
<1>2. PICK d \in TapClients : d = WithParams /\ Kept(d)
  BY <1>1, WithParamsIs
<1>3. PICK n \in Int : n = Number - 1 /\ n <= Number
  <2>1. Number \in Nat
    BY <1>1, InPublication
  <2> QED BY <2>1
<1>4. SlotStep(d) /\ got' = got
  BY <1>2, NothingPendingStep
<1>5. /\ Content(d, got[Cur.viewer], n) /\ params[d.sid] = d.params /\ d.sid = Unit.sid
  BY <1>1, <1>2, <1>3, WithParamsContent
<1> QED BY <1>1, <1>2, <1>3, <1>4, <1>5, QuietSends

LEMMA DropPendingSends == ASSUME TapInv, SendInv, DropPending PROVE SendInv'
<1>1. ingest.i # 0 /\ ingest.at = "old" /\ Cur.sid = Unit.sid
  BY PublishActive DEF DropPending
<1>2. PICK d \in TapClients :
        d = Dropped /\ Kept(d) /\ d.sid = Cur.sid /\ d.params = WithParams.params
  BY <1>1, DroppedIs
<1>3. PICK n \in Int : n = Number - 1 /\ n <= Number
  <2>1. Number \in Nat
    BY <1>1, InPublication
  <2> QED BY <2>1
<1>4. SlotStep(d) /\ got' = got
  BY <1>2, DropPendingStep
<1>5. Cur.viewer # None /\ params[Cur.sid] = WithParams.params
  BY <1>1, WithParamsContent
<1>6. Content(d, got[Cur.viewer], n)
  BY <1>1, <1>2, <1>3, <1>5, DroppedContent
<1> QED BY <1>1, <1>2, <1>3, <1>4, <1>5, <1>6, QuietSends

LEMMA FlushPendingSends == ASSUME TapInv, SendInv, FlushPending PROVE SendInv'
<1>1. ingest.i # 0 /\ ingest.at = "old" /\ Cur.sid = Unit.sid /\ PublishQuiet /\ Loaded(WithParams)
  BY PublishActive, LoadedParams DEF FlushPending
<1>2. PICK c : c = WithParams
  OBVIOUS
<1>3. PICK n \in Int : n = Number - 1 /\ n <= Number
  <2>1. Number \in Nat
    BY <1>1, InPublication
  <2> QED BY <2>1
<1>4. Content(c, got[c.viewer], n) /\ params[c.sid] = c.params /\ c.sid = Unit.sid
  BY <1>1, <1>2, <1>3, WithParamsContent
<1>5. CASE FlushAll(c, "new", ingest.i)
  BY <1>1, <1>2, <1>3, <1>4, <1>5, FlushAllSends
<1>6. CASE FlushSome(c)
  BY <1>1, <1>2, <1>3, <1>4, <1>6, FlushSomeSends
<1>7. CASE FlushFails(c, "new", ingest.i)
  BY <1>1, <1>2, <1>7, FlushFailsSends
<1> QED BY <1>2, <1>5, <1>6, <1>7 DEF FlushPending

LEMMA SendUnitSends == ASSUME TapInv, SendInv, SendUnit PROVE SendInv'
<1>1. ingest.i # 0 /\ ingest.at = "new" /\ PublishQuiet /\ (Cur.needIdr => Unit.idr)
  BY PublishActive DEF SendUnit
<1>2. PICK c \in TapClients :
        /\ c = Assembled /\ Kept(c) /\ c.viewer = Cur.viewer /\ c.sid = Cur.sid
        /\ c.params = Cur.params
  BY <1>1, AssembledIs
<1>3. PICK n \in Int : n = Number /\ n <= Number
  <2>1. Number \in Nat
    BY <1>1, InPublication
  <2> QED BY <2>1
<1>4. Content(c, got[Cur.viewer], n)
  BY <1>1, <1>2, <1>3, AssembledContent
<1>5. CASE Cur.viewer = None
  <2>1. SlotStep(c) /\ got' = got /\ NextSlot
    BY <1>1, <1>2, <1>5, FillVacantStep DEF SendUnit
  <2> QED BY <1>1, <1>2, <1>3, <1>4, <1>5, <2>1, QuietSends
<1>6. CASE Cur.viewer # None
  <2>1. Loaded(c) /\ c.sid = Unit.sid /\ params[c.sid] = c.params
    BY <1>1, <1>2, <1>6, LoadedAssembled, CurContent
  <2>2. CASE FlushAll(c, "old", ingest.i + 1)
    BY <1>1, <1>2, <1>3, <1>4, <2>1, <2>2, FlushAllSends
  <2>3. CASE FlushSome(c)
    BY <1>1, <1>2, <1>3, <1>4, <2>1, <2>3, FlushSomeSends
  <2>4. CASE FlushFails(c, "old", ingest.i + 1)
    BY <1>1, <2>1, <2>4, FlushFailsSends
  <2> QED BY <1>2, <1>6, <2>2, <2>3, <2>4 DEF SendUnit
<1> QED BY <1>5, <1>6

LEMMA PublishSends == ASSUME TapInv, SendInv, Publish PROVE SendInv'
  BY SkipSends, NothingPendingSends, DropPendingSends, FlushPendingSends, SendUnitSends DEF Publish

-----------------------------------------------------------------------------
(* The other steps.                                                        *)

LEMMA LengthType == TapInv => Len(units) \in Nat
  BY DEF TapInv, TypeOK

(* A step that publishes and sends nothing. *)
LEMMA KeptSends ==
  ASSUME TapInv, SendInv, UNCHANGED <<slot, params, units, got>>,
         ingest'.i = ingest.i, ingest'.at = ingest.at \/ (ingest.i = 0 /\ ingest'.at = "recv"),
         \A v \in Viewers : fd'[v] = "none" \/ InHand(v)' => fd[v] = "none" \/ InHand(v)
  PROVE  SendInv'
<1>1. UnitsGrow
  BY LengthType DEF UnitsGrow
<1>2. SentWell'
  <2> SUFFICES ASSUME NEW v \in Viewers, NEW h, h = got[v]
               PROVE  SentUnits(h)' /\ Starts(h)' /\ Ordered(h)'
    BY DEF SentWell
  <2>1. SentUnits(h) /\ Starts(h) /\ Ordered(h)
    BY DEF SendInv, SentWell
  <2> QED BY <2>1, <1>1, SentLasts
<1>3. ContentInv'
  <2> SUFFICES ASSUME NEW j \in Slots, NEW e, e = slot[j], NEW h, h = got[e.viewer],
                      NEW r, r = Reached(j)'
               PROVE  Content(e, h, r)'
    BY DEF ContentInv
  <2>1. r = Reached(j)
    BY DEF Reached
  <2>2. e \in TapClients /\ Kept(e) /\ Content(e, h, r)
    BY <2>1 DEF TapInv, TypeOK, Numbered, SendInv, ContentInv
  <2>3. e.viewer # None => SentUnits(h)
    BY <2>2 DEF TapClients, SendInv, SentWell
  <2> QED BY <2>2, <2>3, <1>1, ContentLasts
<1>4. Fresh'
  BY DEF SendInv, Fresh
<1>5. ParamsInv'
  <2>1. Unit' = Unit /\ Number' = Number
    BY DEF Unit, Number
  <2>2. \A i \in Slots : Waits(i)' <=> Waits(i)
    BY <2>1 DEF Waits
  <2>3. ingest'.at = "new" => ingest.at = "new" /\ Cur' = Cur
    BY DEF Cur
  <2> QED BY <2>1, <2>2, <2>3 DEF SendInv, ParamsInv
<1> QED BY <1>2, <1>3, <1>4, <1>5 DEF SendInv

LEMMA ConfigureSends == ASSUME TapInv, SendInv, Configure PROVE SendInv'
<1>1. ingest \in [at : {"boot", "recv", "old", "new"}, i : Slots \cup {0}]
  BY DEF TapInv, TypeOK
<1>2. UNCHANGED <<acceptor, fd, slot, params, units, got>> /\ ingest.i = 0
      /\ ingest'.at = "recv" /\ ingest'.i = ingest.i
  BY <1>1 DEF Configure, tapVars, TapInv, TypeOK
<1>3. \A v \in Viewers : InHand(v)' <=> InHand(v)
  BY <1>2 DEF InHand
<1> QED BY <1>2, <1>3, KeptSends

LEMMA ViewerSends ==
  ASSUME TapInv, SendInv, NEW v \in Viewers, Connect(v) \/ Leave(v) PROVE SendInv'
<1>1. UNCHANGED <<acceptor, fd, slot, params, ingest, units, got>>
  BY ViewerStep
<1>2. \A w \in Viewers : InHand(w)' <=> InHand(w)
  BY <1>1 DEF InHand
<1> QED BY <1>1, <1>2, KeptSends

LEMMA AcceptSends == ASSUME TapInv, SendInv, Accept PROVE SendInv'
<1>1. PICK v \in Viewers :
        /\ fd[v] = "none" /\ fd' = [fd EXCEPT ![v] = "open"]
        /\ acceptor' = [at |-> "handshake", viewer |-> v, sid |-> 0,
                        authed |-> ~(Token /\ ingest.at # "boot")]
  BY DEF Accept
<1>2. UNCHANGED <<slot, params, ingest, units, got>>
  BY DEF Accept, AcceptQuiet, ingestVars
<1>3. ASSUME NEW w \in Viewers, fd'[w] = "none" \/ InHand(w)' PROVE fd[w] = "none" \/ InHand(w)
  <2>1. acceptor'.viewer = v
    BY <1>1
  <2>2. CASE w = v
    BY <2>2, <1>1
  <2>3. CASE w # v
    <3>1. fd'[w] = fd[w] /\ ~InHand(w)'
      BY <2>1, <2>3, <1>1 DEF InHand, TapInv, TypeOK
    <3> QED BY <3>1, <1>3
  <2> QED BY <2>2, <2>3
<1> QED BY <1>2, <1>3, KeptSends

(* The steps that keep the viewer in hand, and those that let it go. *)
LEMMA HandSends ==
  ASSUME TapInv, SendInv, ReadLine \/ HandshakeEnds \/ Deadline \/ AskForIdr \/ CloseRefused
  PROVE  SendInv'
<1>1. UNCHANGED <<slot, params, ingest, units, got>>
  BY DEF ReadLine, HandshakeEnds, Deadline, AskForIdr, CloseRefused, AcceptQuiet, ingestVars
<1>2. fd \in [Viewers -> {"none", "open", "closed"}]
  BY DEF TapInv, TypeOK
<1>3. \A w \in Viewers : fd'[w] = "none" => fd[w] = "none"
  BY <1>2 DEF ReadLine, HandshakeEnds, Deadline, AskForIdr, CloseRefused
<1>4. ASSUME NEW w \in Viewers, InHand(w)' PROVE InHand(w)
  <2>1. CASE AskForIdr \/ CloseRefused
    <3>1. acceptor' = AtAccept
      BY <2>1 DEF AskForIdr, CloseRefused
    <3> QED BY <3>1, <1>4 DEF AtAccept, InHand
  <2>2. CASE ReadLine \/ HandshakeEnds \/ Deadline
    <3>1. acceptor.at = "handshake"
      BY <2>2 DEF ReadLine, HandshakeEnds, Deadline
    <3>2. acceptor'.viewer = acceptor.viewer
      <4>1. CASE ReadLine
        BY <4>1, AcceptorType DEF ReadLine, Refuse
      <4>2. CASE HandshakeEnds \/ Deadline
        BY <4>2, AcceptorType DEF HandshakeEnds, Deadline, Refuse
      <4> QED BY <2>2, <4>1, <4>2
    <3> QED BY <3>1, <3>2, <1>4 DEF InHand
  <2> QED BY <2>1, <2>2
<1> QED BY <1>1, <1>3, <1>4, KeptSends

(* A viewer that gets a slot has been sent nothing so far. *)
LEMMA OccupiedContent ==
  ASSUME TapInv, SendInv, acceptor.at = "place",
         NEW c \in TapClients, Kept(c), c.viewer = None, Begun(c), Vacant(c),
         NEW n, \A j \in DOMAIN c.buf : c.buf[j] <= n
  PROVE  /\ Content(Occupied(c), got[acceptor.viewer], n)
         /\ Occupied(c).params = params[acceptor.sid]
<1>1. PICK a \in Viewers : a = acceptor.viewer
  BY AcceptorType
<1>2. got[a] = <<>>
  BY <1>1 DEF InHand, SendInv, Fresh
<1>3. PICK o \in TapClients :
        /\ o = Occupied(c) /\ o.viewer = a /\ o.needIdr = TRUE /\ o.buf = c.buf /\ o.own = c.own
        /\ o.pendingIdr = c.pendingIdr /\ o.gaveUp = c.gaveUp
  BY <1>1, OccupiedIs
<1>4. /\ o.own = None /\ o.viewer # None /\ ~o.pendingIdr /\ ~o.gaveUp /\ DOMAIN got[a] = {}
  BY <1>2, <1>3, AgentAssumption DEF Vacant
<1>5. Filled(o, got[a]) /\ Follows(o, got[a]) /\ WaitsRightly(o, got[a])
  BY <1>3, <1>4 DEF Filled, Inherited, Follows, WaitsRightly
<1>6. Content(o, got[a], n)
  BY <1>3, <1>4, <1>5 DEF Content
<1>7. Occupied(c).params = params[acceptor.sid]
  <2>1. PICK known \in UnitSets : known = params[acceptor.sid]
    BY DEF TapInv, Stages, Numbered
  <2>2. c.params = NoParams
    BY DEF Vacant
  <2>3. Occupied(c).params = [sps |-> IF known.sps # 0 THEN known.sps ELSE c.params.sps,
                              pps |-> IF known.pps # 0 THEN known.pps ELSE c.params.pps]
    BY <2>1, OccupiedIs
  <2>4. Occupied(c).params = [sps |-> known.sps, pps |-> known.pps]
    BY <2>2, <2>3 DEF NoParams
  <2> QED BY <2>1, <2>4 DEF UnitSets
<1> QED BY <1>1, <1>3, <1>6, <1>7

LEMMA PlaceSends == ASSUME TapInv, SendInv, Place PROVE SendInv'
<1>1. /\ UNCHANGED <<viewer, params, ingest, units, got>> /\ acceptor.at = "place" /\ ingest.i = 0
      /\ fd' = [v \in Viewers |->
                 IF \E i \in Slots : Dead(i) /\ slot[i].viewer = v THEN "closed" ELSE fd[v]]
  BY DEF Place, AcceptQuiet, ingestVars, LockFree
<1>2. PICK f : Placed(f)
  BY PlaceIs
<1>3. UnitsGrow
  BY <1>1, LengthType DEF UnitsGrow
<1>4. \A j \in Slots : Reached(j)' = Reached(j) /\ ~Waits(j) /\ ~Waits(j)'
  BY <1>1 DEF Reached, Waits, Slots
<1>5. ASSUME NEW j \in Slots
      PROVE  /\ Pruned[j].viewer = None => Vacant(Pruned[j])
             /\ \A x \in DOMAIN Pruned[j].buf : Pruned[j].buf[x] <= Reached(j)
             /\ Pruned[j].viewer # None =>
                  Pruned[j] = slot[j] /\ params[slot[j].sid] = slot[j].params
  <2>1. CASE Dead(j)
    <3>1. Pruned[j] = FreeSlot /\ FreeSlot.viewer = None /\ FreeSlot.buf = <<>>
      BY <2>1, PrunedIs, FreeSlotIs
    <3> QED BY <3>1 DEF Vacant, FreeSlot
  <2>2. CASE ~Dead(j)
    <3>1. Pruned[j] = slot[j] /\ Content(slot[j], got[slot[j].viewer], Reached(j))
      BY <2>2, PrunedIs DEF SendInv, ContentInv
    <3> QED BY <3>1, <1>4 DEF Content, SendInv, ParamsInv
  <2> QED BY <2>1, <2>2
<1>6. ASSUME f # 0
      PROVE  /\ f \in Slots /\ slot'[f].viewer = acceptor.viewer /\ slot'[f].sid = acceptor.sid
             /\ Content(slot'[f], got[acceptor.viewer], Reached(f))
             /\ slot'[f].params = params[acceptor.sid] /\ Kept(slot'[f])
  <2>1. f \in Slots /\ Pruned[f].viewer = None /\ slot'[f] = Occupied(Pruned[f])
    BY <1>2, <1>6 DEF Placed
  <2>2. PICK c \in TapClients : c = Pruned[f] /\ Kept(c) /\ Begun(c)
    BY <2>1, PrunedIs
  <2>3. Vacant(c) /\ \A x \in DOMAIN c.buf : c.buf[x] <= Reached(f)
    BY <2>1, <2>2, <1>5
  <2>4. Content(Occupied(c), got[acceptor.viewer], Reached(f)) /\ Occupied(c).params = params[acceptor.sid]
    BY <1>1, <2>1, <2>2, <2>3, OccupiedContent
  <2>5. Occupied(c).viewer = acceptor.viewer /\ Occupied(c).sid = acceptor.sid /\ Kept(Occupied(c))
    BY <1>1, <2>1, <2>2, OccupiedIs
  <2> QED BY <2>1, <2>2, <2>4, <2>5
<1>7. SentWell'
  <2> SUFFICES ASSUME NEW v \in Viewers, NEW h, h = got[v]
               PROVE  SentUnits(h)' /\ Starts(h)' /\ Ordered(h)'
    BY <1>1 DEF SentWell
  <2>1. SentUnits(h) /\ Starts(h) /\ Ordered(h)
    BY DEF SendInv, SentWell
  <2> QED BY <2>1, <1>3, SentLasts
<1>8. ContentInv'
  <2> SUFFICES ASSUME NEW j \in Slots, NEW e, e = slot'[j], NEW h, h = got[e.viewer],
                      NEW r, r = Reached(j)
               PROVE  Content(e, h, r)'
    BY <1>1, <1>4 DEF ContentInv
  <2>1. e \in TapClients /\ Kept(e) /\ Content(e, h, r)
    <3>1. CASE j = f
      <4>1. f # 0
        BY <3>1 DEF Slots
      <4>2. e \in TapClients
        BY <1>2 DEF Placed
      <4> QED BY <4>1, <4>2, <3>1, <1>6
    <3>2. CASE j # f
      <4>1. e = Pruned[j] /\ e \in TapClients /\ Kept(e)
        BY <3>2, <1>2, PrunedIs DEF Placed
      <4>2. CASE e.viewer = None
        BY <4>1, <4>2, <1>5 DEF Content
      <4>3. CASE e.viewer # None
        BY <4>1, <4>3, <1>5 DEF SendInv, ContentInv
      <4> QED BY <4>1, <4>2, <4>3
    <3> QED BY <3>1, <3>2
  <2>2. e.viewer # None => SentUnits(h)
    BY <2>1 DEF TapClients, SendInv, SentWell
  <2> QED BY <2>1, <2>2, <1>3, ContentLasts
<1>9. Fresh'
  <2> SUFFICES ASSUME NEW v \in Viewers, fd'[v] = "none" \/ InHand(v)' PROVE got[v] = <<>>
    BY <1>1 DEF Fresh
  <2>1. fd'[v] = "none" => fd[v] = "none"
    BY <1>1
  <2>2. acceptor'.viewer = acceptor.viewer
    BY <1>2, AcceptorType DEF Placed
  <2>3. InHand(v)' => InHand(v)
    BY <1>1, <2>2 DEF InHand
  <2> QED BY <2>1, <2>3 DEF SendInv, Fresh
<1>10. ParamsInv'
  <2>1. \A s \in Sids :
          /\ params'[s].sps # 0 => units'[params'[s].sps].first = "sps"
          /\ params'[s].pps # 0 => units'[params'[s].pps].first = "pps"
    BY <1>1 DEF SendInv, ParamsInv
  <2>2. ASSUME NEW j \in Slots, slot'[j].viewer # None PROVE params[slot'[j].sid] = slot'[j].params
    <3>1. CASE j = f
      <4>1. f # 0
        BY <3>1 DEF Slots
      <4> QED BY <4>1, <3>1, <1>6
    <3>2. CASE j # f
      BY <3>2, <2>2, <1>2, <1>5 DEF Placed
    <3> QED BY <3>1, <3>2
  <2>3. ingest'.at # "new"
    BY <1>1 DEF TapInv, TypeOK
  <2> QED BY <2>1, <2>2, <2>3, <1>1, <1>4 DEF ParamsInv
<1> QED BY <1>7, <1>8, <1>9, <1>10 DEF SendInv

LEMMA ReceiveVideoSends == ASSUME TapInv, SendInv, ReceiveVideo PROVE SendInv'
<1>1. /\ UNCHANGED <<acceptor, viewer, fd, slot, got>> /\ ingest.i = 0
      /\ ingest'.at = "old" /\ ingest'.i = 1
      /\ Len(units') = Len(units) + 1 /\ Len(units') \in Nat /\ Len(units) \in Nat
      /\ \A n \in 1 .. Len(units) : units'[n] = units[n]
  BY ReceiveVideoIs, LengthType
<1>2. PICK s \in Sids, u \in UnitType :
        /\ u.sid = s /\ units'[Len(units')] = u
        /\ params' = [params EXCEPT ![s] = Cached(@, u, Len(units'))]
  BY ReceiveVideoIs
<1>3. UnitsGrow
  BY <1>1 DEF UnitsGrow
<1>4. PICK N \in Nat : N = Len(units') /\ N = Number' /\ Unit' = u
  BY <1>1, <1>2 DEF Number, Unit
<1>5. params \in [Sids -> ParamSets]
  BY DEF TapInv, TypeOK
<1>6. params'[s] = Cached(params[s], u, N) /\ \A z \in Sids : z # s => params'[z] = params[z]
  BY <1>2, <1>4, <1>5
<1>7. SentWell'
  <2> SUFFICES ASSUME NEW v \in Viewers, NEW h, h = got[v]
               PROVE  SentUnits(h)' /\ Starts(h)' /\ Ordered(h)'
    BY <1>1 DEF SentWell
  <2>1. SentUnits(h) /\ Starts(h) /\ Ordered(h)
    BY DEF SendInv, SentWell
  <2> QED BY <2>1, <1>3, SentLasts
<1>8. ContentInv'
  <2> SUFFICES ASSUME NEW j \in Slots, NEW e, e = slot[j], NEW h, h = got[e.viewer],
                      NEW r, r = Reached(j)'
               PROVE  Content(e, h, r)'
    BY <1>1 DEF ContentInv
  <2>1. r = Reached(j)
    <3>1. 1 \in 1 .. j /\ 0 \notin 1 .. j
      BY DEF Slots
    <3>2. r = Len(units') - 1 /\ Reached(j) = Len(units)
      BY <3>1, <1>1 DEF Reached
    <3> QED BY <3>2, <1>1
  <2>2. e \in TapClients /\ Kept(e) /\ Content(e, h, r)
    BY <2>1 DEF TapInv, TypeOK, Numbered, SendInv, ContentInv
  <2>3. e.viewer # None => SentUnits(h)
    BY <2>2 DEF TapClients, SendInv, SentWell
  <2> QED BY <2>2, <2>3, <1>3, ContentLasts
<1>9. Fresh'
  BY <1>1 DEF SendInv, Fresh, InHand
<1>10. ASSUME NEW z \in Sids
       PROVE  /\ params'[z].sps # 0 => units'[params'[z].sps].first = "sps"
              /\ params'[z].pps # 0 => units'[params'[z].pps].first = "pps"
  <2>1. PICK p \in UnitSets : p = params[z]
    BY DEF TapInv, Numbered
  <2>2. /\ p.sps # 0 => units'[p.sps].first = "sps"
        /\ p.pps # 0 => units'[p.pps].first = "pps"
    <3>1. p.sps \in 0 .. Len(units) /\ p.pps \in 0 .. Len(units)
      BY DEF UnitSets
    <3>2. /\ p.sps # 0 => p.sps \in 1 .. Len(units)
          /\ p.pps # 0 => p.pps \in 1 .. Len(units)
      BY <3>1, <1>1
    <3>3. /\ p.sps # 0 => units[p.sps].first = "sps"
          /\ p.pps # 0 => units[p.pps].first = "pps"
      BY <2>1 DEF SendInv, ParamsInv
    <3> QED BY <3>2, <3>3, <1>1
  <2>3. CASE z = s
    <3>1. params'[z] = Cached(p, u, N) /\ u.first \in {"sps", "pps", "slice"} /\ units'[N] = u
      BY <2>1, <2>3, <1>2, <1>4, <1>6 DEF UnitType
    <3>2. CASE u.first = "sps"
      <4>1. params'[z] = [p EXCEPT !.sps = N]
        BY <3>1, <3>2 DEF Cached
      <4> QED BY <4>1, <3>1, <3>2, <2>2 DEF UnitSets
    <3>3. CASE u.first = "pps"
      <4>1. params'[z] = [p EXCEPT !.pps = N]
        BY <3>1, <3>3 DEF Cached
      <4> QED BY <4>1, <3>1, <3>3, <2>2 DEF UnitSets
    <3>4. CASE u.first = "slice"
      <4>1. params'[z] = p
        BY <3>1, <3>4 DEF Cached
      <4> QED BY <4>1, <2>2
    <3> QED BY <3>1, <3>2, <3>3, <3>4
  <2>4. CASE z # s
    BY <2>1, <2>2, <2>4, <1>6
  <2> QED BY <2>3, <2>4
<1>11. ASSUME NEW j \in Slots, slot[j].viewer # None
       PROVE  params'[slot[j].sid] =
                IF Waits(j)' THEN Cached(slot[j].params, Unit', Number') ELSE slot[j].params
  <2>1. params[slot[j].sid] = slot[j].params /\ slot[j].sid \in Sids
    <3>1. ~Waits(j)
      BY <1>1 DEF Waits
    <3> QED BY <3>1, <1>11 DEF SendInv, ParamsInv, TapInv, TypeOK, TapClients
  <2>2. Waits(j)' <=> slot[j].sid = s
    <3>1. 1 < j \/ 1 = j
      BY DEF Slots
    <3> QED BY <3>1, <1>1, <1>2, <1>4 DEF Waits
  <2> QED BY <2>1, <2>2, <1>4, <1>6
<1>12. ParamsInv'
  BY <1>1, <1>10, <1>11 DEF ParamsInv
<1> QED BY <1>7, <1>8, <1>9, <1>12 DEF SendInv

LEMMA InitSendInv == Init => SendInv
<1> SUFFICES ASSUME Init PROVE SendInv
  OBVIOUS
<1>1. ContentInv
  BY DEF Init, ContentInv, Content, FreeSlot, Vacant
<1>2. SentWell
  BY DEF Init, SentWell, SentUnits, Starts, Ordered
<1>3. Fresh
  BY DEF Init, Fresh
<1>4. ParamsInv
  BY DEF Init, ParamsInv, NoParams, FreeSlot, Waits
<1> QED BY <1>1, <1>2, <1>3, <1>4 DEF SendInv

LEMMA StepSendInv == ASSUME TapInv, SendInv, [Next]_vars PROVE SendInv'
<1>1. CASE UNCHANGED vars
  <2>1. UNCHANGED <<acceptor, viewer, fd, slot, params, ingest, units, got>>
    BY <1>1 DEF vars, tapVars, ingestVars
  <2>2. \A w \in Viewers : InHand(w)' <=> InHand(w)
    BY <2>1 DEF InHand
  <2> QED BY <2>1, <2>2, KeptSends
<1>2. CASE Acceptor
  BY <1>2, AcceptSends, HandSends, PlaceSends DEF Acceptor
<1> QED BY <1>1, <1>2, ConfigureSends, ViewerSends, ReceiveVideoSends, PublishSends DEF Next

LEMMA AlwaysSendInv == Spec => [](TapInv /\ SendInv)
<1>1. Init => TapInv /\ SendInv
  BY InitTapInv, InitSendInv
<1>2. TapInv /\ SendInv /\ [Next]_vars => (TapInv /\ SendInv)'
  BY StepTapInv, StepSendInv
<1> QED BY <1>1, <1>2, PTL DEF Spec

(* For any number of viewers, slots and streams and units of every kind,   *)
(* whatever a socket takes and whenever it fails: the first picture of a   *)
(* viewer and the first behind a torn unit is an IDR, nothing is sent      *)
(* twice or out of order, and no slot is left with stale parameter sets    *)
(* (h264_tap_publish, copy_global_param_sets_to_client).                   *)
THEOREM AgentPlayable == Spec => []Playable
<1>1. ASSUME TapInv, SendInv PROVE Playable
  <2>1. ParamsCurrent
    BY <1>1 DEF ParamsCurrent, LockFree, SendInv, ParamsInv, Waits
  <2>2. StartsAtIdr /\ InOrder
    BY <1>1 DEF SendInv, SentWell, StartsAtIdr, InOrder
  <2> QED BY <2>1, <2>2 DEF Playable
<1>2. TapInv /\ SendInv => Playable
  BY <1>1
<1> QED BY <1>2, AlwaysSendInv, PTL

(* A viewer that was sent an IDR of its own whole, and nothing given up    *)
(* since, is not kept waiting for another (flush_out_buf).                 *)
THEOREM AgentRecovers == Spec => []RecoveryEnds
<1>1. SendInv => RecoveryEnds
  BY DEF SendInv, ContentInv, Content, RecoveryEnds
<1> QED BY <1>1, AlwaysSendInv, PTL

====
