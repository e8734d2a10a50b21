--------------------------- MODULE ZmqBridgeProofs ---------------------------
(***************************************************************************)
(* Theorems about the ZMQ bridge: the reference counts of the converted    *)
(* pictures, and what a reply shows, for any numbers of clients, streams   *)
(* and buffers.                                                            *)
(*                                                                         *)
(* The counts need to know who holds a picture at every stage of a         *)
(* request; that a client's slot, once found free, stays free until the    *)
(* reply; and that no two streams cache the same picture, as each picture  *)
(* names its stream.  What a reply shows needs that a cached picture is    *)
(* never of a later decoder than the stream's frame.                       *)
(***************************************************************************)
EXTENDS ZmqBridge, FiniteSetTheorems, TLAPS

(* Where the thread can be; what it works with; a buffer; a stream.        *)
Stages == {"none", "setup", "failed", "loop", "recv", "close", "clear", "ended"} \cup RequestSteps

BridgeStates ==
  [at : Stages, client : Clients \cup {None}, req : Requests \cup {None},
   place : Places \cup {None}, late : BOOLEAN, snap : Pictures \cup {None},
   frame : Buffers \cup {None}]
Pages   == [refs : Nat, picture : Pictures \cup {None}]
Streams == [colour : Colours, made : Nat, open : BOOLEAN, pts : Nat, frame : Frames \cup {None}]

(* The part of TypeOK that gives every variable its set.                   *)
BridgeType ==
  /\ running \in BOOLEAN /\ global \in BOOLEAN
  /\ main \in {"boot", "await", "run", "take", "context", "join", "destroy", "exit", "crashed"}
  /\ arg \in {"none", "live", "freed"} /\ ctx \in {"none", "open", "shut", "gone"}
  /\ bridge \in BridgeStates
  /\ cache \in [Sids -> Buffers \cup {None}]
  /\ memory \in [Buffers -> Pages]
  /\ pipe \in [Clients -> [Places -> Buffers \cup {None, Text}]]
  /\ stream \in [Sids -> Streams]

(* What the thread has in hand at every stage of a request. *)
InHand ==
  /\ bridge.at \in RequestSteps <=> bridge.req # None
  /\ bridge.at \in RequestSteps => bridge.client \in Clients
  /\ bridge.at \in {"crop", "send"} <=> bridge.frame # None
  /\ bridge.at \in {"look", "convert", "wait"} => Sid \in Sids
  /\ bridge.at \in {"convert", "crop", "send"} => bridge.snap \in Pictures
  /\ bridge.at = "convert" => bridge.snap.sid = Sid
  /\ bridge.at \in RequestSteps /\ bridge.place # None => pipe[bridge.client][bridge.place] = None

(* The main thread destroys the streams only when there is no thread. *)
Stopped == bridge.at \in {"none", "failed", "ended"}
Order ==
  /\ main = "boot" => bridge.at = "none" /\ ~global
  /\ main \in {"run", "take"} /\ ~global => Stopped
  /\ main \in {"destroy", "exit"} => Stopped

(* Those who hold a picture. *)
Same(x, y) == IF x = y THEN 1 ELSE 0
CacheHolds(c, b) == Cardinality({s \in Sids : c[s] = b})
PipesHold(p, b)  == Cardinality({m \in Clients \X Places : p[m[1]][m[2]] = b})
InCache(b) == CacheHolds(cache, b)
InPipes(b) == PipesHold(pipe, b)

(* A buffer holds a picture exactly while somebody holds it.               *)
Paired(m)  == \A b \in Buffers : m[b].refs = 0 <=> m[b].picture = None
PagesSound == Paired(memory)

(* The count of a picture is the number of its holders.                    *)
Exact ==
  \A b \in Buffers :
    memory[b].refs = InCache(b) + Same(bridge.frame, b) + InPipes(b)

(* d is the number of a decoder of a stream, and not of a later one than   *)
(* its frame's.                                                            *)
NotLater(d, context) ==
  /\ d <= context.made
  /\ context.frame # None => d <= context.frame.decoder

(* What a stream's frame and cached picture, and the frame about to be     *)
(* converted, have to do with each other.                                  *)
Decoders ==
  /\ \A s \in Sids : stream[s].frame # None => stream[s].frame.decoder <= stream[s].made
  /\ \A s \in Sids : cache[s] # None =>
       memory[cache[s]].picture.sid = s /\ NotLater(memory[cache[s]].picture.decoder, stream[s])
  /\ bridge.at = "convert" => NotLater(bridge.snap.decoder, stream[Sid])

(* What the thread has in hand is a picture of the frame it looked at.     *)
Current ==
  bridge.at \in {"crop", "send"} =>
    LET picture == memory[bridge.frame].picture
    IN  /\ [picture EXCEPT !.decoder = bridge.snap.decoder] = bridge.snap
        /\ picture.decoder <= bridge.snap.decoder

(* The inductive invariant. *)
BridgeInv == BridgeType /\ InHand /\ Order /\ PagesSound /\ Exact /\ Decoders /\ Current

-----------------------------------------------------------------------------
(* Counting those who hold a picture. *)

LEMMA Sizes ==
  /\ IsFiniteSet(Sids) /\ IsFiniteSet(Clients \X Places)
  /\ None \notin Buffers /\ Text \notin Buffers /\ None # Text
  /\ None \notin Clients /\ None \notin Places /\ None \notin Requests /\ None \notin Pictures
<1>1. IsFiniteSet(Sids) /\ IsFiniteSet(Clients) /\ IsFiniteSet(Places)
  BY BridgeAssumption DEF BridgeAssumption
<1>2. IsFiniteSet(Clients \X Places)
  BY <1>1, FS_Product
<1>3. /\ None \notin Buffers /\ Text \notin Buffers /\ Text # None
      /\ None \notin Clients /\ None \notin Places /\ None \notin Requests
      /\ None \notin Pictures
  BY BridgeAssumption DEF BridgeAssumption
<1> QED
  BY <1>1, <1>2, <1>3

(* Two sets that differ in one element at most. *)
LEMMA Recount ==
  ASSUME NEW S, IsFiniteSet(S), NEW A \in SUBSET S, NEW B \in SUBSET S, NEW x \in S,
         \A y \in S \ {x} : y \in A <=> y \in B
  PROVE  /\ Cardinality(A) \in Nat /\ Cardinality(B) \in Nat
         /\ Cardinality(B) = Cardinality(A) - (IF x \in A THEN 1 ELSE 0)
                             + (IF x \in B THEN 1 ELSE 0)
<1>1. IsFiniteSet(A) /\ IsFiniteSet(B)
  BY FS_Subset
<1>2. Cardinality(A) \in Nat /\ Cardinality(B) \in Nat
  BY <1>1, FS_CardinalityType
<1>3. CASE x \in A <=> x \in B
  <2>1. A = B
    BY <1>3
  <2> QED
    BY <1>2, <2>1
<1>4. CASE x \in A /\ x \notin B
  <2>1. B = A \ {x}
    BY <1>4
  <2>2. Cardinality(B) = Cardinality(A) - 1
    BY <1>1, <1>4, <2>1, FS_RemoveElement
  <2> QED
    BY <1>2, <1>4, <2>2
<1>5. CASE x \notin A /\ x \in B
  <2>1. B = A \cup {x}
    BY <1>5
  <2>2. Cardinality(B) = Cardinality(A) + 1
    BY <1>1, <1>5, <2>1, FS_AddElement
  <2> QED
    BY <1>2, <1>5, <2>2
<1> QED
  BY <1>3, <1>4, <1>5

(* A set counts nothing exactly when it is empty. *)
LEMMA Nobody ==
  ASSUME NEW S, IsFiniteSet(S), NEW A \in SUBSET S
  PROVE  Cardinality(A) \in Nat /\ (Cardinality(A) = 0 <=> A = {})
<1>1. IsFiniteSet(A)
  BY FS_Subset
<1> QED
  BY <1>1, FS_CardinalityType, FS_EmptySet

LEMMA CacheCount ==
  ASSUME NEW c, NEW b
  PROVE  CacheHolds(c, b) \in Nat /\ (CacheHolds(c, b) = 0 <=> \A s \in Sids : c[s] # b)
<1> DEFINE A == {s \in Sids : c[s] = b}
<1>1. A \in SUBSET Sids /\ (A = {} <=> \A s \in Sids : c[s] # b)
  OBVIOUS
<1>2. CacheHolds(c, b) = Cardinality(A)
  BY DEF CacheHolds
<1> HIDE DEF A
<1> QED
  BY <1>1, <1>2, Sizes, Nobody

LEMMA PipesCount ==
  ASSUME NEW p, NEW b
  PROVE  /\ PipesHold(p, b) \in Nat
         /\ PipesHold(p, b) = 0 <=> \A c \in Clients, i \in Places : p[c][i] # b
<1> DEFINE B == {m \in Clients \X Places : p[m[1]][m[2]] = b}
<1>1. ASSUME B = {}, NEW c \in Clients, NEW i \in Places PROVE p[c][i] # b
  <2>1. <<c, i>> \in Clients \X Places /\ <<c, i>>[1] = c /\ <<c, i>>[2] = i
    OBVIOUS
  <2> QED
    BY <1>1, <2>1
<1>2. ASSUME \A c \in Clients, i \in Places : p[c][i] # b PROVE B = {}
  BY <1>2
<1>3. B \in SUBSET (Clients \X Places)
  OBVIOUS
<1>4. PipesHold(p, b) = Cardinality(B)
  BY DEF PipesHold
<1> HIDE DEF B
<1> QED
  BY <1>1, <1>2, <1>3, <1>4, Sizes, Nobody

LEMMA CacheMoved ==
  ASSUME NEW s \in Sids, \A y \in Sids \ {s} : cache'[y] = cache[y], NEW b
  PROVE  InCache(b)' = InCache(b) - Same(cache[s], b) + Same(cache'[s], b)
<1> DEFINE A == {y \in Sids : cache[y] = b}
           B == {y \in Sids : cache'[y] = b}
<1>1. /\ A \in SUBSET Sids /\ B \in SUBSET Sids
      /\ \A y \in Sids \ {s} : y \in A <=> y \in B
      /\ (s \in A <=> cache[s] = b) /\ (s \in B <=> cache'[s] = b)
  OBVIOUS
<1>2. InCache(b) = Cardinality(A) /\ InCache(b)' = Cardinality(B)
  BY DEF InCache, CacheHolds
<1> HIDE DEF A, B
<1>3. Cardinality(B) = Cardinality(A) - (IF s \in A THEN 1 ELSE 0) + (IF s \in B THEN 1 ELSE 0)
  BY <1>1, Sizes, Recount
<1> QED
  BY <1>1, <1>2, <1>3 DEF Same

LEMMA PipesMoved ==
  ASSUME NEW c \in Clients, NEW i \in Places, NEW b,
         \A k \in Clients, j \in Places : k # c \/ j # i => pipe'[k][j] = pipe[k][j]
  PROVE  InPipes(b)' = InPipes(b) - Same(pipe[c][i], b) + Same(pipe'[c][i], b)
<1> DEFINE A == {m \in Clients \X Places : pipe[m[1]][m[2]] = b}
           B == {m \in Clients \X Places : pipe'[m[1]][m[2]] = b}
           n == <<c, i>>
<1>1. n \in Clients \X Places /\ n[1] = c /\ n[2] = i
  OBVIOUS
<1>2. ASSUME NEW m \in (Clients \X Places) \ {n} PROVE pipe'[m[1]][m[2]] = pipe[m[1]][m[2]]
  <2>1. m[1] \in Clients /\ m[2] \in Places /\ (m[1] # c \/ m[2] # i)
    BY <1>1, <1>2
  <2> QED
    BY <2>1
<1>3. /\ A \in SUBSET (Clients \X Places) /\ B \in SUBSET (Clients \X Places)
      /\ \A m \in (Clients \X Places) \ {n} : m \in A <=> m \in B
      /\ (n \in A <=> pipe[c][i] = b) /\ (n \in B <=> pipe'[c][i] = b)
  BY <1>1, <1>2
<1>4. InPipes(b) = Cardinality(A) /\ InPipes(b)' = Cardinality(B)
  BY DEF InPipes, PipesHold
<1> HIDE DEF A, B, n
<1>5. Cardinality(B) = Cardinality(A) - (IF n \in A THEN 1 ELSE 0) + (IF n \in B THEN 1 ELSE 0)
  BY <1>1, <1>3, Sizes, Recount
<1> QED
  BY <1>3, <1>4, <1>5 DEF Same

-----------------------------------------------------------------------------
(* The state of the thread. *)

LEMMA GotoIs ==
  ASSUME BridgeType, NEW a \in Stages, Goto(a)
  PROVE  /\ bridge' \in BridgeStates /\ bridge'.at = a
         /\ bridge'.client = bridge.client /\ bridge'.req = bridge.req
         /\ bridge'.place = bridge.place /\ bridge'.late = bridge.late
         /\ bridge'.snap = bridge.snap /\ bridge'.frame = bridge.frame
  BY DEF BridgeType, BridgeStates, Goto

LEMMA IdleRecord ==
  ASSUME NEW a \in Stages
  PROVE  [at |-> a, client |-> None, req |-> None, place |-> None,
          late |-> FALSE, snap |-> None, frame |-> None] \in BridgeStates
  BY DEF BridgeStates

LEMMA IdleIs ==
  ASSUME NEW a \in Stages, bridge' = [Idle EXCEPT !.at = a]
  PROVE  /\ bridge' \in BridgeStates /\ bridge'.at = a /\ bridge'.client = None
         /\ bridge'.req = None /\ bridge'.place = None /\ bridge'.snap = None
         /\ bridge'.frame = None
<1>1. bridge' = [at |-> a, client |-> None, req |-> None, place |-> None,
                 late |-> FALSE, snap |-> None, frame |-> None]
  BY DEF Idle
<1>2. bridge' \in BridgeStates
  BY <1>1, IdleRecord, Zenon
<1> QED
  BY <1>1, <1>2

LEMMA SomeHolds ==
  ASSUME NEW x \in Nat, NEW y \in Nat, NEW z \in Nat, x > 0 \/ y > 0 \/ z > 0
  PROVE  x + y + z # 0
  OBVIOUS

(* A page that somebody holds has a picture. *)
LEMMA Holding ==
  ASSUME NEW m \in [Buffers -> Pages], Paired(m), NEW c, NEW f, NEW p, NEW b \in Buffers,
         m[b].refs = CacheHolds(c, b) + Same(f, b) + PipesHold(p, b),
         \/ f = b
         \/ \E s \in Sids : c[s] = b
         \/ \E k \in Clients, i \in Places : p[k][i] = b
  PROVE  m[b].refs \in Nat \ {0} /\ m[b].picture \in Pictures
<1>1. m[b].refs \in Nat /\ m[b].picture \in Pictures \cup {None}
  BY DEF Pages
<1>2. /\ CacheHolds(c, b) \in Nat /\ PipesHold(p, b) \in Nat
      /\ CacheHolds(c, b) > 0 \/ Same(f, b) > 0 \/ PipesHold(p, b) > 0
  BY CacheCount, PipesCount DEF Same
<1>3. Same(f, b) \in Nat
  BY DEF Same
<1>4. m[b].refs # 0
  <2>1. m[b].refs = CacheHolds(c, b) + Same(f, b) + PipesHold(p, b)
    OBVIOUS
  <2> QED
    BY <1>2, <1>3, <2>1, SomeHolds
<1> QED
  BY <1>1, <1>4 DEF Paired

LEMMA HeldPicture ==
  ASSUME BridgeInv, NEW b \in Buffers,
         \/ bridge.frame = b
         \/ \E s \in Sids : cache[s] = b
         \/ \E k \in Clients, i \in Places : pipe[k][i] = b
  PROVE  memory[b].refs \in Nat \ {0} /\ memory[b].picture \in Pictures
<1>1. memory \in [Buffers -> Pages] /\ Paired(memory)
  BY DEF BridgeInv, BridgeType, PagesSound
<1>2. memory[b].refs = CacheHolds(cache, b) + Same(bridge.frame, b) + PipesHold(pipe, b)
  BY DEF BridgeInv, Exact, InCache, InPipes
<1> QED
  BY <1>1, <1>2, Holding

LEMMA HeldNext ==
  ASSUME BridgeType', PagesSound', Exact', NEW b \in Buffers,
         \/ bridge'.frame = b
         \/ \E s \in Sids : cache'[s] = b
         \/ \E k \in Clients, i \in Places : pipe'[k][i] = b
  PROVE  memory'[b].refs \in Nat \ {0} /\ memory'[b].picture \in Pictures
<1>1. memory' \in [Buffers -> Pages] /\ Paired(memory')
  BY DEF BridgeType, PagesSound, Paired
<1>2. memory'[b].refs = CacheHolds(cache', b) + Same(bridge'.frame, b) + PipesHold(pipe', b)
  BY DEF Exact, InCache, InPipes, CacheHolds, PipesHold
<1> QED
  BY <1>1, <1>2, Holding

LEMMA CachedPicture ==
  ASSUME BridgeInv, NEW s \in Sids, cache[s] # None
  PROVE  /\ cache[s] \in Buffers /\ memory[cache[s]].picture \in Pictures
         /\ memory[cache[s]].picture.decoder \in Int /\ memory[cache[s]].refs \in Nat \ {0}
<1>1. cache[s] \in Buffers
  BY DEF BridgeInv, BridgeType
<1>2. memory[cache[s]].refs \in Nat \ {0} /\ memory[cache[s]].picture \in Pictures
  BY <1>1, HeldPicture
<1> QED
  BY <1>1, <1>2 DEF Pictures

LEMMA Working0 ==
  ASSUME BridgeInv, bridge.at \in Stages \ {"none", "failed", "ended"},
         UNCHANGED mainVars
  PROVE  Order'
<1>1. ~Stopped /\ Order
  BY DEF BridgeInv, Stopped
<1>2. main # "boot" /\ ~(main \in {"run", "take"} /\ ~global) /\ main \notin {"destroy", "exit"}
  BY <1>1 DEF Order, Stopped
<1> QED
  BY <1>2 DEF Order, mainVars

(* Nobody takes or gives back a picture. *)
LEMMA CountsKept ==
  ASSUME BridgeInv, UNCHANGED <<cache, memory, pipe>>, bridge'.frame = bridge.frame
  PROVE  PagesSound' /\ Exact'
<1>1. PagesSound /\ Exact
  BY DEF BridgeInv
<1>2. \A b : InCache(b)' = InCache(b) /\ InPipes(b)' = InPipes(b)
  BY DEF InCache, InPipes, CacheHolds, PipesHold
<1> QED
  BY <1>1, <1>2 DEF PagesSound, Paired, Exact

(* A step of the thread that leaves the pictures and the streams alone. *)
LEMMA ThreadStep ==
  ASSUME BridgeInv, bridge.at \in Stages \ {"none", "failed", "ended"},
         UNCHANGED <<mainVars, cache, memory, pipe, stream>>,
         arg' \in {"none", "live", "freed"}, ctx' \in {"none", "open", "shut", "gone"},
         bridge' \in BridgeStates, InHand', bridge'.frame = bridge.frame,
         bridge'.at \in {"convert", "crop", "send"} => bridge.at \in {"convert", "crop", "send"},
         bridge'.at = "convert" => bridge.at = "convert" /\ Sid' = Sid,
         bridge'.at \in {"convert", "crop", "send"} => bridge'.snap = bridge.snap
  PROVE  BridgeInv'
<1>1. BridgeType'
  BY DEF BridgeInv, BridgeType, mainVars
<1>2. Order'
  BY Working0 DEF mainVars
<1>3. PagesSound' /\ Exact'
  BY CountsKept
<1>4. Decoders'
  <2>1. Decoders
    BY DEF BridgeInv
  <2> QED
    BY <2>1 DEF Decoders, NotLater
<1>5. Current'
  <2>1. ASSUME bridge'.at \in {"crop", "send"} PROVE bridge.at \in {"crop", "send"}
    <3>1. bridge'.frame # None
      BY <2>1 DEF InHand
    <3>2. bridge.frame # None
      BY <3>1
    <3> QED
      BY <3>2 DEF BridgeInv, InHand
  <2> QED
    BY <2>1 DEF BridgeInv, Current
<1> QED
  BY <1>1, <1>2, <1>3, <1>4, <1>5 DEF BridgeInv

LEMMA StartStep ==
  ASSUME BridgeInv, Open \/ OpenFails \/ TestRunning \/ ReceiveFails
  PROVE  BridgeInv'
<1>1. /\ UNCHANGED <<mainVars, cache, memory, pipe, stream>>
      /\ arg' \in {"none", "live", "freed"} /\ ctx' \in {"none", "open", "shut", "gone"}
      /\ bridge.at \in {"setup", "loop", "recv"}
  BY DEF Open, OpenFails, TestRunning, ReceiveFails, Mine, memoryVars, mainVars, At, BridgeInv, BridgeType
<1>2. PICK a \in {"loop", "failed", "recv", "close"} : Goto(a)
  BY DEF Open, OpenFails, TestRunning, ReceiveFails
<1>3. /\ bridge' \in BridgeStates /\ bridge'.at = a /\ bridge'.req = bridge.req
      /\ bridge'.frame = bridge.frame
  BY <1>2, GotoIs DEF BridgeInv, Stages
<1>4. bridge.at \notin RequestSteps /\ a \notin RequestSteps /\ bridge.at \in Stages
  BY <1>1 DEF RequestSteps, Stages
<1>5. InHand'
  BY <1>1, <1>3, <1>4 DEF BridgeInv, InHand, RequestSteps
<1> QED
  BY <1>1, <1>3, <1>4, <1>5, ThreadStep DEF Stages

LEMMA ReceiveStep ==
  ASSUME BridgeInv, NEW c \in Clients, Receive(c)
  PROVE  BridgeInv'
<1>1. /\ UNCHANGED <<mainVars, cache, memory, pipe, stream, arg, ctx>> /\ bridge.at = "recv"
  BY DEF Receive, Mine, memoryVars, mainVars, At
<1>2. PICK r \in Requests, place \in Places \cup {None} :
        /\ place # None => pipe[c][place] = None
        /\ bridge' = [Idle EXCEPT !.at = FirstStep(r), !.client = c, !.req = r, !.place = place]
  BY DEF Receive
<1>3. FirstStep(r) \in {"look", "text"} /\ (FirstStep(r) = "look" => Uint16(r.sid) \in Sids)
  BY DEF FirstStep
<1>4. bridge' = [at |-> FirstStep(r), client |-> c, req |-> r, place |-> place,
                 late |-> FALSE, snap |-> None, frame |-> None]
  BY <1>2 DEF Idle
<1>5. /\ bridge' \in BridgeStates /\ bridge'.at = FirstStep(r) /\ bridge'.client = c
      /\ bridge'.req = r /\ bridge'.place = place /\ bridge'.frame = None
  BY <1>3, <1>4 DEF BridgeStates, Stages, RequestSteps
<1>6. r # None
  BY Sizes
<1>7. Sid' = Uint16(r.sid)
  BY <1>5 DEF Sid
<1>8. InHand'
  BY <1>1, <1>2, <1>3, <1>5, <1>6, <1>7 DEF InHand, RequestSteps
<1>9. bridge.frame = None
  BY <1>1 DEF BridgeInv, InHand
<1> QED
  BY <1>1, <1>3, <1>5, <1>8, <1>9, ThreadStep DEF Stages, BridgeInv, BridgeType

(* The thread goes from one stage of a request to another. *)
LEMMA RequestStep ==
  ASSUME BridgeInv,
         FindNothing \/ ConvertFails \/ Retry \/ Whole
  PROVE  BridgeInv'
<1>1. /\ UNCHANGED <<mainVars, cache, memory, pipe, stream, arg, ctx>>
      /\ bridge.at \in {"look", "convert", "wait", "crop"}
  BY DEF FindNothing, ConvertFails, Retry, Whole, Working, Mine, memoryVars, mainVars, At
<1>2. PICK a \in {"giveUp", "wait", "look", "send"} :
        Goto(a) /\ (a = "send" <=> bridge.at = "crop")
  BY DEF FindNothing, ConvertFails, Retry, Whole, Working, Missed, At
<1>3. /\ bridge' \in BridgeStates /\ bridge'.at = a /\ bridge'.req = bridge.req
      /\ bridge'.client = bridge.client /\ bridge'.place = bridge.place
      /\ bridge'.snap = bridge.snap /\ bridge'.frame = bridge.frame
  BY <1>2, GotoIs DEF BridgeInv, Stages, RequestSteps
<1>4. Sid' = Sid
  BY <1>3 DEF Sid
<1>5. bridge.at \in RequestSteps /\ a \in RequestSteps
  BY <1>1 DEF RequestSteps
<1>6. InHand'
  BY <1>1, <1>2, <1>3, <1>4, <1>5 DEF BridgeInv, InHand
<1>7. arg \in {"none", "live", "freed"} /\ ctx \in {"none", "open", "shut", "gone"}
  BY DEF BridgeInv, BridgeType
<1> QED
  BY <1>1, <1>2, <1>3, <1>4, <1>5, <1>6, <1>7, ThreadStep DEF Stages

LEMMA DeadlineStep ==
  ASSUME BridgeInv, DeadlinePasses
  PROVE  BridgeInv'
<1>1. /\ UNCHANGED <<mainVars, cache, memory, pipe, stream, arg, ctx>>
      /\ bridge.at \in {"look", "convert", "wait"}
      /\ bridge' = [bridge EXCEPT !.late = TRUE] /\ bridge \in BridgeStates
  BY DEF DeadlinePasses, Mine, memoryVars, mainVars, BridgeInv, BridgeType
<1>2. /\ bridge' \in BridgeStates /\ bridge'.at = bridge.at /\ bridge'.req = bridge.req
      /\ bridge'.client = bridge.client /\ bridge'.place = bridge.place
      /\ bridge'.snap = bridge.snap /\ bridge'.frame = bridge.frame
  BY <1>1 DEF BridgeStates
<1>3. Sid' = Sid
  BY <1>2 DEF Sid
<1>4. InHand'
  BY <1>1, <1>2, <1>3 DEF BridgeInv, InHand
<1>5. arg \in {"none", "live", "freed"} /\ ctx \in {"none", "open", "shut", "gone"}
  BY DEF BridgeInv, BridgeType
<1> QED
  BY <1>1, <1>2, <1>3, <1>4, <1>5, ThreadStep DEF Stages, RequestSteps

LEMMA TerminateStep ==
  ASSUME BridgeInv, Terminate
  PROVE  BridgeInv'
<1>1. /\ UNCHANGED <<mainVars, cache, memory, pipe, stream, arg>>
      /\ bridge.at = "close" /\ ctx' = "gone" /\ Goto("clear")
  BY DEF Terminate, Mine, memoryVars, mainVars, At
<1>2. /\ bridge' \in BridgeStates /\ bridge'.at = "clear" /\ bridge'.req = bridge.req
      /\ bridge'.frame = bridge.frame
  BY <1>1, GotoIs DEF BridgeInv, Stages
<1>3. InHand'
  BY <1>1, <1>2 DEF BridgeInv, InHand, RequestSteps
<1> QED
  BY <1>1, <1>2, <1>3, ThreadStep DEF Stages, BridgeInv, BridgeType

-----------------------------------------------------------------------------
(* The server and the main thread. *)

(* Decoders and their frames come later and later. *)
LEMMA StreamStep ==
  ASSUME BridgeInv, UNCHANGED <<mainVars, arg, ctx, bridge, memoryVars, pipe>>,
         stream' \in [Sids -> Streams],
         \A s \in Sids :
           /\ stream'[s].made >= stream[s].made
           /\ stream'[s].frame # None =>
                \/ stream'[s].frame = stream[s].frame
                \/ stream'[s].frame.decoder = stream'[s].made
  PROVE  BridgeInv'
<1>1. BridgeType' /\ InHand' /\ Order' /\ Current'
  BY DEF BridgeInv, BridgeType, InHand, Order, Stopped, Current, Sid, mainVars, memoryVars
<1>2. PagesSound' /\ Exact'
  BY CountsKept DEF memoryVars
<1>3. \A s \in Sids : stream[s].made \in Int /\ stream'[s].made \in Int
  BY DEF BridgeInv, BridgeType, Streams
<1>4. ASSUME NEW s \in Sids, NEW d \in Int, NotLater(d, stream[s])
      PROVE  NotLater(d, stream'[s])
  BY <1>3, <1>4 DEF NotLater
<1>5. Decoders'
  <2>1. ASSUME NEW s \in Sids, stream'[s].frame # None
        PROVE  stream'[s].frame.decoder <= stream'[s].made
    <3>1. stream[s].frame # None => stream[s].frame.decoder <= stream[s].made
      BY DEF BridgeInv, Decoders
    <3>2. stream[s].frame # None => stream[s].frame.decoder \in Int
      BY DEF BridgeInv, BridgeType, Streams, Frames
    <3> QED
      BY <1>3, <2>1, <3>1, <3>2
  <2>2. ASSUME NEW s \in Sids, cache'[s] # None
        PROVE  /\ memory'[cache'[s]].picture.sid = s
               /\ NotLater(memory'[cache'[s]].picture.decoder, stream'[s])
    <3>1. UNCHANGED <<cache, memory>>
      BY DEF memoryVars
    <3>2. /\ memory[cache[s]].picture.sid = s /\ NotLater(memory[cache[s]].picture.decoder, stream[s])
      BY <2>2, <3>1 DEF BridgeInv, Decoders
    <3>3. memory[cache[s]].picture.decoder \in Int
      BY <2>2, <3>1, CachedPicture
    <3> QED
      BY <1>4, <3>1, <3>2, <3>3
  <2>3. ASSUME bridge'.at = "convert" PROVE NotLater(bridge'.snap.decoder, stream'[Sid'])
    <3>1. bridge.at = "convert" /\ Sid \in Sids /\ bridge.snap \in Pictures
      BY <2>3 DEF BridgeInv, InHand
    <3>2. NotLater(bridge.snap.decoder, stream[Sid]) /\ bridge.snap.decoder \in Int
      BY <3>1 DEF BridgeInv, Decoders, Pictures
    <3> QED
      BY <1>4, <3>1, <3>2 DEF Sid
  <2> QED
    BY <2>1, <2>2, <2>3 DEF Decoders
<1> QED
  BY <1>1, <1>2, <1>5 DEF BridgeInv

LEMMA StreamUpdates ==
  ASSUME NEW c \in Streams, NEW colour \in Colours, NEW n \in Nat, NEW f \in Frames \cup {None}
  PROVE  /\ [c EXCEPT !.colour = colour] \in Streams
         /\ [c EXCEPT !.made = n, !.open = TRUE, !.pts = 0] \in Streams
         /\ [c EXCEPT !.pts = n, !.frame = f] \in Streams
         /\ [c EXCEPT !.open = FALSE, !.frame = None] \in Streams
<1>1. [c EXCEPT !.colour = colour] \in Streams
  BY DEF Streams
<1>2. [c EXCEPT !.made = n, !.open = TRUE, !.pts = 0] \in Streams
  BY DEF Streams
<1>3. [c EXCEPT !.pts = n, !.frame = f] \in Streams
  BY DEF Streams
<1>4. [c EXCEPT !.open = FALSE, !.frame = None] \in Streams
  BY DEF Streams
<1> QED
  BY <1>1, <1>2, <1>3, <1>4

LEMMA OneStream ==
  ASSUME BridgeInv, UNCHANGED <<mainVars, arg, ctx, bridge, memoryVars, pipe>>,
         NEW s \in Sids, NEW d \in Streams, stream' = [stream EXCEPT ![s] = d],
         d.made >= stream[s].made,
         d.frame # None => d.frame = stream[s].frame \/ d.frame.decoder = d.made
  PROVE  BridgeInv'
<1>1. stream \in [Sids -> Streams]
  BY DEF BridgeInv, BridgeType
<1>2. stream' \in [Sids -> Streams]
  BY <1>1
<1>3. ASSUME NEW y \in Sids
      PROVE  /\ stream'[y].made >= stream[y].made
             /\ stream'[y].frame # None =>
                  \/ stream'[y].frame = stream[y].frame
                  \/ stream'[y].frame.decoder = stream'[y].made
  <2>1. CASE y = s
    BY <1>1, <2>1
  <2>2. CASE y # s
    <3>1. stream'[y] = stream[y] /\ stream[y].made \in Nat
      BY <1>1, <2>2 DEF Streams
    <3> QED
      BY <3>1
  <2> QED
    BY <2>1, <2>2
<1> QED
  BY <1>2, <1>3, StreamStep

LEMMA HandlersKeep ==
  ASSUME BridgeInv, Handlers
  PROVE  BridgeInv'
<1>1. UNCHANGED <<mainVars, arg, ctx, bridge, memoryVars, pipe>>
  BY DEF Handlers, StreamSetInfo, StreamInitDecoder, StreamDecodeVideo, StreamCloseDecoder,
         ServerStep
<1>2. PICK s \in Sids :
        StreamSetInfo(s) \/ StreamInitDecoder(s) \/ StreamDecodeVideo(s) \/ StreamCloseDecoder(s)
  BY DEF Handlers
<1>3. /\ stream \in [Sids -> Streams] /\ stream[s] \in Streams
      /\ stream[s].made \in Nat /\ stream[s].pts \in Nat /\ stream[s].colour \in Colours
  BY DEF BridgeInv, BridgeType, Streams
<1>4. CASE StreamSetInfo(s)
  <2>1. PICK colour \in Colours : stream' = [stream EXCEPT ![s].colour = colour]
    BY <1>4 DEF StreamSetInfo
  <2> DEFINE d == [stream[s] EXCEPT !.colour = colour]
  <2>2. stream' = [stream EXCEPT ![s] = d]
    BY <1>3, <2>1
  <2>3. d \in Streams
    BY <1>3, StreamUpdates
  <2>4. d.made >= stream[s].made /\ d.frame = stream[s].frame
    BY <1>3 DEF Streams
  <2> HIDE DEF d
  <2> QED
    BY <1>1, <2>2, <2>3, <2>4, OneStream
<1>5. CASE StreamInitDecoder(s)
  <2> DEFINE d == [stream[s] EXCEPT !.made = stream[s].made + 1, !.open = TRUE, !.pts = 0]
  <2>1. stream' = [stream EXCEPT ![s] = d]
    BY <1>3, <1>5 DEF StreamInitDecoder
  <2>2. d \in Streams
    BY <1>3, stream[s].made + 1 \in Nat, StreamUpdates
  <2>3. d.made >= stream[s].made /\ d.frame = stream[s].frame
    BY <1>3 DEF Streams
  <2> HIDE DEF d
  <2> QED
    BY <1>1, <2>1, <2>2, <2>3, OneStream
<1>6. CASE StreamDecodeVideo(s)
  <2>1. PICK shape \in Shapes :
          stream' = [stream EXCEPT
                  ![s].pts = @ + 1,
                  ![s].frame = [decoder |-> stream[s].made, pts |-> stream[s].pts,
                                shape |-> shape]]
    BY <1>6 DEF StreamDecodeVideo
  <2> DEFINE f == [decoder |-> stream[s].made, pts |-> stream[s].pts, shape |-> shape]
             d == [stream[s] EXCEPT !.pts = stream[s].pts + 1, !.frame = f]
  <2>2. stream' = [stream EXCEPT ![s] = d]
    BY <1>3, <2>1
  <2>3. f \in Frames /\ f.decoder = stream[s].made
    BY <1>3 DEF Frames
  <2> HIDE DEF f
  <2>4. d \in Streams
    BY <1>3, <2>3, stream[s].pts + 1 \in Nat, StreamUpdates
  <2>5. d.made >= stream[s].made /\ d.frame = f /\ d.made = stream[s].made
    BY <1>3 DEF Streams
  <2> HIDE DEF d
  <2> QED
    BY <1>1, <2>2, <2>3, <2>4, <2>5, OneStream
<1>7. CASE StreamCloseDecoder(s)
  <2> DEFINE d == [stream[s] EXCEPT !.open = FALSE, !.frame = None]
  <2>1. stream' = [stream EXCEPT ![s] = d]
    BY <1>3, <1>7 DEF StreamCloseDecoder
  <2>2. d \in Streams
    BY <1>3, StreamUpdates
  <2>3. d.made >= stream[s].made /\ d.frame = None
    BY <1>3 DEF Streams
  <2> HIDE DEF d
  <2> QED
    BY <1>1, <2>1, <2>2, <2>3, OneStream
<1> QED
  BY <1>2, <1>4, <1>5, <1>6, <1>7

(* The main thread leaves the pictures alone. *)
LEMMA MainStep ==
  ASSUME BridgeInv, MainQuiet, Order',
         running' \in BOOLEAN, global' \in BOOLEAN,
         main' \in {"boot", "await", "run", "take", "context", "join", "destroy", "exit", "crashed"},
         arg' \in {"none", "live", "freed"}, ctx' \in {"none", "open", "shut", "gone"}
  PROVE  BridgeInv'
<1>1. UNCHANGED <<bridge, cache, memory, pipe, stream>>
  BY DEF MainQuiet, memoryVars
<1>2. BridgeType'
  BY <1>1 DEF BridgeInv, BridgeType
<1>3. PagesSound' /\ Exact'
  BY <1>1, CountsKept
<1>4. InHand' /\ Decoders' /\ Current'
  BY <1>1 DEF BridgeInv, InHand, Decoders, Current, Sid
<1> QED
  BY <1>2, <1>3, <1>4 DEF BridgeInv

LEMMA StartBridgeStep ==
  ASSUME BridgeInv, StartBridge
  PROVE  BridgeInv'
<1>1. /\ UNCHANGED <<running, global, ctx, cache, memory, pipe, stream>>
      /\ main = "boot" /\ main' = "await" /\ arg' = "live"
      /\ bridge' = [Idle EXCEPT !.at = "setup"]
  BY DEF StartBridge, memoryVars
<1>2. /\ bridge' \in BridgeStates /\ bridge'.at = "setup" /\ bridge'.req = None
      /\ bridge'.frame = None
  BY <1>1, IdleIs DEF Stages
<1>3. bridge.at = "none" /\ bridge.frame = None
  BY <1>1 DEF BridgeInv, Order, InHand
<1>4. BridgeType'
  BY <1>1, <1>2 DEF BridgeInv, BridgeType
<1>5. InHand' /\ Order'
  BY <1>1, <1>2 DEF InHand, Order, RequestSteps
<1>6. PagesSound' /\ Exact'
  BY <1>1, <1>2, <1>3, CountsKept
<1>7. Decoders' /\ Current'
  <2>1. Decoders
    BY DEF BridgeInv
  <2> QED
    BY <1>1, <1>2, <2>1 DEF Decoders, Current
<1> QED
  BY <1>4, <1>5, <1>6, <1>7 DEF BridgeInv

LEMMA DestroyStep ==
  ASSUME BridgeInv, DestroyStreams
  PROVE  BridgeInv'
<1>1. /\ UNCHANGED <<running, global, arg, ctx, bridge, cache, memory, pipe>>
      /\ main = "destroy" /\ main' = "exit"
      /\ stream' = [s \in Sids |-> [stream[s] EXCEPT !.open = FALSE, !.frame = None]]
  BY DEF DestroyStreams, memoryVars
<1>2. bridge.at \in {"none", "failed", "ended"}
  BY <1>1 DEF BridgeInv, Order, Stopped
<1>3. ASSUME NEW s \in Sids
      PROVE  /\ stream'[s] \in Streams /\ stream'[s].made = stream[s].made
             /\ stream'[s].frame = None
  <2>1. stream[s] \in Streams /\ stream'[s] = [stream[s] EXCEPT !.open = FALSE, !.frame = None]
    BY <1>1 DEF BridgeInv, BridgeType
  <2> QED
    BY <2>1 DEF Streams
<1>4. stream' \in [Sids -> Streams]
  BY <1>1, <1>3
<1>5. BridgeType'
  BY <1>1, <1>4 DEF BridgeInv, BridgeType
<1>6. InHand' /\ Order'
  BY <1>1, <1>2 DEF BridgeInv, InHand, Order, Stopped, Sid
<1>7. PagesSound' /\ Exact'
  BY <1>1, CountsKept
<1>8. Decoders' /\ Current'
  <2>1. Decoders /\ Current
    BY DEF BridgeInv
  <2> QED
    BY <1>1, <1>2, <1>3, <2>1 DEF Decoders, NotLater, Current
<1> QED
  BY <1>5, <1>6, <1>7, <1>8 DEF BridgeInv

LEMMA MainThreadKeeps ==
  ASSUME BridgeInv, MainThread
  PROVE  BridgeInv'
<1> USE DEF BridgeInv, BridgeType
<1>1. CASE Signal
  <2>1. Order'
    BY <1>1 DEF Signal, MainQuiet, Order, Stopped
  <2> QED
    BY <1>1, <2>1, MainStep DEF Signal
<1>2. CASE NoBridge
  <2>1. Order'
    BY <1>2 DEF NoBridge, MainQuiet, Order, Stopped
  <2> QED
    BY <1>2, <2>1, MainStep DEF NoBridge
<1>3. CASE StartBridge
  BY <1>3, StartBridgeStep
<1>4. CASE AwaitStart
  <2>1. main' \in {"run", "crashed"} /\ global' = (bridge.at # "failed") /\ MainQuiet
    BY <1>4 DEF AwaitStart
  <2>2. Order'
    BY <2>1 DEF MainQuiet, Order, Stopped
  <2> QED
    BY <1>4, <2>1, <2>2, MainStep DEF AwaitStart
<1>5. CASE StopServer
  <2>1. Order'
    BY <1>5 DEF StopServer, MainQuiet, Order, Stopped
  <2> QED
    BY <1>5, <2>1, MainStep DEF StopServer
<1>6. CASE TakeArg
  <2>1. Order'
    BY <1>6 DEF TakeArg, MainQuiet, Order, Stopped
  <2> QED
    BY <1>6, <2>1, MainStep DEF TakeArg
<1>7. CASE ShutContext
  <2>1. main' \in {"join", "crashed"} /\ MainQuiet
    BY <1>7 DEF ShutContext
  <2>2. Order'
    BY <2>1 DEF MainQuiet, Order, Stopped
  <2> QED
    BY <1>7, <2>1, <2>2, MainStep DEF ShutContext
<1>8. CASE JoinBridge
  <2>1. Order'
    BY <1>8 DEF JoinBridge, MainQuiet, Order, Stopped
  <2> QED
    BY <1>8, <2>1, MainStep DEF JoinBridge
<1>9. CASE DestroyStreams
  BY <1>9, DestroyStep
<1> QED
  BY <1>1, <1>2, <1>3, <1>4, <1>5, <1>6, <1>7, <1>8, <1>9 DEF MainThread

-----------------------------------------------------------------------------
(* Memory. *)

LEMMA PageRefs ==
  ASSUME NEW g \in Pages
  PROVE  g.refs \in Nat
  BY DEF Pages

LEMMA BlankPage == Blank \in Pages /\ Blank.refs = 0 /\ Blank.picture = None
  BY DEF Blank, Pages

LEMMA PageUpdates ==
  ASSUME NEW g \in Pages, NEW n \in Nat
  PROVE  /\ [g EXCEPT !.refs = n] \in Pages /\ [g EXCEPT !.refs = n].refs = n
         /\ [g EXCEPT !.refs = n].picture = g.picture
<1>1. [g EXCEPT !.refs = n] \in Pages
  BY DEF Pages
<1>2. /\ [g EXCEPT !.refs = n].refs = n
      /\ [g EXCEPT !.refs = n].picture = g.picture
  BY DEF Pages
<1> QED
  BY <1>1, <1>2

LEMMA RetainedIs ==
  ASSUME NEW m \in [Buffers -> Pages], Paired(m), NEW b \in Buffers, m[b].refs # 0
  PROVE  /\ Retained(m, b) \in [Buffers -> Pages] /\ Paired(Retained(m, b))
         /\ \A y \in Buffers : /\ Retained(m, b)[y].refs = m[y].refs + Same(b, y)
                               /\ Retained(m, b)[y].picture = m[y].picture
<1> DEFINE n == Retained(m, b)
<1>1. m[b] \in Pages /\ m[b].refs \in Nat /\ m[b].refs + 1 \in Nat
  BY PageRefs
<1>2. n = [m EXCEPT ![b] = [m[b] EXCEPT !.refs = m[b].refs + 1]]
  BY DEF Retained
<1>3. n \in [Buffers -> Pages]
  BY <1>1, <1>2, PageUpdates
<1>4. n[b].refs = m[b].refs + 1 /\ n[b].picture = m[b].picture
  BY <1>1, <1>2, PageUpdates
<1>5. \A y \in Buffers \ {b} : n[y] = m[y] /\ m[y].refs \in Nat
  BY <1>2, PageRefs
<1> HIDE DEF n
<1>6. ASSUME NEW y \in Buffers
      PROVE  n[y].refs = m[y].refs + Same(b, y) /\ n[y].picture = m[y].picture
  BY <1>1, <1>4, <1>5 DEF Same
<1>7. Paired(n)
  BY <1>1, <1>4, <1>5 DEF Paired
<1> QED
  BY <1>3, <1>6, <1>7 DEF n

LEMMA ReleasedIs ==
  ASSUME NEW m \in [Buffers -> Pages], Paired(m), NEW b \in Buffers, m[b].refs # 0
  PROVE  /\ Released(m, b) \in [Buffers -> Pages] /\ Paired(Released(m, b))
         /\ \A y \in Buffers :
              /\ Released(m, b)[y].refs = m[y].refs - Same(b, y)
              /\ Released(m, b)[y].refs # 0 => Released(m, b)[y].picture = m[y].picture
<1> DEFINE n == Released(m, b)
<1>1. m[b] \in Pages /\ m[b].refs \in Nat
  BY PageRefs
<1>2. PICK g \in Pages :
        /\ n = [m EXCEPT ![b] = g] /\ g.refs = m[b].refs - 1
        /\ g.refs = 0 <=> g.picture = None
        /\ g.refs # 0 => g.picture = m[b].picture
  <2>1. CASE m[b].refs = 1
    <3>1. n = [m EXCEPT ![b] = Blank]
      BY <2>1 DEF Released
    <3>2. Blank \in Pages /\ Blank.refs = m[b].refs - 1 /\ Blank.picture = None
      BY <2>1, BlankPage
    <3>3. Blank.refs = 0 /\ Blank.picture = None
      BY BlankPage
    <3> HIDE DEF n
    <3> QED
      BY <3>1, <3>2, <3>3
  <2>2. CASE m[b].refs # 1
    <3> DEFINE g == [m[b] EXCEPT !.refs = m[b].refs - 1]
    <3>1. n = [m EXCEPT ![b] = g]
      BY <2>2 DEF Released
    <3>2. m[b].refs - 1 \in Nat /\ m[b].refs - 1 # 0
      BY <1>1, <2>2
    <3>3. g \in Pages /\ g.refs = m[b].refs - 1 /\ g.picture = m[b].picture
      BY <1>1, <3>2, PageUpdates
    <3>4. g.picture # None
      BY <3>3 DEF Paired
    <3> HIDE DEF n, g
    <3> QED
      BY <3>1, <3>2, <3>3, <3>4
  <2> QED
    BY <2>1, <2>2
<1>3. n \in [Buffers -> Pages] /\ n[b] = g /\ \A y \in Buffers \ {b} : n[y] = m[y]
  BY <1>2
<1>4. \A y \in Buffers : m[y].refs \in Nat
  BY PageRefs
<1> HIDE DEF n
<1>5. ASSUME NEW y \in Buffers
      PROVE  /\ n[y].refs = m[y].refs - Same(b, y)
             /\ n[y].refs # 0 => n[y].picture = m[y].picture
  BY <1>2, <1>3, <1>4 DEF Same
<1>6. Paired(n)
  BY <1>2, <1>3 DEF Paired
<1> QED
  BY <1>3, <1>5, <1>6 DEF n

LEMMA ReleasedOldIs ==
  ASSUME NEW m \in [Buffers -> Pages], Paired(m), NEW b \in Buffers \cup {None},
         b # None => m[b].refs # 0
  PROVE  /\ ReleasedOld(m, b) \in [Buffers -> Pages] /\ Paired(ReleasedOld(m, b))
         /\ \A y \in Buffers :
              /\ ReleasedOld(m, b)[y].refs = m[y].refs - Same(b, y)
              /\ ReleasedOld(m, b)[y].refs # 0 => ReleasedOld(m, b)[y].picture = m[y].picture
<1>1. CASE b = None
  <2>1. ReleasedOld(m, b) = m
    BY <1>1 DEF ReleasedOld
  <2>2. ASSUME NEW y \in Buffers PROVE m[y].refs = m[y].refs - Same(b, y)
    <3>1. Same(b, y) = 0 /\ m[y].refs \in Nat
      BY <1>1, Sizes, PageRefs DEF Same
    <3> QED
      BY <3>1
  <2> QED
    BY <2>1, <2>2
<1>2. CASE b # None
  <2>1. ReleasedOld(m, b) = Released(m, b) /\ b \in Buffers
    BY <1>2 DEF ReleasedOld
  <2> QED
    BY <1>2, <2>1, ReleasedIs
<1> QED
  BY <1>1, <1>2

LEMMA FilledIs ==
  ASSUME NEW m \in [Buffers -> Pages], Paired(m), NEW b \in Buffers,
         NEW picture \in Pictures, NEW k \in Nat \ {0}
  PROVE  /\ Filled(m, b, picture, k) \in [Buffers -> Pages] /\ Paired(Filled(m, b, picture, k))
         /\ Filled(m, b, picture, k)[b] = [refs |-> k, picture |-> picture]
         /\ \A y \in Buffers \ {b} : Filled(m, b, picture, k)[y] = m[y]
<1> DEFINE g == [refs |-> k, picture |-> picture]
           n == Filled(m, b, picture, k)
<1>1. g \in Pages /\ g.refs # 0 /\ g.picture # None
  BY Sizes DEF Pages
<1>2. n = [m EXCEPT ![b] = g]
  BY DEF Filled
<1> HIDE DEF g, n
<1>3. n \in [Buffers -> Pages] /\ n[b] = g /\ \A y \in Buffers \ {b} : n[y] = m[y]
  BY <1>1, <1>2
<1>4. Paired(n)
  BY <1>1, <1>3 DEF Paired
<1> QED
  BY <1>3, <1>4 DEF n, g

LEMMA NewBufferIs ==
  ASSUME HasMemory
  PROVE  NewBuffer \in Buffers /\ memory[NewBuffer].refs = 0
  BY DEF HasMemory, NewBuffer

LEMMA MemoryIs ==
  ASSUME BridgeInv
  PROVE  /\ memory \in [Buffers -> Pages] /\ Paired(memory)
         /\ \A b \in Buffers : /\ memory[b].refs \in Nat
                               /\ memory[b].refs = InCache(b) + Same(bridge.frame, b) + InPipes(b)
                               /\ InCache(b) \in Nat /\ InPipes(b) \in Nat
<1>1. memory \in [Buffers -> Pages] /\ Paired(memory) /\ Exact
  BY DEF BridgeInv, BridgeType, PagesSound
<1>2. ASSUME NEW b \in Buffers
      PROVE  memory[b].refs \in Nat /\ InCache(b) \in Nat /\ InPipes(b) \in Nat
  BY <1>1, PageRefs, CacheCount, PipesCount DEF InCache, InPipes
<1> QED
  BY <1>1, <1>2 DEF Exact

(* The pictures in the cache stay. *)
LEMMA CacheKept ==
  ASSUME BridgeInv, UNCHANGED <<cache, stream>>,
         \A s \in Sids : cache[s] # None => memory'[cache[s]].picture = memory[cache[s]].picture,
         bridge'.at = "convert" => NotLater(bridge'.snap.decoder, stream'[Sid'])
  PROVE  Decoders'
<1>1. Decoders
  BY DEF BridgeInv
<1>2. \A s \in Sids : stream'[s].frame # None => stream'[s].frame.decoder <= stream'[s].made
  BY <1>1 DEF Decoders
<1>3. ASSUME NEW s \in Sids, cache'[s] # None
      PROVE  /\ memory'[cache'[s]].picture.sid = s
             /\ NotLater(memory'[cache'[s]].picture.decoder, stream'[s])
  BY <1>1, <1>3 DEF Decoders
<1> QED
  BY <1>2, <1>3 DEF Decoders

-----------------------------------------------------------------------------
(* Messages. *)

(* A slot of a pipe changes. *)
LEMMA PipeSlot ==
  ASSUME BridgeInv, NEW c \in Clients, NEW i \in Places, NEW x \in Buffers \cup {None, Text},
         pipe' = [pipe EXCEPT ![c][i] = x]
  PROVE  /\ pipe' \in [Clients -> [Places -> Buffers \cup {None, Text}]]
         /\ \A k \in Clients, j \in Places : k # c \/ j # i => pipe'[k][j] = pipe[k][j]
         /\ pipe'[c][i] = x
<1>1. pipe \in [Clients -> [Places -> Buffers \cup {None, Text}]]
  BY DEF BridgeInv, BridgeType
<1> QED
  BY <1>1

LEMMA CacheSame ==
  ASSUME UNCHANGED cache, NEW b
  PROVE  InCache(b)' = InCache(b)
  BY DEF InCache, CacheHolds

LEMMA NobodyElse ==
  ASSUME NEW x, NEW b, x # b
  PROVE  Same(x, b) = 0
  BY DEF Same

LEMMA MessageDoneStep ==
  ASSUME BridgeInv, NEW c \in Clients, NEW i \in Places, MessageDone(c, i)
  PROVE  BridgeInv'
<1> DEFINE x == pipe[c][i]
<1>1. /\ UNCHANGED <<mainVars, arg, ctx, bridge, cache, stream>>
      /\ x # None /\ pipe' = [pipe EXCEPT ![c][i] = None]
      /\ memory' = IF x = Text THEN memory ELSE Released(memory, x)
  BY DEF MessageDone
<1>2. x \in Buffers \cup {Text} /\ pipe \in [Clients -> [Places -> Buffers \cup {None, Text}]]
  BY <1>1 DEF BridgeInv, BridgeType
<1>3. x # Text => x \in Buffers /\ memory[x].refs # 0
  BY <1>2, HeldPicture
<1>4. /\ pipe' \in [Clients -> [Places -> Buffers \cup {None, Text}]]
      /\ \A k \in Clients, j \in Places : k # c \/ j # i => pipe'[k][j] = pipe[k][j]
      /\ \A b \in Buffers : InPipes(b)' = InPipes(b) - Same(x, b) + Same(None, b)
      /\ \A b \in Buffers : InCache(b)' = InCache(b)
  <2>1. /\ pipe' \in [Clients -> [Places -> Buffers \cup {None, Text}]]
        /\ \A k \in Clients, j \in Places : k # c \/ j # i => pipe'[k][j] = pipe[k][j]
        /\ pipe'[c][i] = None
    BY <1>1, PipeSlot
  <2>2. \A b : InPipes(b)' = InPipes(b) - Same(x, b) + Same(pipe'[c][i], b)
    BY <2>1, PipesMoved
  <2> QED
    BY <1>1, <2>1, <2>2, CacheSame
<1>5. memory \in [Buffers -> Pages] /\ Paired(memory)
  BY MemoryIs
<1>6. /\ memory' \in [Buffers -> Pages] /\ Paired(memory')
      /\ \A b \in Buffers : memory'[b].refs = memory[b].refs - Same(x, b)
      /\ \A b \in Buffers : memory'[b].refs # 0 => memory'[b].picture = memory[b].picture
  <2>1. CASE x = Text
    <3>1. memory' = memory
      BY <1>1, <2>1
    <3>2. \A b \in Buffers : Same(x, b) = 0 /\ memory[b].refs \in Nat
      BY <2>1, Sizes, NobodyElse, MemoryIs
    <3> HIDE DEF x
    <3> QED
      BY <1>5, <3>1, <3>2
  <2>2. CASE x # Text
    <3>1. memory' = Released(memory, x) /\ x \in Buffers /\ memory[x].refs # 0
      BY <1>1, <1>3, <2>2
    <3> HIDE DEF x
    <3> QED
      BY <1>5, <3>1, ReleasedIs
  <2> QED
    BY <2>1, <2>2
<1>7. Exact'
  <2>1. ASSUME NEW b \in Buffers
        PROVE  memory'[b].refs = InCache(b)' + Same(bridge'.frame, b) + InPipes(b)'
    <3>1. /\ memory[b].refs = InCache(b) + Same(bridge.frame, b) + InPipes(b)
          /\ InCache(b) \in Nat /\ InPipes(b) \in Nat
      BY MemoryIs
    <3>2. Same(None, b) = 0 /\ Same(x, b) \in Nat /\ Same(bridge.frame, b) \in Nat
      BY Sizes DEF Same
    <3>3. InPipes(b)' = InPipes(b) - Same(x, b) /\ InCache(b)' = InCache(b)
      BY <1>4, <3>1, <3>2
    <3>4. memory'[b].refs = memory[b].refs - Same(x, b) /\ bridge' = bridge
      BY <1>1, <1>6
    <3> HIDE DEF x
    <3> QED
      BY <3>1, <3>2, <3>3, <3>4
  <2> QED
    BY <2>1 DEF Exact
<1>8. BridgeType' /\ PagesSound'
  <2>1. /\ running' = running /\ main' = main /\ global' = global /\ arg' = arg /\ ctx' = ctx
        /\ bridge' = bridge /\ cache' = cache /\ stream' = stream
    BY <1>1 DEF mainVars
  <2> HIDE DEF x
  <2> QED
    BY <1>4, <1>6, <2>1 DEF BridgeInv, BridgeType, PagesSound, Paired
<1>9. InHand' /\ Order'
  <2>1. InHand /\ Order /\ bridge \in BridgeStates
    BY DEF BridgeInv, BridgeType
  <2>2. pipe'[c][i] = None
    BY <1>1, <1>2
  <2>3. ASSUME bridge'.at \in RequestSteps, bridge'.place # None
        PROVE  pipe'[bridge'.client][bridge'.place] = None
    <3>1. bridge.client \in Clients /\ bridge.place \in Places
      BY <1>1, <2>1, <2>3 DEF InHand, BridgeStates
    <3>2. pipe[bridge.client][bridge.place] = None
      BY <1>1, <2>1, <2>3 DEF InHand
    <3> QED
      BY <1>1, <1>4, <2>2, <3>1, <3>2
  <2> QED
    BY <1>1, <2>1, <2>3 DEF InHand, Order, Stopped, Sid, mainVars
<1>10. \A b \in Buffers : bridge.frame = b \/ (\E s \in Sids : cache[s] = b)
         => memory'[b].picture = memory[b].picture
  <2>1. ASSUME NEW b \in Buffers, bridge.frame = b \/ (\E s \in Sids : cache[s] = b)
        PROVE  memory'[b].refs # 0
    BY <1>1, <1>7, <1>8, <2>1, HeldNext
  <2> QED
    BY <1>6, <2>1
<1>11. Decoders'
  <2>1. bridge'.at = "convert" => NotLater(bridge'.snap.decoder, stream'[Sid'])
    BY <1>1 DEF BridgeInv, Decoders, Sid
  <2>2. \A s \in Sids : cache[s] # None => cache[s] \in Buffers
    BY DEF BridgeInv, BridgeType
  <2> QED
    BY <1>1, <1>10, <2>1, <2>2, CacheKept
<1>12. Current'
  <2>1. ASSUME bridge.at \in {"crop", "send"} PROVE bridge.frame \in Buffers
    BY <2>1 DEF BridgeInv, BridgeType, BridgeStates, InHand
  <2>2. ASSUME bridge.at \in {"crop", "send"}
        PROVE  memory'[bridge.frame].picture = memory[bridge.frame].picture
    BY <1>10, <2>1, <2>2
  <2> QED
    BY <1>1, <2>2 DEF BridgeInv, Current
<1> QED
  BY <1>7, <1>8, <1>9, <1>11, <1>12 DEF BridgeInv

(* What ends a request. *)
LEMMA AnsweredIs ==
  ASSUME Answered
  PROVE  /\ bridge' \in BridgeStates /\ bridge'.at = "loop" /\ bridge'.req = None
         /\ bridge'.frame = None /\ InHand'
<1>1. /\ bridge' \in BridgeStates /\ bridge'.at = "loop" /\ bridge'.req = None
      /\ bridge'.frame = None
  BY IdleIs DEF Answered, Stages
<1> QED
  BY <1>1 DEF InHand, RequestSteps

LEMMA SendTextStep ==
  ASSUME BridgeInv, SendText
  PROVE  BridgeInv'
<1>1. /\ UNCHANGED <<mainVars, arg, ctx, cache, memory, stream>>
      /\ bridge.at \in {"text", "giveUp"}
  BY DEF SendText, Mine, memoryVars
<1>2. /\ bridge' \in BridgeStates /\ bridge'.at = "loop" /\ bridge'.frame = None /\ InHand'
  BY AnsweredIs DEF SendText
<1>3. /\ bridge.at \in RequestSteps /\ bridge.frame = None
  BY <1>1 DEF BridgeInv, InHand, RequestSteps
<1>4. /\ pipe' \in [Clients -> [Places -> Buffers \cup {None, Text}]]
      /\ \A b \in Buffers : InPipes(b)' = InPipes(b) /\ InCache(b)' = InCache(b)
  <2>1. CASE bridge.place # None /\ ctx = "open"
    <3>1. pipe' = [pipe EXCEPT ![bridge.client][bridge.place] = Text]
      BY <2>1 DEF SendText, Sent
    <3>2. bridge.client \in Clients /\ bridge.place \in Places
      BY <1>3, <2>1 DEF BridgeInv, BridgeType, BridgeStates, InHand
    <3>3. pipe[bridge.client][bridge.place] = None
      BY <1>3, <2>1 DEF BridgeInv, InHand
    <3> DEFINE c == bridge.client
               i == bridge.place
    <3>4. /\ pipe' \in [Clients -> [Places -> Buffers \cup {None, Text}]]
          /\ \A k \in Clients, j \in Places : k # c \/ j # i => pipe'[k][j] = pipe[k][j]
          /\ pipe'[c][i] = Text
      BY <3>1, <3>2, PipeSlot
    <3>5. c \in Clients /\ i \in Places /\ pipe[c][i] = None
      BY <3>2, <3>3
    <3> HIDE DEF c, i
    <3>6. \A b : InPipes(b)' = InPipes(b) - Same(None, b) + Same(Text, b)
      BY <3>4, <3>5, PipesMoved
    <3>7. \A b \in Buffers : Same(None, b) = 0 /\ Same(Text, b) = 0 /\ InPipes(b) \in Nat
      BY Sizes, NobodyElse, MemoryIs
    <3> QED
      BY <1>1, <3>4, <3>6, <3>7, CacheSame
  <2>2. CASE ~(bridge.place # None /\ ctx = "open")
    <3>1. pipe' = pipe
      BY <2>2 DEF SendText, Sent
    <3> QED
      BY <1>1, <3>1 DEF InPipes, InCache, PipesHold, CacheHolds, BridgeInv, BridgeType
  <2> QED
    BY <2>1, <2>2
<1>5. BridgeType' /\ PagesSound'
  BY <1>1, <1>2, <1>4 DEF BridgeInv, BridgeType, mainVars, PagesSound, Paired
<1>6. Exact'
  BY <1>1, <1>2, <1>3, <1>4 DEF BridgeInv, Exact
<1>7. Order'
  BY <1>1, Working0 DEF Stages, RequestSteps
<1>8. Decoders'
  BY <1>1, <1>2, CacheKept
<1>9. Current'
  BY <1>2 DEF Current
<1> QED
  BY <1>2, <1>5, <1>6, <1>7, <1>8, <1>9 DEF BridgeInv

LEMMA FrameInHand ==
  ASSUME BridgeInv, bridge.at \in {"crop", "send"}
  PROVE  /\ bridge.frame \in Buffers /\ memory[bridge.frame].refs # 0
         /\ memory[bridge.frame].picture \in Pictures /\ bridge.snap \in Pictures
<1>1. bridge.frame \in Buffers /\ bridge.snap \in Pictures
  BY DEF BridgeInv, BridgeType, BridgeStates, InHand
<1> QED
  BY <1>1, HeldPicture

LEMMA SendFrameStep ==
  ASSUME BridgeInv, SendFrame
  PROVE  BridgeInv'
<1> DEFINE x == bridge.frame
<1>1. /\ UNCHANGED <<mainVars, arg, ctx, cache, stream>> /\ bridge.at = "send"
  BY DEF SendFrame, Mine, At
<1>2. /\ bridge' \in BridgeStates /\ bridge'.at = "loop" /\ bridge'.frame = None /\ InHand'
  BY AnsweredIs DEF SendFrame
<1>3. bridge.at \in RequestSteps /\ x \in Buffers /\ memory[x].refs # 0
  BY <1>1, FrameInHand DEF RequestSteps
<1>4. \A b \in Buffers : Same(None, b) = 0 /\ InPipes(b) \in Nat /\ memory[b].refs \in Nat
  BY Sizes, NobodyElse, MemoryIs
<1>5. memory \in [Buffers -> Pages] /\ Paired(memory)
  BY MemoryIs
<1>6. /\ pipe' \in [Clients -> [Places -> Buffers \cup {None, Text}]]
      /\ memory' \in [Buffers -> Pages] /\ Paired(memory')
      /\ \A b \in Buffers : memory'[b].refs - InPipes(b)' = memory[b].refs - InPipes(b) - Same(x, b)
      /\ \A b \in Buffers : memory'[b].refs # 0 => memory'[b].picture = memory[b].picture
      /\ \A b \in Buffers : InPipes(b)' \in Nat
  <2>1. CASE bridge.place # None /\ ctx = "open"
    <3> DEFINE c == bridge.client
               i == bridge.place
    <3>1. pipe' = [pipe EXCEPT ![c][i] = x] /\ memory' = memory
      BY <2>1 DEF SendFrame, Sent
    <3>2. c \in Clients /\ i \in Places /\ pipe[c][i] = None
      BY <1>3, <2>1 DEF BridgeInv, BridgeType, BridgeStates, InHand
    <3> HIDE DEF c, i, x
    <3>3. /\ pipe' \in [Clients -> [Places -> Buffers \cup {None, Text}]]
          /\ \A k \in Clients, j \in Places : k # c \/ j # i => pipe'[k][j] = pipe[k][j]
          /\ pipe'[c][i] = x
      BY <1>3, <3>1, <3>2, PipeSlot
    <3>4. \A b : InPipes(b)' = InPipes(b) - Same(None, b) + Same(x, b)
      BY <3>2, <3>3, PipesMoved
    <3>5. \A b : Same(x, b) \in Nat
      BY DEF Same
    <3>6. \A b \in Buffers : InPipes(b)' = InPipes(b) + Same(x, b)
      BY <1>4, <3>4, <3>5
    <3> QED
      BY <1>4, <1>5, <3>1, <3>3, <3>5, <3>6
  <2>2. CASE ~(bridge.place # None /\ ctx = "open")
    <3>1. pipe' = pipe /\ memory' = Released(memory, x)
      BY <2>2 DEF SendFrame, Sent
    <3>2. pipe \in [Clients -> [Places -> Buffers \cup {None, Text}]]
      BY DEF BridgeInv, BridgeType
    <3>3. \A b : InPipes(b)' = InPipes(b)
      BY <3>1 DEF InPipes, PipesHold
    <3>4. \A b : Same(x, b) \in Nat
      BY DEF Same
    <3> HIDE DEF x
    <3>5. /\ memory' \in [Buffers -> Pages] /\ Paired(memory')
          /\ \A b \in Buffers : memory'[b].refs = memory[b].refs - Same(x, b)
          /\ \A b \in Buffers : memory'[b].refs # 0 => memory'[b].picture = memory[b].picture
      BY <1>3, <1>5, <3>1, ReleasedIs
    <3>6. \A b \in Buffers : memory'[b].refs - InPipes(b)' = memory[b].refs - InPipes(b) - Same(x, b)
      BY <1>4, <3>3, <3>4, <3>5
    <3> QED
      BY <1>4, <3>1, <3>2, <3>3, <3>5, <3>6
  <2> QED
    BY <2>1, <2>2
<1>7. Exact'
  <2>1. ASSUME NEW b \in Buffers
        PROVE  memory'[b].refs = InCache(b)' + Same(bridge'.frame, b) + InPipes(b)'
    <3>1. /\ memory[b].refs = InCache(b) + Same(x, b) + InPipes(b)
          /\ InCache(b) \in Nat /\ InPipes(b) \in Nat /\ memory[b].refs \in Nat
      BY MemoryIs
    <3>2. Same(bridge'.frame, b) = 0 /\ Same(x, b) \in Nat /\ InCache(b)' = InCache(b)
      BY <1>1, <1>2, <1>4, CacheSame DEF Same
    <3>3. memory'[b].refs - InPipes(b)' = memory[b].refs - InPipes(b) - Same(x, b)
      BY <1>6
    <3>4. memory'[b].refs \in Nat /\ InPipes(b)' \in Nat
      BY <1>6, PageRefs
    <3> HIDE DEF x
    <3> QED
      BY <3>1, <3>2, <3>3, <3>4
  <2> QED
    BY <2>1 DEF Exact
<1>8. BridgeType' /\ PagesSound'
  BY <1>1, <1>2, <1>6 DEF BridgeInv, BridgeType, mainVars, PagesSound, Paired
<1>9. Order'
  BY <1>1, Working0 DEF Stages, RequestSteps
<1>10. Decoders'
  <2>1. ASSUME NEW s \in Sids, cache[s] # None
        PROVE  memory'[cache[s]].picture = memory[cache[s]].picture
    <3>1. cache[s] \in Buffers
      BY <2>1 DEF BridgeInv, BridgeType
    <3>2. memory'[cache[s]].refs # 0
      BY <1>1, <1>7, <1>8, <3>1, HeldNext
    <3> QED
      BY <1>6, <3>1, <3>2
  <2> QED
    BY <1>1, <1>2, <2>1, CacheKept
<1>11. Current'
  BY <1>2 DEF Current
<1> QED
  BY <1>2, <1>7, <1>8, <1>9, <1>10, <1>11 DEF BridgeInv

-----------------------------------------------------------------------------
(* Finding, converting and cropping. *)

LEMMA SnapshotIs ==
  ASSUME BridgeInv, Sid \in Sids, stream[Sid].frame # None
  PROVE  /\ Snapshot \in Pictures /\ Snapshot.sid = Sid
         /\ NotLater(Snapshot.decoder, stream[Sid])
         /\ Snapshot.decoder = stream[Sid].frame.decoder
<1>1. stream[Sid].frame \in Frames /\ stream[Sid].colour \in Colours /\ stream[Sid].made \in Nat
  BY DEF BridgeInv, BridgeType, Streams
<1> DEFINE f == stream[Sid].frame
<1>2. Snapshot = [sid |-> Sid, decoder |-> f.decoder, pts |-> f.pts, shape |-> f.shape,
                  colour |-> stream[Sid].colour]
  BY DEF Snapshot
<1>3. f.decoder \in Nat /\ f.pts \in Nat /\ f.shape \in Shapes
  BY <1>1 DEF Frames
<1>4. Snapshot \in Pictures /\ Snapshot.sid = Sid /\ Snapshot.decoder = f.decoder
  BY <1>1, <1>2, <1>3 DEF Pictures
<1>5. f.decoder <= stream[Sid].made
  BY DEF BridgeInv, Decoders
<1> QED
  BY <1>1, <1>3, <1>4, <1>5 DEF NotLater

LEMMA Serves ==
  ASSUME NEW p \in Pictures, NEW q \in Pictures, Matches(p, q)
  PROVE  [p EXCEPT !.decoder = q.decoder] = q
  BY DEF Pictures, Matches

LEMMA SnapIs ==
  ASSUME BridgeInv, NEW a \in {"crop", "convert"}, NEW q \in Pictures, NEW b \in Buffers \cup {None},
         bridge' = [bridge EXCEPT !.at = a, !.snap = q, !.frame = b]
  PROVE  /\ bridge' \in BridgeStates /\ bridge'.at = a /\ bridge'.snap = q /\ bridge'.frame = b
         /\ bridge'.req = bridge.req /\ bridge'.client = bridge.client
         /\ bridge'.place = bridge.place /\ Sid' = Sid
<1>1. bridge \in BridgeStates /\ a \in Stages
  BY DEF BridgeInv, BridgeType, Stages, RequestSteps
<1>2. /\ bridge' \in BridgeStates /\ bridge'.at = a /\ bridge'.snap = q /\ bridge'.frame = b
      /\ bridge'.req = bridge.req /\ bridge'.client = bridge.client
      /\ bridge'.place = bridge.place
  BY <1>1 DEF BridgeStates
<1> QED
  BY <1>2 DEF Sid

(* A step of the thread that takes or gives back pictures: what is left to *)
(* show of it.                                                             *)
LEMMA PictureStep ==
  ASSUME BridgeInv, bridge.at \in {"look", "convert", "crop"},
         UNCHANGED <<mainVars, arg, ctx, pipe, stream>>,
         bridge' \in BridgeStates, bridge'.at \in {"crop", "convert", "send", "text"},
         bridge'.req = bridge.req, bridge'.client = bridge.client, bridge'.place = bridge.place,
         bridge'.frame # None <=> bridge'.at \in {"crop", "send"},
         bridge'.snap \in Pictures,
         bridge'.at = "convert" => /\ Sid \in Sids /\ bridge'.snap.sid = Sid
                                   /\ NotLater(bridge'.snap.decoder, stream[Sid]),
         cache' \in [Sids -> Buffers \cup {None}],
         memory' \in [Buffers -> Pages], Paired(memory'),
         \A b \in Buffers :
           memory'[b].refs = memory[b].refs - InCache(b) + InCache(b)'
                             - Same(bridge.frame, b) + Same(bridge'.frame, b),
         \A s \in Sids : cache'[s] # None =>
           \/ cache'[s] = cache[s] /\ (memory'[cache[s]].refs # 0 =>
                                         memory'[cache[s]].picture = memory[cache[s]].picture)
           \/ /\ memory'[cache'[s]].picture \in Pictures
              /\ memory'[cache'[s]].picture.sid = s
              /\ NotLater(memory'[cache'[s]].picture.decoder, stream[s]),
         Current'
  PROVE  BridgeInv'
<1>1. BridgeType' /\ PagesSound'
  BY DEF BridgeInv, BridgeType, mainVars, PagesSound, Paired
<1>2. Sid' = Sid
  BY DEF Sid
<1>3. InHand'
  <2>1. bridge.at \in RequestSteps /\ bridge'.at \in RequestSteps /\ InHand
    BY DEF RequestSteps, BridgeInv
  <2> QED
    BY <1>2, <2>1 DEF InHand
<1>4. Order'
  BY Working0 DEF Stages, RequestSteps
<1>5. Exact'
  <2>1. ASSUME NEW b \in Buffers
        PROVE  memory'[b].refs = InCache(b)' + Same(bridge'.frame, b) + InPipes(b)'
    <3>1. /\ memory[b].refs = InCache(b) + Same(bridge.frame, b) + InPipes(b)
          /\ InCache(b) \in Nat /\ InPipes(b) \in Nat /\ memory[b].refs \in Nat
      BY MemoryIs
    <3>2. Same(bridge'.frame, b) \in Nat /\ Same(bridge.frame, b) \in Nat
      BY DEF Same
    <3>3. InPipes(b)' = InPipes(b)
      BY DEF InPipes, PipesHold
    <3>4. CacheHolds(cache', b) \in Nat
      BY CacheCount
    <3>5. InCache(b)' \in Nat
      BY <3>4 DEF InCache, CacheHolds
    <3>6. memory'[b].refs = memory[b].refs - InCache(b) + InCache(b)'
                            - Same(bridge.frame, b) + Same(bridge'.frame, b)
      OBVIOUS
    <3> QED
      BY <3>1, <3>2, <3>3, <3>5, <3>6
  <2> QED
    BY <2>1 DEF Exact
<1>6. Decoders'
  <2>1. ASSUME NEW s \in Sids, cache'[s] # None
        PROVE  /\ memory'[cache'[s]].picture.sid = s
               /\ NotLater(memory'[cache'[s]].picture.decoder, stream[s])
    <3>1. cache'[s] \in Buffers
      BY <2>1
    <3>2. memory'[cache'[s]].refs # 0
      BY <1>1, <1>5, <3>1, HeldNext
    <3>3. CASE cache'[s] = cache[s] /\ memory'[cache[s]].picture = memory[cache[s]].picture
      BY <2>1, <3>3 DEF BridgeInv, Decoders
    <3> QED
      BY <2>1, <3>2, <3>3
  <2>2. Decoders
    BY DEF BridgeInv
  <2> QED
    BY <1>2, <2>1, <2>2 DEF Decoders
<1> QED
  BY <1>1, <1>3, <1>4, <1>5, <1>6 DEF BridgeInv

LEMMA FindCachedStep ==
  ASSUME BridgeInv, FindCached
  PROVE  BridgeInv'
<1>1. /\ UNCHANGED <<mainVars, arg, ctx, pipe, stream, cache>> /\ bridge.at = "look"
      /\ stream[Sid].frame # None
  BY DEF FindCached, Working, Mine, At
<1>2. Sid \in Sids /\ bridge.frame = None
  BY <1>1 DEF BridgeInv, InHand
<1> DEFINE q == Snapshot
           b == cache[Sid]
<1>3. q \in Pictures /\ q.sid = Sid /\ NotLater(q.decoder, stream[Sid])
      /\ q.decoder = stream[Sid].frame.decoder
  BY <1>1, <1>2, SnapshotIs
<1>4. cache \in [Sids -> Buffers \cup {None}] /\ memory \in [Buffers -> Pages] /\ Paired(memory)
  BY MemoryIs DEF BridgeInv, BridgeType
<1>5. \A y \in Buffers : /\ InCache(y) \in Nat /\ InCache(y)' = InCache(y)
                         /\ memory[y].refs \in Nat /\ Same(None, y) = 0
  BY <1>1, MemoryIs, CacheSame, Sizes, NobodyElse
<1>6. CASE b # None /\ Matches(memory[b].picture, q)
  <2>1. memory' = Retained(memory, b) /\ bridge' = [bridge EXCEPT !.at = "crop", !.snap = q, !.frame = b]
    BY <1>6 DEF FindCached
  <2>2. b \in Buffers /\ memory[b].refs # 0 /\ memory[b].picture \in Pictures
    BY <1>2, <1>6, CachedPicture
  <2>3. NotLater(memory[b].picture.decoder, stream[Sid])
    BY <1>2, <1>6 DEF BridgeInv, Decoders
  <2>4. memory[b].picture.decoder <= q.decoder
    BY <1>1, <1>3, <2>3 DEF NotLater
  <2>5. [memory[b].picture EXCEPT !.decoder = q.decoder] = q
    BY <1>3, <1>6, <2>2, Serves
  <2> HIDE DEF q, b
  <2>6. /\ bridge' \in BridgeStates /\ bridge'.at = "crop" /\ bridge'.snap = q /\ bridge'.frame = b
        /\ bridge'.req = bridge.req /\ bridge'.client = bridge.client
        /\ bridge'.place = bridge.place
    BY <1>3, <2>1, <2>2, SnapIs
  <2>7. /\ memory' \in [Buffers -> Pages] /\ Paired(memory')
        /\ \A y \in Buffers : /\ memory'[y].refs = memory[y].refs + Same(b, y)
                              /\ memory'[y].picture = memory[y].picture
    BY <1>4, <2>1, <2>2, RetainedIs
  <2>8. \A y \in Buffers :
          memory'[y].refs = memory[y].refs - InCache(y) + InCache(y)'
                            - Same(bridge.frame, y) + Same(bridge'.frame, y)
    <3>1. \A y : Same(b, y) \in Nat
      BY DEF Same
    <3> QED
      BY <1>2, <1>5, <2>6, <2>7, <3>1
  <2>9. Current'
    <3>1. memory'[b].picture = memory[b].picture
      BY <2>2, <2>7
    <3> QED
      BY <2>4, <2>5, <2>6, <3>1 DEF Current
  <2>10. \A s \in Sids : cache'[s] # None =>
           cache'[s] = cache[s] /\ memory'[cache[s]].picture = memory[cache[s]].picture
    BY <1>1, <1>4, <2>7
  <2>11. b # None
    BY <2>2, Sizes
  <2> QED
    BY <1>1, <1>3, <1>4, <2>6, <2>7, <2>8, <2>9, <2>10, <2>11, PictureStep
<1>7. CASE ~(b # None /\ Matches(memory[b].picture, q))
  <2>1. memory' = memory /\ bridge' = [bridge EXCEPT !.at = "convert", !.snap = q]
    BY <1>7 DEF FindCached
  <2>2. bridge' = [bridge EXCEPT !.at = "convert", !.snap = q, !.frame = None]
    BY <1>2, <2>1 DEF BridgeInv, BridgeType, BridgeStates
  <2> HIDE DEF q, b
  <2>3. /\ bridge' \in BridgeStates /\ bridge'.at = "convert" /\ bridge'.snap = q
        /\ bridge'.frame = None
        /\ bridge'.req = bridge.req /\ bridge'.client = bridge.client
        /\ bridge'.place = bridge.place
    BY <1>3, <2>2, SnapIs
  <2>4. \A y \in Buffers :
          memory'[y].refs = memory[y].refs - InCache(y) + InCache(y)'
                            - Same(bridge.frame, y) + Same(bridge'.frame, y)
    BY <1>2, <1>5, <2>1, <2>3
  <2>5. Current'
    BY <2>3 DEF Current
  <2> QED
    BY <1>1, <1>2, <1>3, <1>4, <2>1, <2>3, <2>4, <2>5, PictureStep
<1> QED
  BY <1>6, <1>7

LEMMA CropFailsStep ==
  ASSUME BridgeInv, CropFails
  PROVE  BridgeInv'
<1> DEFINE x == bridge.frame
<1>1. /\ UNCHANGED <<mainVars, arg, ctx, pipe, stream, cache>> /\ bridge.at = "crop"
      /\ memory' = Released(memory, x)
      /\ bridge' = [bridge EXCEPT !.at = "text", !.frame = None]
  BY DEF CropFails, Working, Mine, At
<1>2. x \in Buffers /\ memory[x].refs # 0 /\ bridge.snap \in Pictures
  BY <1>1, FrameInHand
<1>3. cache \in [Sids -> Buffers \cup {None}] /\ memory \in [Buffers -> Pages] /\ Paired(memory)
  BY MemoryIs DEF BridgeInv, BridgeType
<1>4. \A y \in Buffers : /\ InCache(y) \in Nat /\ InCache(y)' = InCache(y)
                         /\ memory[y].refs \in Nat /\ Same(None, y) = 0
  BY <1>1, MemoryIs, CacheSame, Sizes, NobodyElse
<1>5. /\ bridge' \in BridgeStates /\ bridge'.at = "text" /\ bridge'.snap = bridge.snap
      /\ bridge'.frame = None /\ bridge'.req = bridge.req /\ bridge'.client = bridge.client
      /\ bridge'.place = bridge.place
  BY <1>1 DEF BridgeInv, BridgeType, BridgeStates, Stages, RequestSteps
<1> HIDE DEF x
<1>6. /\ memory' \in [Buffers -> Pages] /\ Paired(memory')
      /\ \A y \in Buffers :
           /\ memory'[y].refs = memory[y].refs - Same(x, y)
           /\ memory'[y].refs # 0 => memory'[y].picture = memory[y].picture
  BY <1>1, <1>2, <1>3, ReleasedIs
<1>7. \A y \in Buffers :
        memory'[y].refs = memory[y].refs - InCache(y) + InCache(y)'
                          - Same(bridge.frame, y) + Same(bridge'.frame, y)
  <2>1. \A y : Same(x, y) \in Nat
    BY DEF Same
  <2> QED
    BY <1>4, <1>5, <1>6, <2>1 DEF x
<1>8. Current'
  BY <1>5 DEF Current
<1>9. \A s \in Sids : cache'[s] # None =>
        cache'[s] = cache[s] /\ (memory'[cache[s]].refs # 0 =>
                                   memory'[cache[s]].picture = memory[cache[s]].picture)
  BY <1>1, <1>3, <1>6
<1> QED
  BY <1>1, <1>2, <1>3, <1>5, <1>6, <1>7, <1>8, <1>9, PictureStep

LEMMA CropStep ==
  ASSUME BridgeInv, Crop
  PROVE  BridgeInv'
<1> DEFINE x == bridge.frame
           new == NewBuffer
           picture == memory[x].picture
           filled == Filled(memory, new, picture, 1)
<1>1. /\ UNCHANGED <<mainVars, arg, ctx, pipe, stream, cache>> /\ bridge.at = "crop" /\ HasMemory
      /\ memory' = Released(filled, x)
      /\ bridge' = [bridge EXCEPT !.at = "send", !.frame = new]
  BY DEF Crop, Working, Mine, At
<1>2. /\ x \in Buffers /\ memory[x].refs # 0 /\ bridge.snap \in Pictures /\ picture \in Pictures
      /\ new \in Buffers /\ memory[new].refs = 0
  BY <1>1, FrameInHand, NewBufferIs
<1>3. cache \in [Sids -> Buffers \cup {None}] /\ memory \in [Buffers -> Pages] /\ Paired(memory)
  BY MemoryIs DEF BridgeInv, BridgeType
<1>4. \A y \in Buffers : /\ InCache(y) \in Nat /\ InCache(y)' = InCache(y)
                         /\ memory[y].refs \in Nat
  BY <1>1, MemoryIs, CacheSame
<1>5. /\ bridge' \in BridgeStates /\ bridge'.at = "send" /\ bridge'.snap = bridge.snap
      /\ bridge'.frame = new /\ bridge'.req = bridge.req /\ bridge'.client = bridge.client
      /\ bridge'.place = bridge.place
  <2> HIDE DEF new
  <2> QED
    BY <1>1, <1>2 DEF BridgeInv, BridgeType, BridgeStates, Stages, RequestSteps
<1> HIDE DEF new, picture
<1>6. /\ filled \in [Buffers -> Pages] /\ Paired(filled)
      /\ filled[new] = [refs |-> 1, picture |-> picture]
      /\ \A y \in Buffers \ {new} : filled[y] = memory[y]
  BY <1>2, <1>3, FilledIs
<1>7. new # x
  BY <1>2
<1>8. filled[x] = memory[x] /\ filled[x].refs # 0
  BY <1>2, <1>6, <1>7
<1>9. ASSUME NEW y \in Buffers PROVE filled[y].refs = memory[y].refs + Same(new, y)
  <2>1. CASE y = new
    BY <1>2, <1>6, <2>1 DEF Same
  <2>2. CASE y # new
    <3>1. filled[y] = memory[y] /\ Same(new, y) = 0
      BY <1>6, <2>2, NobodyElse
    <3> HIDE DEF filled
    <3> QED
      BY <1>4, <3>1
  <2> QED
    BY <2>1, <2>2
<1> HIDE DEF x, filled
<1>10. /\ memory' \in [Buffers -> Pages] /\ Paired(memory')
       /\ \A y \in Buffers :
           /\ memory'[y].refs = filled[y].refs - Same(x, y)
           /\ memory'[y].refs # 0 => memory'[y].picture = filled[y].picture
  BY <1>1, <1>2, <1>6, <1>8, ReleasedIs
<1>11. \A y \in Buffers :
        memory'[y].refs = memory[y].refs - InCache(y) + InCache(y)'
                          - Same(bridge.frame, y) + Same(bridge'.frame, y)
  <2>1. \A y : Same(x, y) \in Nat /\ Same(new, y) \in Nat
    BY DEF Same
  <2> QED
    BY <1>4, <1>5, <1>9, <1>10, <2>1 DEF x
<1>12. Current'
  <2>1. filled[new].refs = 1 /\ filled[new].picture = picture /\ Same(x, new) = 0
    BY <1>6, <1>7, NobodyElse
  <2>2. memory'[new].refs = 1 - 0
    BY <1>2, <1>10, <2>1
  <2>3. memory'[new].picture = picture
    BY <1>2, <1>10, <2>1, <2>2
  <2>4. /\ [picture EXCEPT !.decoder = bridge.snap.decoder] = bridge.snap
        /\ picture.decoder <= bridge.snap.decoder
    BY <1>1 DEF BridgeInv, Current, picture, x
  <2> QED
    BY <1>5, <2>3, <2>4 DEF Current
<1>13. ASSUME NEW s \in Sids, cache'[s] # None
       PROVE  cache'[s] = cache[s] /\ (memory'[cache[s]].refs # 0 =>
                                        memory'[cache[s]].picture = memory[cache[s]].picture)
  <2>1. cache'[s] = cache[s] /\ cache[s] \in Buffers /\ memory[cache[s]].refs # 0
    BY <1>1, <1>13, CachedPicture
  <2>2. filled[cache[s]] = memory[cache[s]]
    BY <1>2, <1>6, <2>1
  <2> QED
    BY <1>10, <2>1, <2>2
<1>14. bridge'.frame # None
  BY <1>2, <1>5, Sizes
<1> QED
  BY <1>1, <1>2, <1>3, <1>5, <1>10, <1>11, <1>12, <1>13, <1>14, PictureStep

LEMMA ConvertStep ==
  ASSUME BridgeInv, Convert
  PROVE  BridgeInv'
<1> DEFINE s == Sid
           old == cache[s]
           new == NewBuffer
           q == bridge.snap
           filled == Filled(memory, new, q, 2)
<1>1. /\ UNCHANGED <<mainVars, arg, ctx, pipe, stream>> /\ bridge.at = "convert" /\ HasMemory
      /\ memory' = ReleasedOld(filled, old)
      /\ cache' = [cache EXCEPT ![s] = new]
      /\ bridge' = [bridge EXCEPT !.at = "crop", !.frame = new]
  BY DEF Convert, Working, Mine, At
<1>2. /\ s \in Sids /\ q \in Pictures /\ q.sid = s /\ NotLater(q.decoder, stream[s])
      /\ bridge.frame = None /\ new \in Buffers /\ memory[new].refs = 0
  BY <1>1, NewBufferIs DEF BridgeInv, InHand, Decoders
<1>3. cache \in [Sids -> Buffers \cup {None}] /\ memory \in [Buffers -> Pages] /\ Paired(memory)
  BY MemoryIs DEF BridgeInv, BridgeType
<1>4. \A y \in Buffers : InCache(y) \in Nat /\ memory[y].refs \in Nat /\ Same(None, y) = 0
  BY MemoryIs, Sizes, NobodyElse
<1>5. /\ bridge' \in BridgeStates /\ bridge'.at = "crop" /\ bridge'.snap = q
      /\ bridge'.frame = new /\ bridge'.req = bridge.req /\ bridge'.client = bridge.client
      /\ bridge'.place = bridge.place
  <2> HIDE DEF new
  <2> QED
    BY <1>1, <1>2 DEF BridgeInv, BridgeType, BridgeStates, Stages, RequestSteps
<1>6. old \in Buffers \cup {None} /\ (old # None => memory[old].refs # 0 /\ old # new)
  BY <1>2, <1>3, CachedPicture
<1>7. /\ cache' \in [Sids -> Buffers \cup {None}] /\ cache'[s] = new
      /\ \A y \in Sids \ {s} : cache'[y] = cache[y]
  <2> HIDE DEF new, s
  <2> QED
    BY <1>1, <1>2, <1>3
<1> HIDE DEF new, q
<1>8. /\ filled \in [Buffers -> Pages] /\ Paired(filled)
      /\ filled[new] = [refs |-> 2, picture |-> q]
      /\ \A y \in Buffers \ {new} : filled[y] = memory[y]
  BY <1>2, <1>3, FilledIs
<1>9. old # None => filled[old].refs # 0
  BY <1>6, <1>8
<1> HIDE DEF filled, old, s
<1>10. /\ memory' \in [Buffers -> Pages] /\ Paired(memory')
       /\ \A y \in Buffers :
            /\ memory'[y].refs = filled[y].refs - Same(old, y)
            /\ memory'[y].refs # 0 => memory'[y].picture = filled[y].picture
  BY <1>1, <1>6, <1>8, <1>9, ReleasedOldIs
<1>11. \A y \in Buffers : InCache(y)' = InCache(y) - Same(old, y) + Same(new, y)
  <2>1. ASSUME NEW y \in Buffers PROVE InCache(y)' = InCache(y) - Same(cache[s], y) + Same(cache'[s], y)
    BY <1>2, <1>7, CacheMoved
  <2> QED
    BY <1>7, <2>1 DEF old
<1>12. ASSUME NEW y \in Buffers
       PROVE  memory'[y].refs = memory[y].refs - InCache(y) + InCache(y)'
                                - Same(bridge.frame, y) + Same(bridge'.frame, y)
  <2>1. Same(old, y) \in Nat /\ Same(new, y) \in Nat
    BY DEF Same
  <2>2. filled[y].refs = memory[y].refs + Same(new, y) + Same(new, y)
    <3>1. CASE y = new
      BY <1>2, <1>8, <3>1 DEF Same
    <3>2. CASE y # new
      <4>1. filled[y] = memory[y] /\ Same(new, y) = 0
        BY <1>8, <3>2, NobodyElse
      <4> QED
        BY <1>4, <4>1
    <3> QED
      BY <3>1, <3>2
  <2>3. Same(bridge.frame, y) = 0 /\ bridge'.frame = new
    BY <1>2, <1>4, <1>5
  <2>4. /\ memory'[y].refs = filled[y].refs - Same(old, y)
        /\ InCache(y)' = InCache(y) - Same(old, y) + Same(new, y)
        /\ InCache(y) \in Nat /\ memory[y].refs \in Nat
    BY <1>4, <1>10, <1>11
  <2> QED
    BY <2>1, <2>2, <2>3, <2>4
<1>13. memory'[new].picture = q
  <2>1. filled[new].refs = 2 /\ filled[new].picture = q /\ Same(old, new) = 0
    BY <1>2, <1>6, <1>8, Sizes, NobodyElse
  <2>2. memory'[new].refs = 2 - 0
    BY <1>2, <1>10, <2>1
  <2> QED
    BY <1>2, <1>10, <2>1, <2>2
<1>14. Current'
  <2>1. [q EXCEPT !.decoder = q.decoder] = q /\ q.decoder <= q.decoder
    BY <1>2 DEF Pictures
  <2> QED
    BY <1>5, <1>13, <2>1 DEF Current
<1>15. ASSUME NEW y \in Sids, cache'[y] # None
       PROVE  \/ cache'[y] = cache[y] /\ (memory'[cache[y]].refs # 0 =>
                                        memory'[cache[y]].picture = memory[cache[y]].picture)
              \/ /\ memory'[cache'[y]].picture \in Pictures
                 /\ memory'[cache'[y]].picture.sid = y
                 /\ NotLater(memory'[cache'[y]].picture.decoder, stream[y])
  <2>1. CASE y = s
    BY <1>2, <1>7, <1>13, <2>1
  <2>2. CASE y # s
    <3>1. cache'[y] = cache[y] /\ cache[y] \in Buffers /\ memory[cache[y]].refs # 0
      BY <1>7, <1>15, <2>2, CachedPicture
    <3>2. filled[cache[y]] = memory[cache[y]]
      BY <1>2, <1>8, <3>1
    <3> QED
      BY <1>10, <3>1, <3>2
  <2> QED
    BY <2>1, <2>2
<1>16. bridge'.frame # None
  BY <1>2, <1>5, Sizes
<1> QED
  BY <1>1, <1>2, <1>5, <1>7, <1>10, <1>12, <1>14, <1>15, <1>16, PictureStep

(* No two streams share a picture. *)
LEMMA CachedOnce ==
  ASSUME BridgeInv, NEW b \in Buffers
  PROVE  InCache(b) = IF \E s \in Sids : cache[s] = b THEN 1 ELSE 0
<1>1. CASE \A s \in Sids : cache[s] # b
  BY <1>1, CacheCount DEF InCache
<1>2. CASE \E s \in Sids : cache[s] = b
  <2>1. PICK s \in Sids : cache[s] = b
    BY <1>2
  <2>2. ASSUME NEW y \in Sids, cache[y] = b PROVE y = s
    <3>1. b # None
      BY Sizes
    <3>2. memory[b].picture.sid = y /\ memory[b].picture.sid = s
      BY <2>1, <2>2, <3>1 DEF BridgeInv, Decoders
    <3> QED
      BY <3>2
  <2>3. {y \in Sids : cache[y] = b} = {s}
    BY <2>1, <2>2
  <2>4. Cardinality({s}) = 1
    BY FS_Singleton
  <2> QED
    BY <1>2, <2>3, <2>4 DEF InCache, CacheHolds
<1> QED
  BY <1>1, <1>2

LEMMA ClearCacheStep ==
  ASSUME BridgeInv, ClearCache
  PROVE  BridgeInv'
<1>1. /\ UNCHANGED <<mainVars, ctx, pipe, stream>> /\ bridge.at = "clear" /\ arg' = "freed"
      /\ memory' = [b \in Buffers |-> IF \E s \in Sids : cache[s] = b
                                      THEN Released(memory, b)[b] ELSE memory[b]]
      /\ cache' = [s \in Sids |-> None]
      /\ bridge' = [Idle EXCEPT !.at = "ended"]
  BY DEF ClearCache, Mine, At
<1>2. /\ bridge' \in BridgeStates /\ bridge'.at = "ended" /\ bridge'.req = None
      /\ bridge'.frame = None
  BY <1>1, IdleIs DEF Stages
<1>3. bridge.frame = None
  BY <1>1 DEF BridgeInv, InHand
<1>4. memory \in [Buffers -> Pages] /\ Paired(memory)
  BY MemoryIs
<1>5. ASSUME NEW b \in Buffers
      PROVE  /\ memory'[b] \in Pages /\ memory'[b].refs = memory[b].refs - InCache(b)
             /\ memory'[b].refs = 0 <=> memory'[b].picture = None
  <2>1. memory[b].refs \in Nat
    BY MemoryIs
  <2>2. CASE \E s \in Sids : cache[s] = b
    <3>1. memory[b].refs # 0 /\ InCache(b) = 1 /\ memory'[b] = Released(memory, b)[b]
      BY <1>1, <2>2, HeldPicture, CachedOnce
    <3>2. /\ Released(memory, b) \in [Buffers -> Pages] /\ Paired(Released(memory, b))
          /\ Released(memory, b)[b].refs = memory[b].refs - Same(b, b)
      BY <1>4, <3>1, ReleasedIs
    <3> QED
      BY <3>1, <3>2 DEF Paired, Same
  <2>3. CASE ~\E s \in Sids : cache[s] = b
    <3>1. InCache(b) = 0 /\ memory'[b] = memory[b]
      BY <1>1, <2>3, CachedOnce
    <3> QED
      BY <1>4, <2>1, <3>1 DEF Paired
  <2> QED
    BY <2>2, <2>3
<1>6. memory' \in [Buffers -> Pages] /\ cache' \in [Sids -> Buffers \cup {None}]
  BY <1>1, <1>5
<1>7. BridgeType'
  BY <1>1, <1>2, <1>6 DEF BridgeInv, BridgeType, mainVars
<1>8. PagesSound'
  BY <1>5 DEF PagesSound, Paired
<1>9. Exact'
  <2>1. ASSUME NEW b \in Buffers
        PROVE  memory'[b].refs = InCache(b)' + Same(bridge'.frame, b) + InPipes(b)'
    <3>1. /\ memory[b].refs = InCache(b) + Same(bridge.frame, b) + InPipes(b)
          /\ InCache(b) \in Nat /\ InPipes(b) \in Nat /\ memory[b].refs \in Nat
      BY MemoryIs
    <3>2. Same(bridge'.frame, b) = 0 /\ Same(bridge.frame, b) = 0
      BY <1>2, <1>3, Sizes, NobodyElse
    <3>3. InPipes(b)' = InPipes(b)
      BY <1>1 DEF InPipes, PipesHold
    <3>4. CacheHolds(cache', b) = 0
      BY <1>1, Sizes, CacheCount
    <3>5. InCache(b)' = 0
      BY <3>4 DEF InCache, CacheHolds
    <3>6. memory'[b].refs = memory[b].refs - InCache(b)
      BY <1>5
    <3> QED
      BY <3>1, <3>2, <3>3, <3>5, <3>6
  <2> QED
    BY <2>1 DEF Exact
<1>10. InHand'
  BY <1>2 DEF InHand, RequestSteps
<1>11. Order'
  BY <1>1, Working0 DEF Stages
<1>12. Decoders'
  <2>1. Decoders
    BY DEF BridgeInv
  <2> QED
    BY <1>1, <1>2, <2>1 DEF Decoders
<1>13. Current'
  BY <1>2 DEF Current
<1> QED
  BY <1>7, <1>8, <1>9, <1>10, <1>11, <1>12, <1>13 DEF BridgeInv

-----------------------------------------------------------------------------
(* The specification. *)

LEMMA BridgeInit ==
  ASSUME Init
  PROVE  BridgeInv
<1>1. /\ bridge = [at |-> "none", client |-> None, req |-> None, place |-> None,
                   late |-> FALSE, snap |-> None, frame |-> None]
      /\ cache = [s \in Sids |-> None] /\ memory = [b \in Buffers |-> Blank]
      /\ pipe = [c \in Clients |-> [i \in Places |-> None]]
  BY DEF Init, Idle
<1>2. PICK colour \in Colours : stream = [s \in Sids |-> NoStream(colour)]
  BY DEF Init
<1>3. NoStream(colour) \in Streams /\ NoStream(colour).frame = None
  BY DEF NoStream, Streams
<1>4. bridge \in BridgeStates
  BY <1>1, IdleRecord, Zenon DEF Stages
<1>5. memory \in [Buffers -> Pages]
  BY <1>1, BlankPage
<1>6. stream \in [Sids -> Streams] /\ \A s \in Sids : stream[s].frame = None
  BY <1>2, <1>3
<1>7. BridgeType
  BY <1>1, <1>4, <1>5, <1>6 DEF Init, BridgeType
<1>8. bridge.at = "none" /\ bridge.req = None /\ bridge.frame = None
  BY <1>1
<1>9. InHand /\ Order /\ Current
  BY <1>8 DEF InHand, Order, Stopped, Current, RequestSteps, Init
<1>10. \A b \in Buffers : memory[b].refs = 0 /\ memory[b].picture = None
  BY <1>1, BlankPage
<1>11. PagesSound
  BY <1>10 DEF PagesSound, Paired
<1>12. ASSUME NEW b \in Buffers
       PROVE  memory[b].refs = InCache(b) + Same(bridge.frame, b) + InPipes(b)
  <2>1. CacheHolds(cache, b) = 0 /\ PipesHold(pipe, b) = 0 /\ Same(bridge.frame, b) = 0
    BY <1>1, <1>8, Sizes, CacheCount, PipesCount, NobodyElse
  <2> QED
    BY <1>10, <2>1 DEF InCache, InPipes
<1>13. Decoders
  BY <1>1, <1>6, <1>8 DEF Decoders
<1> QED
  BY <1>7, <1>9, <1>11, <1>12, <1>13 DEF BridgeInv, Exact

LEMMA BridgeNext ==
  ASSUME BridgeInv, [Next]_vars
  PROVE  BridgeInv'
<1>1. CASE UNCHANGED vars
  <2>1. UNCHANGED <<mainVars, arg, ctx, bridge, memoryVars, pipe>> /\ stream' = stream
    BY <1>1 DEF vars
  <2>2. stream \in [Sids -> Streams] /\ \A s \in Sids : stream[s].made \in Nat
    BY DEF BridgeInv, BridgeType, Streams
  <2> QED
    BY <2>1, <2>2, StreamStep
<1>2. CASE Handlers
  BY <1>2, HandlersKeep
<1>3. CASE Peers
  BY <1>3, ReceiveStep, MessageDoneStep DEF Peers
<1>4. CASE BridgeThread
  BY <1>4, StartStep, RequestStep, FindCachedStep, ConvertStep, CropFailsStep, CropStep,
     SendFrameStep, SendTextStep, TerminateStep, ClearCacheStep DEF BridgeThread
<1>5. CASE DeadlinePasses
  BY <1>5, DeadlineStep
<1>6. CASE MainThread
  BY <1>6, MainThreadKeeps
<1> QED
  BY <1>1, <1>2, <1>3, <1>4, <1>5, <1>6 DEF Next

(* What the thread has in hand, the order of the shutdown, the counts, the *)
(* decoders and the picture in hand, together (zmq_bridge_thread,          *)
(* zmq_bridge_shutdown).                                                   *)
THEOREM BridgeInvariant == Spec => []BridgeInv
  BY BridgeInit, BridgeNext, PTL DEF Spec

LEMMA BridgeTypeOK ==
  ASSUME BridgeInv
  PROVE  TypeOK
  BY DEF BridgeInv, BridgeType, BridgeStates, Stages, Pages, Streams, InHand, PagesSound, Paired,
         TypeOK

(* The reference count of a picture is the number of those who hold it,    *)
(* whatever the server, the clients, libzmq and the main thread do         *)
(* (retain_bgr_frame, free_bgr_frame).                                     *)
THEOREM BridgeReferences == Spec => []ReferencesExact
<1>1. BridgeInv => ReferencesExact
  <2> SUFFICES ASSUME BridgeInv PROVE ReferencesExact
    OBVIOUS
  <2>1. ASSUME NEW b \in Buffers
        PROVE  memory[b].refs = Cardinality({s \in Sids : cache[s] = b})
                                + (IF bridge.frame = b THEN 1 ELSE 0)
                                + Cardinality({m \in Clients \X Places : pipe[m[1]][m[2]] = b})
    BY DEF BridgeInv, Exact, InCache, InPipes, CacheHolds, PipesHold, Same
  <2> QED
    BY <2>1, BridgeTypeOK DEF ReferencesExact
<1> QED
  BY <1>1, BridgeInvariant, PTL

(* What is sent is the frame of the snapshot in the format of the          *)
(* snapshot, at most taken for one of an earlier decoder, and the streams  *)
(* are there as long as a request is served (convert_last_frame_to_bgr,    *)
(* zmq_bridge_shutdown).                                                   *)
THEOREM BridgeAnswers == Spec => []AnswersCurrent
<1>1. BridgeInv => AnswersCurrent
  BY DEF BridgeInv, Current, Order, Stopped, AnswersCurrent, RequestSteps
<1> QED
  BY <1>1, BridgeInvariant, PTL
=============================================================================
