---------------------------- MODULE DecoderProofs ---------------------------
(***************************************************************************)
(* For every set of streams and readers, every choice of backends and      *)
(* every number of packets and faults:                                     *)
(*                                                                         *)
(* The CUDA device context is shared exactly.  DeviceShared is not         *)
(* inductive by itself: it needs that a decoder is shared only once it has *)
(* got to avcodec_open2, so that none that is counted is overwritten by a  *)
(* new one, and that the device a thread has made is a device (SharingInv).*)
(*                                                                         *)
(* The references of devices and of statistics are exact, and a stream     *)
(* shows its decoder's newest picture.  Both need how a stream's stage,    *)
(* decoder and pictures go together (ReferencesInv): a decoder exists only *)
(* between its creation and its end, a picture is kept only while a packet *)
(* is decoded and belongs to the stream's decoder, and a decoder that is   *)
(* not shared has no device.                                               *)
(***************************************************************************)
EXTENDS Decoder, FiniteSetTheorems, TLAPS

Stages == {"closed", "create", "init", "make", "install", "open", "ready", "parse", "receive"}

InitStates == [at : Stages, tries : Seq(Hardware), made : Nat, asked : SUBSET Hardware]
CudaStates == [master : Nat, users : Nat]
Decoders   == [id : Nat, backend : Hardware \cup {"none"}, device : Nat, shared : BOOLEAN,
               pts : Nat, inside : Seq(Nat), newest : Nat]

SharingType ==
  /\ cuda \in CudaStates
  /\ init \in [Streams -> InitStates]
  /\ decoder \in [Streams -> Decoders]

TriesLeft ==
  \A s \in Streams :
    init[s].at \in {"create", "init", "make", "install", "open"} => init[s].tries # <<>>

SharedWhenOpen ==
  \A s \in Streams :
    decoder[s].shared => init[s].at \in {"open", "ready", "parse", "receive"}

MadeWhenInstalled == \A s \in Streams : init[s].at = "install" => init[s].made # 0

(* What is numbered stays the same. *)
Domains == DOMAIN stats = Numbers /\ DOMAIN devRefs = Devices

SharingInv ==
  SharingType /\ TriesLeft /\ SharedWhenOpen /\ MadeWhenInstalled /\ DeviceShared

-----------------------------------------------------------------------------
(* What a stream's sharing means for the set of those that share.          *)

LEMMA SharingSame ==
  ASSUME \A x \in Streams : decoder'[x].shared = decoder[x].shared
  PROVE  Sharing' = Sharing
  BY DEF Sharing

LEMMA SharingFinite == IsFiniteSet(Sharing) /\ Cardinality(Sharing) \in Nat
<1>1. Sharing \in SUBSET Streams /\ IsFiniteSet(Streams)
  BY DecoderAssumption DEF Sharing, DecoderAssumption
<1>2. IsFiniteSet(Sharing)
  BY <1>1, FS_Subset
<1> QED
  BY <1>2, FS_CardinalityType

LEMMA SharingJoined ==
  ASSUME NEW s \in Streams, ~decoder[s].shared, decoder'[s].shared,
         \A x \in Streams \ {s} : decoder'[x].shared = decoder[x].shared
  PROVE  Sharing' = Sharing \cup {s} /\ Cardinality(Sharing') = Cardinality(Sharing) + 1
<1>1. Sharing' = Sharing \cup {s} /\ s \notin Sharing
  BY DEF Sharing
<1> QED
  BY <1>1, SharingFinite, FS_AddElement

LEMMA SharingLeft ==
  ASSUME NEW s \in Streams, decoder[s].shared, ~decoder'[s].shared,
         \A x \in Streams \ {s} : decoder'[x].shared = decoder[x].shared
  PROVE  Sharing' = Sharing \ {s} /\ Cardinality(Sharing') = Cardinality(Sharing) - 1
<1>1. Sharing' = Sharing \ {s} /\ s \in Sharing
  BY DEF Sharing
<1> QED
  BY <1>1, SharingFinite, FS_RemoveElement

(* Nobody shares when there are no users. *)
LEMMA NoUsers == ASSUME DeviceShared PROVE cuda.users = 0 <=> Sharing = {}
<1>1. Cardinality(Sharing) = 0 <=> Sharing = {}
  BY SharingFinite, FS_EmptySet
<1> QED
  BY <1>1 DEF DeviceShared

(* A step that changes neither the master, nor who shares, nor the devices *)
(* of those who do.                                                        *)
LEMMA SharingKept ==
  ASSUME DeviceShared, UNCHANGED cuda,
         \A x \in Streams : /\ decoder'[x].shared = decoder[x].shared
                            /\ decoder[x].shared => decoder'[x].device = decoder[x].device
  PROVE  DeviceShared'
<1>1. Sharing' = Sharing
  BY SharingSame
<1>2. \A x \in Sharing' : decoder'[x].device = cuda'.master
  BY <1>1 DEF Sharing, DeviceShared
<1> QED
  BY <1>1, <1>2 DEF DeviceShared

-----------------------------------------------------------------------------
LEMMA SharingInit == Init => SharingInv
<1> SUFFICES ASSUME Init PROVE SharingInv
  OBVIOUS
<1>1. SharingType
  BY DEF Init, SharingType, CudaStates, InitStates, Decoders, Closed, NoDecoder, NewDecoder, Stages, Hardware
<1>2. \A s \in Streams : init[s].at = "closed" /\ ~decoder[s].shared
  BY DEF Init, Closed, NoDecoder, NewDecoder
<1>3. Sharing = {}
  BY <1>2 DEF Sharing
<1>4. DeviceShared
  BY <1>3, FS_EmptySet DEF DeviceShared, Init
<1> QED
  BY <1>1, <1>2, <1>4 DEF SharingInv, TriesLeft, SharedWhenOpen, MadeWhenInstalled

(* A step of stream s, after which its init is i and its decoder d: what   *)
(* has to be looked at of it, as the other streams are left alone.         *)
StreamStep(s, i, d) ==
  /\ init' = [init EXCEPT ![s] = i] /\ decoder' = [decoder EXCEPT ![s] = d]
  /\ i \in InitStates /\ d \in Decoders
  /\ i.at \in {"create", "init", "make", "install", "open"} => i.tries # <<>>
  /\ d.shared => i.at \in {"open", "ready", "parse", "receive"}
  /\ i.at = "install" => i.made # 0

LEMMA OneStream ==
  ASSUME SharingInv, NEW s \in Streams, NEW i, NEW d, StreamStep(s, i, d),
         cuda' \in CudaStates
  PROVE  /\ SharingType' /\ TriesLeft' /\ SharedWhenOpen' /\ MadeWhenInstalled'
         /\ \A x \in Streams : decoder'[x] = IF x = s THEN d ELSE decoder[x]
<1>1. /\ init \in [Streams -> InitStates] /\ decoder \in [Streams -> Decoders]
  BY DEF SharingInv, SharingType
<1>2. \A x \in Streams : /\ init'[x] = IF x = s THEN i ELSE init[x]
                         /\ decoder'[x] = IF x = s THEN d ELSE decoder[x]
  BY <1>1 DEF StreamStep
<1>3. SharingType'
  BY <1>1 DEF SharingType, StreamStep
<1>4. TriesLeft' /\ SharedWhenOpen' /\ MadeWhenInstalled'
  BY <1>2 DEF SharingInv, TriesLeft, SharedWhenOpen, MadeWhenInstalled, StreamStep
<1> QED
  BY <1>2, <1>3, <1>4

(* The same for a step that leaves the shared device alone. *)
LEMMA OneStreamKept ==
  ASSUME SharingInv, NEW s \in Streams, NEW i, NEW d, StreamStep(s, i, d), UNCHANGED cuda,
         d.shared = decoder[s].shared,
         d.shared => d.device = decoder[s].device
  PROVE  SharingInv'
<1>1. cuda' \in CudaStates
  BY DEF SharingInv, SharingType
<1>2. /\ SharingType' /\ TriesLeft' /\ SharedWhenOpen' /\ MadeWhenInstalled'
      /\ \A x \in Streams : decoder'[x] = IF x = s THEN d ELSE decoder[x]
  BY <1>1, OneStream
<1>3. DeviceShared'
  BY <1>2, SharingKept DEF SharingInv
<1> QED
  BY <1>2, <1>3 DEF SharingInv

-----------------------------------------------------------------------------
(* The steps of stream_init_decoder that leave the device alone.           *)

LEMMA StreamFacts ==
  ASSUME SharingInv, NEW s \in Streams
  PROVE  /\ init[s] \in InitStates /\ decoder[s] \in Decoders
         /\ init = [init EXCEPT ![s] = init[s]] /\ decoder = [decoder EXCEPT ![s] = decoder[s]]
         /\ init[s].at \in {"create", "init", "make", "install", "open"} => init[s].tries # <<>>
         /\ decoder[s].shared => init[s].at \in {"open", "ready", "parse", "receive"}
         /\ init[s].at = "install" => init[s].made # 0
  BY DEF SharingInv, SharingType, TriesLeft, SharedWhenOpen, MadeWhenInstalled

LEMMA RouteTries ==
  ASSUME NEW b \in {"intel", "nvidia", "cpu"}
  PROVE  AttemptedBackends(b) \in Seq(Hardware) /\ AttemptedBackends(b) # <<>>
<1>1. CASE b = "intel"
  <2>1. AttemptedBackends(b) = <<"intel", "nvidia", "cpu">>
    BY <1>1 DEF AttemptedBackends
  <2>2. <<"intel", "nvidia", "cpu">> \in Seq(Hardware) /\ Len(<<"intel", "nvidia", "cpu">>) = 3
    BY DEF Hardware
  <2> QED
    BY <2>1, <2>2
<1>2. CASE b = "nvidia"
  <2>1. AttemptedBackends(b) = <<"nvidia", "cpu">>
    BY <1>2 DEF AttemptedBackends
  <2>2. <<"nvidia", "cpu">> \in Seq(Hardware) /\ Len(<<"nvidia", "cpu">>) = 2
    BY DEF Hardware
  <2> QED
    BY <2>1, <2>2
<1>3. CASE b = "cpu"
  <2>1. AttemptedBackends(b) = <<"cpu">>
    BY <1>3 DEF AttemptedBackends
  <2>2. <<"cpu">> \in Seq(Hardware) /\ Len(<<"cpu">>) = 1
    BY DEF Hardware
  <2> QED
    BY <2>1, <2>2
<1> QED
  BY <1>1, <1>2, <1>3

LEMMA StartStep ==
  ASSUME SharingInv, NEW s \in Streams, StreamInitDecoder(s)
  PROVE  SharingInv'
<1>1. PICK asked \in Backends :
        init' = [init EXCEPT ![s] = [at |-> "create", made |-> 0, asked |-> {Route(asked)},
                                     tries |-> AttemptedBackends(Route(asked))]]
  BY DEF StreamInitDecoder
<1>2. Route(asked) \in {"intel", "nvidia", "cpu"}
  BY DecoderAssumption DEF DecoderAssumption, Route
<1>3. AttemptedBackends(Route(asked)) \in Seq(Hardware) /\ AttemptedBackends(Route(asked)) # <<>>
  BY <1>2, RouteTries
<1> DEFINE i == [at |-> "create", made |-> 0, asked |-> {Route(asked)},
                 tries |-> AttemptedBackends(Route(asked))]
<1>4. i \in InitStates /\ i.at = "create" /\ i.tries # <<>>
  BY <1>2, <1>3 DEF InitStates, Stages, Hardware
<1>5. UNCHANGED <<cuda, decoder>> /\ init[s].at = "closed"
  BY DEF StreamInitDecoder
<1>6. init' = [init EXCEPT ![s] = i]
  BY <1>1
<1>7. /\ decoder[s] \in Decoders /\ ~decoder[s].shared
      /\ decoder' = [decoder EXCEPT ![s] = decoder[s]]
  BY <1>5, StreamFacts
<1> HIDE DEF i
<1>8. StreamStep(s, i, decoder[s])
  BY <1>4, <1>6, <1>7 DEF StreamStep
<1> QED
  BY <1>5, <1>8, OneStreamKept

(* The state of init after NextTry. *)
LEMMA NextTryFacts ==
  ASSUME SharingInv, NEW s \in Streams, NextTry(s), init[s].tries # <<>>
  PROVE  \E i \in InitStates :
           /\ init' = [init EXCEPT ![s] = i]
           /\ i.at \in {"create", "closed"}
           /\ i.at = "create" => i.tries # <<>>
<1> DEFINE more == [init[s] EXCEPT !.at = "create", !.tries = Tail(init[s].tries)]
<1>1. init[s] \in InitStates /\ init[s].tries \in Seq(Hardware)
  BY StreamFacts DEF InitStates
<1>2. init' = [init EXCEPT ![s] = IF Len(init[s].tries) = 1 THEN Closed ELSE more]
  BY DEF NextTry, SharingInv, SharingType
<1>3. CASE Len(init[s].tries) = 1
  <2>1. init' = [init EXCEPT ![s] = Closed]
    BY <1>2, <1>3
  <2>2. Closed \in InitStates /\ Closed.at = "closed"
    BY DEF Closed, InitStates, Stages, Hardware
  <2> QED
    BY <2>1, <2>2
<1>4. CASE Len(init[s].tries) # 1
  <2>1. Len(init[s].tries) \in Nat /\ Len(init[s].tries) # 0
    BY <1>1
  <2>2. Tail(init[s].tries) \in Seq(Hardware)
    BY <1>1
  <2>3. Len(Tail(init[s].tries)) = Len(init[s].tries) - 1
    BY <1>1
  <2>4. Tail(init[s].tries) # <<>>
    <3>1. Len(Tail(init[s].tries)) # 0
      BY <1>4, <2>1, <2>3
    <3>2. Len(<<>>) = 0
      OBVIOUS
    <3> QED
      BY <3>1, <3>2
  <2>5. more \in InitStates /\ more.at = "create" /\ more.tries # <<>>
    BY <1>1, <2>2, <2>4 DEF InitStates, Stages
  <2>6. init' = [init EXCEPT ![s] = more]
    BY <1>2, <1>4
  <2> HIDE DEF more
  <2> QED
    BY <2>5, <2>6
<1> QED
  BY <1>3, <1>4

LEMMA CreateStep ==
  ASSUME SharingInv, Domains, NEW s \in Streams, DecoderCreate(s)
  PROVE  SharingInv'
<1> DEFINE i == [init[s] EXCEPT !.at = "init"]
<1>1. /\ init[s].at = "create" /\ ~decoder[s].shared /\ init[s].tries # <<>>
      /\ UNCHANGED cuda /\ init[s] \in InitStates
  BY StreamFacts DEF DecoderCreate, CudaQuiet
<1>2. PICK n \in Unused(stats) :
        decoder' = [decoder EXCEPT ![s] = NewDecoder(n, Head(init[s].tries))]
  BY DEF DecoderCreate
<1> DEFINE d == NewDecoder(n, Head(init[s].tries))
<1>3. n \in Nat
  BY DecoderAssumption, FS_CardinalityType DEF Unused, Numbers, Domains, DecoderAssumption
<1>4. Head(init[s].tries) \in Hardware
  BY <1>1 DEF InitStates
<1>5. d \in Decoders /\ ~d.shared
  <2>1. <<>> \in Seq(Nat)
    OBVIOUS
  <2> QED
    BY <1>3, <1>4, <2>1 DEF Decoders, NewDecoder
<1>6. i \in InitStates /\ i.at = "init" /\ i.tries # <<>>
  BY <1>1 DEF InitStates, Stages
<1>7. init' = [init EXCEPT ![s] = i]
  BY DEF DecoderCreate, Goto, SharingInv, SharingType
<1>8. decoder' = [decoder EXCEPT ![s] = d]
  BY <1>2
<1>9. d.shared = decoder[s].shared
  BY <1>1, <1>5, StreamFacts DEF Decoders
<1> HIDE DEF i, d
<1>10. StreamStep(s, i, d)
  BY <1>5, <1>6, <1>7, <1>8 DEF StreamStep
<1> QED
  BY <1>1, <1>5, <1>9, <1>10, OneStreamKept

LEMMA CreateFailsStep ==
  ASSUME SharingInv, NEW s \in Streams, DecoderCreateFails(s)
  PROVE  SharingInv'
<1>1. /\ ~decoder[s].shared /\ UNCHANGED <<cuda, decoder>> /\ init[s].tries # <<>>
      /\ NextTry(s)
  BY StreamFacts DEF DecoderCreateFails, CudaQuiet
<1>2. PICK i \in InitStates : /\ init' = [init EXCEPT ![s] = i]
                              /\ i.at \in {"create", "closed"}
                              /\ i.at = "create" => i.tries # <<>>
  BY <1>1, NextTryFacts
<1>3. decoder[s] \in Decoders /\ decoder' = [decoder EXCEPT ![s] = decoder[s]]
  BY <1>1, StreamFacts
<1>4. StreamStep(s, i, decoder[s])
  BY <1>1, <1>2, <1>3 DEF StreamStep
<1> QED
  BY <1>1, <1>4, OneStreamKept

(* The way through decoder_init to avcodec_open2 without the GPU. *)
LEMMA SoftwareStep ==
  ASSUME SharingInv, NEW s \in Streams, InitSoftware(s) \/ InitVaapi(s) \/ NoCudaYet(s)
  PROVE  SharingInv'
<1> DEFINE d == [decoder[s] EXCEPT !.backend = "cpu"]
           stay == decoder' = decoder
           cpu == decoder' = [decoder EXCEPT ![s] = d]
<1>1. /\ init[s].at = "init" /\ UNCHANGED cuda
      /\ decoder' = decoder \/ decoder' = [decoder EXCEPT ![s] = d]
      /\ \E a \in {"open", "make"} : init' = [init EXCEPT ![s].at = a]
  BY DEF InitSoftware, InitVaapi, NoCudaYet, CudaQuiet, Goto, ToCpu, SharingInv, SharingType
<1>2. PICK a \in {"open", "make"} : init' = [init EXCEPT ![s].at = a]
  BY <1>1
<1> DEFINE i == [init[s] EXCEPT !.at = a]
<1>3. /\ init[s] \in InitStates /\ init[s].tries # <<>> /\ ~decoder[s].shared
      /\ decoder[s] \in Decoders /\ decoder = [decoder EXCEPT ![s] = decoder[s]]
  BY <1>1, StreamFacts
<1>4. i \in InitStates /\ i.at \in {"open", "make"} /\ i.tries # <<>>
  BY <1>3 DEF InitStates, Stages
<1>5. init' = [init EXCEPT ![s] = i]
  BY <1>2 DEF SharingInv, SharingType
<1>6. d \in Decoders /\ d.shared = decoder[s].shared /\ d.device = decoder[s].device
  BY <1>3 DEF Decoders, Hardware
<1> HIDE DEF i, d
<1>7. CASE stay
  <2>1. StreamStep(s, i, decoder[s])
    BY <1>3, <1>4, <1>5, <1>7 DEF StreamStep
  <2> QED
    BY <1>1, <2>1, OneStreamKept
<1>8. CASE cpu
  <2>1. StreamStep(s, i, d)
    BY <1>3, <1>4, <1>5, <1>6, <1>8 DEF StreamStep
  <2> QED
    BY <1>1, <1>6, <2>1, OneStreamKept
<1> QED
  BY <1>1, <1>7, <1>8

-----------------------------------------------------------------------------
(* The shared device: a decoder joins, goes without, or leaves.            *)

(* A decoder joins the device that is there, or brings the first. *)
LEMMA ShareStep ==
  ASSUME SharingInv, NEW s \in Streams, ~decoder[s].shared, init[s].tries # <<>>,
         NEW m \in Nat \ {0}, Share(s, m),
         cuda.master \in {0, m}, cuda' = [master |-> m, users |-> cuda.users + 1]
  PROVE  SharingInv'
<1> DEFINE i == [init[s] EXCEPT !.at = "open", !.made = 0, !.asked = @ \cup {"nvidia"}]
           d == [decoder[s] EXCEPT !.device = m, !.shared = TRUE]
<1>1. init[s] \in InitStates /\ decoder[s] \in Decoders /\ cuda \in CudaStates
  BY StreamFacts DEF SharingInv, SharingType
<1>2. i \in InitStates /\ i.at = "open" /\ i.tries # <<>>
  BY <1>1 DEF InitStates, Stages, Hardware
<1>3. d \in Decoders /\ d.shared /\ d.device = m
  BY <1>1 DEF Decoders
<1>4. init' = [init EXCEPT ![s] = i] /\ decoder' = [decoder EXCEPT ![s] = d]
  BY DEF Share, SharingInv, SharingType
<1>5. cuda' \in CudaStates /\ cuda'.master = m /\ cuda'.users = cuda.users + 1
  BY <1>1 DEF CudaStates
<1> HIDE DEF i, d
<1>a. StreamStep(s, i, d)
  BY <1>2, <1>3, <1>4 DEF StreamStep
<1>6. /\ SharingType' /\ TriesLeft' /\ SharedWhenOpen' /\ MadeWhenInstalled'
      /\ \A x \in Streams : decoder'[x] = IF x = s THEN d ELSE decoder[x]
  BY <1>5, <1>a, OneStream
<1>7. Sharing' = Sharing \cup {s} /\ Cardinality(Sharing') = Cardinality(Sharing) + 1
  BY <1>3, <1>6, SharingJoined
<1>8. \A x \in Sharing' : decoder'[x].device = m
  BY <1>3, <1>6, <1>7 DEF Sharing, SharingInv, DeviceShared
<1>9. DeviceShared'
  BY <1>5, <1>7, <1>8 DEF DeviceShared, SharingInv
<1> QED
  BY <1>6, <1>9 DEF SharingInv

(* A decoder goes without; the device stays if it has users. *)
LEMMA NoShareStep ==
  ASSUME SharingInv, NEW s \in Streams, ~decoder[s].shared, init[s].tries # <<>>, NoShare(s),
         \/ UNCHANGED cuda
         \/ \E m \in Nat : cuda' = [cuda EXCEPT !.master = IF cuda.users = 0 THEN 0 ELSE m]
                          /\ (cuda.master # 0 => m = cuda.master)
  PROVE  SharingInv'
<1> DEFINE i == [init[s] EXCEPT !.at = "open", !.made = 0, !.asked = @ \cup {"nvidia"}]
           d == [decoder[s] EXCEPT !.backend = "cpu"]
<1>1. /\ init[s] \in InitStates /\ decoder[s] \in Decoders
      /\ cuda \in CudaStates /\ DeviceShared
  BY StreamFacts DEF SharingInv, SharingType
<1>2. i \in InitStates /\ i.at = "open" /\ i.tries # <<>>
  BY <1>1 DEF InitStates, Stages, Hardware
<1>3. d \in Decoders /\ d.shared = decoder[s].shared /\ d.device = decoder[s].device
  BY <1>1 DEF Decoders, Hardware
<1>4. init' = [init EXCEPT ![s] = i] /\ decoder' = [decoder EXCEPT ![s] = d]
  BY DEF NoShare, ToCpu, SharingInv, SharingType
<1>5. cuda.users = 0 <=> cuda.master = 0
  BY <1>1, NoUsers DEF DeviceShared
<1>6. UNCHANGED cuda
  BY <1>1, <1>5 DEF CudaStates
<1> HIDE DEF i, d
<1>7. StreamStep(s, i, d)
  BY <1>1, <1>2, <1>3, <1>4 DEF StreamStep
<1> QED
  BY <1>3, <1>6, <1>7, OneStreamKept

LEMMA AcquireStep ==
  ASSUME SharingInv, NEW s \in Streams, AcquireCuda(s)
  PROVE  SharingInv'
<1>1. ~decoder[s].shared /\ init[s].tries # <<>> /\ cuda \in CudaStates
  BY StreamFacts DEF AcquireCuda, SharingInv, SharingType
<1>2. CASE Share(s, cuda.master) /\ cuda' = [cuda EXCEPT !.users = @ + 1]
  <2>1. cuda' = [master |-> cuda.master, users |-> cuda.users + 1]
    BY <1>1, <1>2 DEF CudaStates
  <2>2. cuda.master \in Nat \ {0}
    BY <1>1 DEF CudaStates, AcquireCuda
  <2> QED
    BY <1>1, <1>2, <2>1, <2>2, ShareStep
<1>3. CASE NoShare(s) /\ CudaQuiet
  BY <1>1, <1>3, NoShareStep DEF CudaQuiet
<1> QED
  BY <1>2, <1>3 DEF AcquireCuda

LEMMA MakeStep ==
  ASSUME SharingInv, Domains, NEW s \in Streams, MakeCuda(s)
  PROVE  SharingInv'
<1>1. /\ ~decoder[s].shared /\ init[s].tries # <<>> /\ init[s] \in InitStates
      /\ decoder[s] \in Decoders /\ decoder = [decoder EXCEPT ![s] = decoder[s]]
      /\ UNCHANGED cuda
  BY StreamFacts DEF MakeCuda
<1>2. CASE NoShare(s)
  BY <1>1, <1>2, NoShareStep
<1>3. ASSUME NEW n \in Unused(devRefs), UNCHANGED decoder,
             init' = [init EXCEPT ![s].at = "install", ![s].made = n]
      PROVE  SharingInv'
  <2> DEFINE i == [init[s] EXCEPT !.at = "install", !.made = n]
  <2>1. n \in Nat /\ n # 0
    BY DecoderAssumption, FS_CardinalityType DEF Unused, Devices, Domains, DecoderAssumption
  <2>2. i \in InitStates /\ i.at = "install" /\ i.tries # <<>> /\ i.made # 0
    BY <1>1, <2>1 DEF InitStates, Stages
  <2>3. init' = [init EXCEPT ![s] = i]
    BY <1>3 DEF SharingInv, SharingType
  <2> HIDE DEF i
  <2>4. StreamStep(s, i, decoder[s])
    BY <1>1, <1>3, <2>2, <2>3 DEF StreamStep
  <2> QED
    BY <1>1, <2>4, OneStreamKept
<1> QED
  BY <1>2, <1>3 DEF MakeCuda

LEMMA InstallStep ==
  ASSUME SharingInv, NEW s \in Streams, InstallCuda(s)
  PROVE  SharingInv'
<1> DEFINE master == IF cuda.master = 0 THEN init[s].made ELSE cuda.master
<1>1. /\ ~decoder[s].shared /\ init[s].tries # <<>> /\ cuda \in CudaStates
      /\ init[s] \in InitStates /\ init[s].made # 0
  BY StreamFacts DEF InstallCuda, SharingInv, SharingType
<1>2. master \in Nat \ {0} /\ cuda.master \in {0, master}
  BY <1>1 DEF CudaStates, InitStates
<1>3. \/ Share(s, master) /\ cuda' = [master |-> master, users |-> cuda.users + 1]
      \/ NoShare(s) /\ cuda' = [cuda EXCEPT !.master = IF cuda.users = 0 THEN 0 ELSE master]
  BY DEF InstallCuda
<1>4. cuda.master # 0 => master = cuda.master
  OBVIOUS
<1> HIDE DEF master
<1>5. CASE Share(s, master) /\ cuda' = [master |-> master, users |-> cuda.users + 1]
  BY <1>1, <1>2, <1>5, ShareStep
<1>6. CASE NoShare(s) /\ cuda' = [cuda EXCEPT !.master = IF cuda.users = 0 THEN 0 ELSE master]
  BY <1>1, <1>2, <1>4, <1>6, NoShareStep
<1> QED
  BY <1>3, <1>5, <1>6

(* A decoder is destroyed; the last one on the GPU takes the device along. *)
LEMMA LeaveStep ==
  ASSUME SharingInv, NEW s \in Streams, NEW i, StreamStep(s, i, NoDecoder), DecoderDestroy(s)
  PROVE  SharingInv'
<1>1. decoder[s] \in Decoders /\ cuda \in CudaStates /\ DeviceShared
  BY StreamFacts DEF SharingInv, SharingType
<1>2. NoDecoder.shared = FALSE
  BY DEF NoDecoder, NewDecoder
<1>3. CASE ~decoder[s].shared
  <2>1. UNCHANGED cuda
    BY <1>3 DEF DecoderDestroy
  <2>2. NoDecoder.shared = decoder[s].shared
    BY <1>1, <1>2, <1>3 DEF Decoders
  <2> QED
    BY <1>2, <2>1, <2>2, OneStreamKept
<1>4. CASE decoder[s].shared
  <2>1. cuda' = [master |-> IF cuda.users = 1 THEN 0 ELSE cuda.master, users |-> cuda.users - 1]
    BY <1>4 DEF DecoderDestroy, ReleaseSharedCuda
  <2>2. s \in Sharing /\ cuda.users # 0 /\ cuda.users = Cardinality(Sharing)
    BY <1>1, <1>4, NoUsers DEF Sharing, DeviceShared
  <2>3. cuda' \in CudaStates
    BY <1>1, <2>1, <2>2 DEF CudaStates
  <2>4. /\ SharingType' /\ TriesLeft' /\ SharedWhenOpen' /\ MadeWhenInstalled'
        /\ \A x \in Streams : decoder'[x] = IF x = s THEN NoDecoder ELSE decoder[x]
    BY <2>3, OneStream
  <2>5. Sharing' = Sharing \ {s} /\ Cardinality(Sharing') = Cardinality(Sharing) - 1
    BY <1>2, <1>4, <2>4, SharingLeft
  <2>6. IsFiniteSet(Sharing')
    BY <2>5, SharingFinite, FS_RemoveElement
  <2>7. Cardinality(Sharing') = 0 <=> Sharing' = {}
    BY <2>6, FS_EmptySet
  <2>8. cuda'.users = Cardinality(Sharing')
    BY <1>1, <2>1, <2>2, <2>5
  <2>9. cuda'.master # 0 <=> Sharing' # {}
    BY <1>1, <2>1, <2>2, <2>5, <2>7, SharingFinite DEF DeviceShared, CudaStates
  <2>10. \A x \in Sharing' : decoder'[x].device = cuda'.master
    <3>1. SUFFICES ASSUME NEW x \in Sharing' PROVE decoder'[x].device = cuda'.master
      OBVIOUS
    <3>2. x \in Sharing \ {s} /\ decoder'[x] = decoder[x]
      BY <2>4, <2>5 DEF Sharing
    <3>3. cuda'.master # 0
      BY <2>9
    <3>4. cuda'.master = cuda.master
      BY <2>1, <3>3
    <3> QED
      BY <1>1, <3>2, <3>4 DEF DeviceShared
  <2> QED
    BY <2>4, <2>8, <2>9, <2>10 DEF SharingInv, DeviceShared
<1> QED
  BY <1>3, <1>4

LEMMA NoDecoderType == NoDecoder \in Decoders /\ ~NoDecoder.shared
<1>1. <<>> \in Seq(Nat)
  OBVIOUS
<1> QED
  BY <1>1 DEF NoDecoder, NewDecoder, Decoders

LEMMA OpenFailsStep ==
  ASSUME SharingInv, NEW s \in Streams, OpenFails(s)
  PROVE  SharingInv'
<1>1. init[s].tries # <<>> /\ NextTry(s) /\ DecoderDestroy(s)
  BY StreamFacts DEF OpenFails
<1>2. PICK i \in InitStates : /\ init' = [init EXCEPT ![s] = i]
                              /\ i.at \in {"create", "closed"}
                              /\ i.at = "create" => i.tries # <<>>
  BY <1>1, NextTryFacts
<1>3. StreamStep(s, i, NoDecoder)
  BY <1>1, <1>2, NoDecoderType DEF StreamStep, DecoderDestroy
<1> QED
  BY <1>1, <1>3, LeaveStep

LEMMA CloseStep ==
  ASSUME SharingInv, NEW s \in Streams, StreamCloseDecoder(s)
  PROVE  SharingInv'
<1>1. init' = [init EXCEPT ![s] = Closed] /\ DecoderDestroy(s)
  BY DEF StreamCloseDecoder
<1>2. Closed \in InitStates /\ Closed.at = "closed"
  BY DEF Closed, InitStates, Stages, Hardware
<1>3. StreamStep(s, Closed, NoDecoder)
  BY <1>1, <1>2, NoDecoderType DEF StreamStep, DecoderDestroy
<1> QED
  BY <1>1, <1>3, LeaveStep

-----------------------------------------------------------------------------
(* Using the decoder. *)

(* Any step between the ready states that keeps what is shared. *)
LEMMA ReadyStep ==
  ASSUME SharingInv, NEW s \in Streams, UNCHANGED cuda,
         NEW a \in {"ready", "parse", "receive"}, NEW i \in InitStates, i.at = a,
         init' = [init EXCEPT ![s] = i],
         NEW d \in Decoders, decoder' = [decoder EXCEPT ![s] = d],
         d.shared = decoder[s].shared, d.device = decoder[s].device
  PROVE  SharingInv'
<1>1. StreamStep(s, i, d)
  BY DEF StreamStep
<1> QED
  BY <1>1, OneStreamKept

(* The state of init after a change of the stage. *)
LEMMA GotoFacts ==
  ASSUME SharingInv, NEW s \in Streams, NEW a \in Stages, Goto(s, a)
  PROVE  \E i \in InitStates : i.at = a /\ init' = [init EXCEPT ![s] = i]
<1> DEFINE i == [init[s] EXCEPT !.at = a]
<1>1. i \in InitStates /\ i.at = a
  BY StreamFacts DEF InitStates
<1>2. init' = [init EXCEPT ![s] = i]
  BY DEF Goto, SharingInv, SharingType
<1> QED
  BY <1>1, <1>2

(* A change of a decoder's packets and pictures. *)
LEMMA PicturesFacts ==
  ASSUME SharingInv, NEW s \in Streams, NEW n \in Nat, NEW q \in Seq(Nat), NEW m \in Nat,
         decoder' = [decoder EXCEPT ![s].pts = n, ![s].inside = q, ![s].newest = m]
  PROVE  \E d \in Decoders : /\ decoder' = [decoder EXCEPT ![s] = d]
                             /\ d.shared = decoder[s].shared /\ d.device = decoder[s].device
<1> DEFINE d == [decoder[s] EXCEPT !.pts = n, !.inside = q, !.newest = m]
<1>1. d \in Decoders /\ d.shared = decoder[s].shared /\ d.device = decoder[s].device
  BY StreamFacts DEF Decoders
<1>2. decoder' = [decoder EXCEPT ![s] = d]
  BY DEF SharingInv, SharingType
<1> QED
  BY <1>1, <1>2

LEMMA OpenCodecStep ==
  ASSUME SharingInv, NEW s \in Streams, OpenCodec(s)
  PROVE  SharingInv'
<1> DEFINE i == [init[s] EXCEPT !.at = "ready", !.tries = <<>>]
<1>1. <<>> \in Seq(Hardware) /\ init[s] \in InitStates
  BY StreamFacts
<1>2. i \in InitStates /\ i.at = "ready"
  BY <1>1 DEF InitStates, Stages
<1>3. init' = [init EXCEPT ![s] = i] /\ UNCHANGED <<cuda, decoder>>
  BY DEF OpenCodec, CudaQuiet, SharingInv, SharingType
<1>4. decoder[s] \in Decoders /\ decoder' = [decoder EXCEPT ![s] = decoder[s]]
  BY <1>3, StreamFacts
<1> HIDE DEF i
<1> QED
  BY <1>2, <1>3, <1>4, ReadyStep

(* The stages between which a decoder is only called. *)
LEMMA BetweenStep ==
  ASSUME SharingInv, NEW s \in Streams, BeginDecode(s) \/ EndDecode(s)
  PROVE  SharingInv'
<1>1. PICK a \in {"ready", "parse"} : Goto(s, a)
  BY DEF BeginDecode, EndDecode
<1>2. PICK i \in InitStates : i.at = a /\ init' = [init EXCEPT ![s] = i]
  BY <1>1, GotoFacts DEF Stages
<1>3. UNCHANGED <<cuda, decoder>>
  BY DEF BeginDecode, EndDecode, DecodeQuiet, CudaQuiet
<1>4. decoder[s] \in Decoders /\ decoder' = [decoder EXCEPT ![s] = decoder[s]]
  BY <1>3, StreamFacts
<1> QED
  BY <1>2, <1>3, <1>4, ReadyStep

LEMMA CallStep ==
  ASSUME SharingInv, NEW s \in Streams,
         SendPacket(s) \/ ReceiveFrame(s) \/ ReceiveEnds(s)
  PROVE  SharingInv'
<1>1. /\ init[s].at \in {"parse", "receive"} /\ UNCHANGED cuda
      /\ init[s] \in InitStates /\ init = [init EXCEPT ![s] = init[s]]
      /\ decoder[s] \in Decoders /\ decoder \in [Streams -> Decoders]
  BY StreamFacts
     DEF SendPacket, ReceiveFrame, ReceiveEnds, DecodeQuiet, CudaQuiet, SharingInv, SharingType
<1>2. /\ decoder[s].pts \in Nat /\ decoder[s].pts + 1 \in Nat /\ decoder[s].newest \in Nat
      /\ decoder[s].inside \in Seq(Nat)
  BY <1>1 DEF Decoders
<1>3. PICK i \in InitStates :
        i.at \in {"parse", "receive"} /\ init' = [init EXCEPT ![s] = i]
  <2>1. CASE \E a \in {"parse", "receive"} : Goto(s, a)
    BY <2>1, GotoFacts DEF Stages
  <2>2. CASE UNCHANGED init
    BY <1>1, <2>2
  <2> QED
    BY <2>1, <2>2 DEF SendPacket, ReceiveFrame, ReceiveEnds
<1> DEFINE Kept == \E d \in Decoders : /\ decoder' = [decoder EXCEPT ![s] = d]
                                      /\ d.shared = decoder[s].shared
                                      /\ d.device = decoder[s].device
<1>4. Kept
  <2>1. CASE SendPacket(s)
    <3>1. PICK n \in Nat :
            \/ \E q \in Seq(Nat) :
                 decoder' = [decoder EXCEPT ![s].pts = n, ![s].inside = Append(q, n)]
            \/ decoder' = [decoder EXCEPT ![s].pts = n]
      <4>1. decoder[s].inside # <<>> => Tail(decoder[s].inside) \in Seq(Nat)
        BY <1>2
      <4> QED
        BY <1>1, <1>2, <2>1, <4>1 DEF SendPacket
    <3>3. ASSUME NEW q \in Seq(Nat),
                 decoder' = [decoder EXCEPT ![s].pts = n, ![s].inside = Append(q, n)]
          PROVE  Kept
      <4>1. decoder' = [decoder EXCEPT ![s].pts = n, ![s].inside = Append(q, n),
                                       ![s].newest = decoder[s].newest]
        BY <1>1, <3>3 DEF Decoders
      <4>2. Append(q, n) \in Seq(Nat)
        OBVIOUS
      <4> QED
        BY <1>2, <4>1, <4>2, PicturesFacts
    <3>4. CASE decoder' = [decoder EXCEPT ![s].pts = n]
      <4>1. decoder' = [decoder EXCEPT ![s].pts = n,
                                       ![s].inside = decoder[s].inside,
                                       ![s].newest = decoder[s].newest]
        BY <1>1, <3>4 DEF Decoders
      <4> QED
        BY <1>2, <4>1, PicturesFacts
    <3> QED
      BY <3>1, <3>3, <3>4
  <2>2. CASE ReceiveFrame(s)
    <3>1. Tail(decoder[s].inside) \in Seq(Nat) /\ Head(decoder[s].inside) \in Nat
      BY <1>2, <2>2 DEF ReceiveFrame
    <3>2. decoder' = [decoder EXCEPT ![s].inside = Tail(decoder[s].inside),
                                     ![s].newest = Head(decoder[s].inside)]
      BY <1>1, <2>2 DEF ReceiveFrame
    <3>3. decoder' = [decoder EXCEPT ![s].pts = decoder[s].pts,
                                     ![s].inside = Tail(decoder[s].inside),
                                     ![s].newest = Head(decoder[s].inside)]
      BY <1>1, <3>2 DEF Decoders
    <3> QED
      BY <1>2, <3>1, <3>3, PicturesFacts
  <2>3. CASE ReceiveEnds(s) /\ UNCHANGED decoder
    BY <1>1, <2>3, StreamFacts
  <2>4. CASE ReceiveEnds(s) /\ decoder' # decoder
    <3>1. decoder[s].inside # <<>> /\ decoder' = [decoder EXCEPT ![s].inside = Tail(@)]
      BY <2>4 DEF ReceiveEnds
    <3>2. Tail(decoder[s].inside) \in Seq(Nat)
      BY <1>2, <3>1
    <3>3. decoder' = [decoder EXCEPT ![s].pts = decoder[s].pts,
                                     ![s].inside = Tail(decoder[s].inside),
                                     ![s].newest = decoder[s].newest]
      BY <1>1, <3>1 DEF Decoders
    <3> QED
      BY <1>2, <3>2, <3>3, PicturesFacts
  <2> QED
    BY <2>1, <2>2, <2>3, <2>4
<1> QED
  BY <1>1, <1>3, <1>4, ReadyStep

-----------------------------------------------------------------------------
(* What is numbered stays the same: no action gives another domain.        *)
LEMMA DomainsStep == ASSUME Domains, [Next]_vars PROVE Domains'
<1>1. CASE UNCHANGED vars
  BY <1>1 DEF vars, Domains
<1>2. ASSUME NEW s \in Streams, InitDecoder(s) PROVE Domains'
  BY <1>2 DEF Domains, InitDecoder, StreamInitDecoder, DecoderCreate, DecoderCreateFails,
       InitSoftware, InitVaapi, AcquireCuda, NoCudaYet, MakeCuda, InstallCuda, OpenCodec, OpenFails,
       CudaQuiet, InitQuiet, DecoderDestroy
<1>3. ASSUME NEW s \in Streams, StreamCloseDecoder(s) \/ Decode(s) PROVE Domains'
  BY <1>3 DEF Domains, StreamCloseDecoder, Decode, BeginDecode, SendPacket, ReceiveFrame,
       ReceiveEnds, EndDecode, DecodeQuiet, CudaQuiet, DecoderDestroy, Ref, Unref
<1>4. ASSUME NEW r \in Readers,
             MaterializeFrame(r) \/ ConvertFrame(r) \/ \E s \in Streams : RefFrame(r, s)
      PROVE  Domains'
  BY <1>4 DEF Domains, MaterializeFrame, ConvertFrame, RefFrame, ReaderQuiet, Ref, Unref
<1> QED
  BY <1>1, <1>2, <1>3, <1>4 DEF Next

LEMMA SharingStep == ASSUME SharingInv, Domains, [Next]_vars PROVE SharingInv'
<1>1. CASE UNCHANGED <<cuda, init, decoder>>
  BY <1>1 DEF SharingInv, SharingType, TriesLeft, SharedWhenOpen, MadeWhenInstalled,
       DeviceShared, Sharing
<1>2. ASSUME NEW s \in Streams, InitDecoder(s) PROVE SharingInv'
  BY <1>2, StartStep, CreateStep, CreateFailsStep, SoftwareStep, AcquireStep, MakeStep,
     InstallStep, OpenCodecStep, OpenFailsStep DEF InitDecoder
<1>3. ASSUME NEW s \in Streams, StreamCloseDecoder(s) \/ Decode(s) PROVE SharingInv'
  BY <1>3, CloseStep, BetweenStep, CallStep DEF Decode
<1>4. ASSUME NEW r \in Readers,
             MaterializeFrame(r) \/ ConvertFrame(r) \/ \E s \in Streams : RefFrame(r, s)
      PROVE  SharingInv'
  BY <1>1, <1>4 DEF MaterializeFrame, ConvertFrame, RefFrame, ReaderQuiet
<1> QED
  BY <1>1, <1>2, <1>3, <1>4 DEF Next, vars

(* However the decoders of any number of streams begin, fall back, fail    *)
(* and end, those on the GPU share one device context, which is counted    *)
(* exactly and exists as long as one of them does                          *)
(* (acquire_shared_cuda_device, release_shared_cuda_device).               *)
THEOREM SharedExactly == Spec => []DeviceShared
<1>1. Init => SharingInv /\ Domains
  BY SharingInit DEF Init, Domains
<1>2. SharingInv /\ Domains /\ [Next]_vars => (SharingInv /\ Domains)'
  BY SharingStep, DomainsStep
<1>3. SharingInv => DeviceShared
  BY DEF SharingInv
<1> QED
  BY <1>1, <1>2, <1>3, PTL DEF Spec
-----------------------------------------------------------------------------
(* References and pictures.                                                *)
(*                                                                         *)
(* ReferencesExact and NewestShown need, of every stream, how its stage,   *)
(* its decoder and its two pictures go together: Sound.  A step of a       *)
(* stream then is described by what it puts in the four places (Effect),   *)
(* with what it adds to and takes from the two counts.                     *)

InitType    == [at : Stages, tries : Seq(Hardware), made : Devices \cup {0}, asked : SUBSET Hardware]
Counts      == 0 .. MaxPackets
Queues      == Seq(1 .. MaxPackets)
DecoderType == [id : Numbers \cup {0}, backend : Hardware \cup {"none"}, device : Devices \cup {0},
                shared : BOOLEAN, pts : Counts, inside : Queues, newest : Counts]

(* i, d, k, l: the init, decoder, kept and last of a stream after f faults. *)
Sound(i, d, k, l, f) ==
  /\ i \in InitType /\ d \in DecoderType /\ k \in Frames /\ l \in Frames
  /\ i.made # 0 => i.at = "install"
  /\ i.at \in {"closed", "create"} <=> d.id = 0
  /\ d.id = 0 => d = NoDecoder
  /\ d.device # 0 => d.shared
  /\ k # NoFrame => k.id = d.id /\ i.at \in {"parse", "receive"}
  /\ l # NoFrame => l.id = d.id /\ i.at \in {"ready", "parse", "receive"}
  /\ i.at \in {"init", "make", "install", "open"} => d.newest = 0
  /\ f = 0 /\ i.at \in {"ready", "parse", "receive"}
       => d.newest = (IF k = NoFrame THEN l ELSE k).pts

Places ==
  /\ init \in [Streams -> InitType] /\ decoder \in [Streams -> DecoderType]
  /\ kept \in [Streams -> Frames] /\ last \in [Streams -> Frames]
  /\ snapshot \in [Readers -> Frames] /\ copied \in [Readers -> BOOLEAN]
  /\ stats \in [Numbers -> Int] /\ devRefs \in [Devices -> Int] /\ faults \in 0 .. MaxFaults

StreamsSound == \A s \in Streams : Sound(init[s], decoder[s], kept[s], last[s], faults)
ReadersHold  == \A r \in Readers : snapshot[r] # NoFrame => snapshot[r].id # 0

ReferencesInv == Places /\ StreamsSound /\ ReadersHold /\ DevicesExact /\ StatsExact

(* What one reference counts.                                              *)
Same(x, y) == IF x = y THEN 1 ELSE 0
Held(f, n) == IF f.hw /\ f.id = n THEN 1 ELSE 0

(* A step of stream s, after which its init, decoder and pictures are      *)
(* i, d, k and l, and the references it takes and gives back.              *)
Moved(s, i, d, k, l) ==
  /\ init' = [init EXCEPT ![s] = i] /\ decoder' = [decoder EXCEPT ![s] = d]
  /\ kept' = [kept EXCEPT ![s] = k] /\ last' = [last EXCEPT ![s] = l]
  /\ UNCHANGED <<snapshot, copied>>
  /\ Sound(i, d, k, l, faults')

StatsMoved(s, d, k, l) ==
  /\ stats' \in [Numbers -> Int]
  /\ \A n \in Numbers :
       stats'[n] = stats[n] - Same(decoder[s].id, n) + Same(d.id, n)
                   - Held(kept[s], n) + Held(k, n) - Held(last[s], n) + Held(l, n)

DevicesMoved(s, i, d) ==
  /\ devRefs' \in [Devices -> Int]
  /\ \A x \in Devices :
       devRefs'[x] = devRefs[x] - Same(decoder[s].device, x) + Same(d.device, x)
                     - Same(init[s].made, x) + Same(i.made, x)
                     - Same(cuda.master, x) + Same(cuda'.master, x)

FaultsMoved == faults' \in 0 .. MaxFaults /\ faults <= faults'

LEMMA Sizes ==
  /\ IsFiniteSet(Streams) /\ IsFiniteSet(Readers)
  /\ Numbers \in SUBSET Nat /\ 0 \notin Numbers /\ Devices \in SUBSET Nat /\ 0 \notin Devices
  /\ MaxPackets \in Nat /\ MaxFaults \in Nat
<1>1. IsFiniteSet(Streams) /\ IsFiniteSet(Readers) /\ MaxPackets \in Nat /\ MaxFaults \in Nat
  BY DecoderAssumption DEF DecoderAssumption
<1>2. Cardinality(Streams) \in Nat /\ Cardinality(Readers) \in Nat
  BY <1>1, FS_CardinalityType
<1> QED
  BY <1>1, <1>2 DEF Numbers, Devices

(* Two sets that differ in one element at most. *)
LEMMA Recount ==
  ASSUME NEW S, IsFiniteSet(S), NEW A \in SUBSET S, NEW B \in SUBSET S, NEW x \in S,
         \A y \in S \ {x} : y \in A <=> y \in B
  PROVE  /\ Cardinality(A) \in Nat /\ Cardinality(B) \in Nat
         /\ Cardinality(B) = Cardinality(A) - (IF x \in A THEN 1 ELSE 0)
                             + (IF x \in B THEN 1 ELSE 0)
<1>1. IsFiniteSet(A) /\ IsFiniteSet(B)
  BY FS_Subset
<1>2. Cardinality(A) \in Nat /\ Cardinality(B) \in Nat
  BY <1>1, FS_CardinalityType
<1>3. CASE x \in A <=> x \in B
  <2>1. A = B
    BY <1>3
  <2> QED
    BY <1>2, <2>1
<1>4. CASE x \in A /\ x \notin B
  <2>1. B = A \ {x}
    BY <1>4
  <2>2. Cardinality(B) = Cardinality(A) - 1
    BY <1>1, <1>4, <2>1, FS_RemoveElement
  <2> QED
    BY <1>2, <1>4, <2>2
<1>5. CASE x \notin A /\ x \in B
  <2>1. B = A \cup {x}
    BY <1>5
  <2>2. Cardinality(B) = Cardinality(A) + 1
    BY <1>1, <1>5, <2>1, FS_AddElement
  <2> QED
    BY <1>2, <1>5, <2>2
<1> QED
  BY <1>3, <1>4, <1>5

(* The pictures in one place that use a decoder's statistics, when one of  *)
(* them is replaced.                                                       *)
LEMMA UsesMoved ==
  ASSUME NEW S, IsFiniteSet(S), NEW g \in [S -> Frames], NEW h \in [S -> Frames], NEW x \in S, NEW n,
         \A y \in S \ {x} : h[y] = g[y]
  PROVE  /\ Uses(g, n) \in Nat /\ Uses(h, n) \in Nat
         /\ Uses(h, n) = Uses(g, n) - Held(g[x], n) + Held(h[x], n)
<1> DEFINE A == {y \in S : g[y].hw /\ g[y].id = n}
           B == {y \in S : h[y].hw /\ h[y].id = n}
<1>1. DOMAIN g = S /\ DOMAIN h = S /\ \A y \in S \ {x} : h[y] = g[y]
  OBVIOUS
<1>2. Uses(g, n) = Cardinality(A) /\ Uses(h, n) = Cardinality(B)
  BY <1>1 DEF Uses
<1>3. A \in SUBSET S /\ B \in SUBSET S /\ \A y \in S \ {x} : y \in A <=> y \in B
  BY <1>1
<1>4. (x \in A <=> g[x].hw /\ g[x].id = n) /\ (x \in B <=> h[x].hw /\ h[x].id = n)
  BY <1>1
<1> HIDE DEF A, B
<1>5. /\ Cardinality(A) \in Nat /\ Cardinality(B) \in Nat
      /\ Cardinality(B) = Cardinality(A) - (IF x \in A THEN 1 ELSE 0) + (IF x \in B THEN 1 ELSE 0)
  BY <1>3, Recount
<1> QED
  BY <1>2, <1>4, <1>5 DEF Held

(* A reference to a picture taken or given back. *)
LEMMA RefFacts ==
  ASSUME NEW st \in [Numbers -> Int], NEW f \in Frames, f.hw => f.id # 0
  PROVE  /\ Ref(st, f) \in [Numbers -> Int] /\ Unref(st, f) \in [Numbers -> Int]
         /\ \A n \in Numbers : /\ Ref(st, f)[n] = st[n] + Held(f, n)
                               /\ Unref(st, f)[n] = st[n] - Held(f, n)
<1>1. f.hw => f.id \in Numbers
  BY DEF Frames
<1> QED
  BY <1>1 DEF Ref, Unref, Held

LEMMA Quiet ==
  ASSUME Places, NEW s \in Streams
  PROVE  /\ init = [init EXCEPT ![s] = init[s]] /\ decoder = [decoder EXCEPT ![s] = decoder[s]]
         /\ kept = [kept EXCEPT ![s] = kept[s]] /\ last = [last EXCEPT ![s] = last[s]]
  BY DEF Places

LEMMA StatsStay ==
  ASSUME Places, NEW s \in Streams, NEW d, d.id = decoder[s].id, UNCHANGED stats
  PROVE  StatsMoved(s, d, kept[s], last[s])
<1>1. stats \in [Numbers -> Int]
  BY DEF Places
<1> QED
  BY <1>1 DEF StatsMoved, Same, Held

LEMMA DevicesStay ==
  ASSUME Places, NEW s \in Streams, NEW i, NEW d, i.made = init[s].made,
         d.device = decoder[s].device, UNCHANGED <<cuda, devRefs>>
  PROVE  DevicesMoved(s, i, d)
<1>1. devRefs \in [Devices -> Int]
  BY DEF Places
<1> QED
  BY <1>1 DEF DevicesMoved, Same

(* What a stream's step described so leaves of the invariant. *)
LEMMA MovedPlaces ==
  ASSUME Places, StreamsSound, ReadersHold, NEW s \in Streams, NEW i, NEW d, NEW k, NEW l,
         Moved(s, i, d, k, l), FaultsMoved, stats' \in [Numbers -> Int], devRefs' \in [Devices -> Int]
  PROVE  Places' /\ StreamsSound' /\ ReadersHold'
<1>1. i \in InitType /\ d \in DecoderType /\ k \in Frames /\ l \in Frames
  BY DEF Moved, Sound
<1>2. Places'
  BY <1>1 DEF Places, Moved, FaultsMoved
<1>3. ASSUME NEW x \in Streams
      PROVE  Sound(init'[x], decoder'[x], kept'[x], last'[x], faults')
  <2>1. CASE x = s
    <3>1. init'[s] = i /\ decoder'[s] = d /\ kept'[s] = k /\ last'[s] = l
      BY DEF Moved, Places
    <3> QED
      BY <2>1, <3>1 DEF Moved
  <2>2. CASE x # s
    <3>1. init'[x] = init[x] /\ decoder'[x] = decoder[x] /\ kept'[x] = kept[x] /\ last'[x] = last[x]
      BY <2>2 DEF Moved, Places
    <3>2. Sound(init[x], decoder[x], kept[x], last[x], faults)
      BY DEF StreamsSound
    <3>3. faults \in Nat /\ faults' \in Nat /\ faults <= faults'
      BY Sizes DEF Places, FaultsMoved
    <3>4. faults' = 0 => faults = 0
      BY <3>3
    <3>5. Sound(init[x], decoder[x], kept[x], last[x], faults')
      BY <3>2, <3>4 DEF Sound
    <3> QED
      BY <3>1, <3>5
  <2> QED
    BY <2>1, <2>2
<1>4. ReadersHold'
  BY DEF ReadersHold, Moved
<1> QED
  BY <1>2, <1>3, <1>4 DEF StreamsSound

LEMMA MovedDevices ==
  ASSUME Places, DevicesExact, NEW s \in Streams, NEW i, NEW d, NEW k, NEW l,
         Moved(s, i, d, k, l), DevicesMoved(s, i, d)
  PROVE  DevicesExact'
<1> SUFFICES ASSUME NEW x \in Devices
             PROVE  devRefs'[x] = Cardinality({y \in Streams : decoder'[y].device = x})
                                  + Cardinality({y \in Streams : init'[y].made = x})
                                  + (IF cuda'.master = x THEN 1 ELSE 0)
  BY DEF DevicesExact
<1> DEFINE A == {y \in Streams : decoder[y].device = x}
           B == {y \in Streams : decoder'[y].device = x}
           C == {y \in Streams : init[y].made = x}
           D == {y \in Streams : init'[y].made = x}
<1>1. \A y \in Streams \ {s} : decoder'[y] = decoder[y] /\ init'[y] = init[y]
  BY DEF Moved, Places
<1>2. decoder'[s] = d /\ init'[s] = i
  BY DEF Moved, Places
<1>3. /\ A \in SUBSET Streams /\ B \in SUBSET Streams /\ C \in SUBSET Streams /\ D \in SUBSET Streams
      /\ \A y \in Streams \ {s} : (y \in A <=> y \in B) /\ (y \in C <=> y \in D)
  BY <1>1
<1>4. /\ s \in A <=> decoder[s].device = x
      /\ s \in B <=> d.device = x
      /\ s \in C <=> init[s].made = x
      /\ s \in D <=> i.made = x
  BY <1>2
<1>5. devRefs[x] = Cardinality(A) + Cardinality(C) + (IF cuda.master = x THEN 1 ELSE 0)
  BY DEF DevicesExact
<1> HIDE DEF A, B, C, D
<1>6. /\ Cardinality(A) \in Nat /\ Cardinality(B) \in Nat
      /\ Cardinality(B) = Cardinality(A) - (IF s \in A THEN 1 ELSE 0) + (IF s \in B THEN 1 ELSE 0)
  BY <1>3, Sizes, Recount
<1>7. /\ Cardinality(C) \in Nat /\ Cardinality(D) \in Nat
      /\ Cardinality(D) = Cardinality(C) - (IF s \in C THEN 1 ELSE 0) + (IF s \in D THEN 1 ELSE 0)
  BY <1>3, Sizes, Recount
<1>8. devRefs'[x] = devRefs[x] - Same(decoder[s].device, x) + Same(d.device, x)
                    - Same(init[s].made, x) + Same(i.made, x)
                    - Same(cuda.master, x) + Same(cuda'.master, x)
  BY DEF DevicesMoved
<1>9. devRefs'[x] = Cardinality(B) + Cardinality(D) + (IF cuda'.master = x THEN 1 ELSE 0)
  BY <1>4, <1>5, <1>6, <1>7, <1>8 DEF Same
<1> QED
  BY <1>9 DEF B, D

(* The decoders with an identity. *)
Owners(n) == Cardinality({y \in Streams : decoder[y].id = n})

LEMMA OwnersMoved ==
  ASSUME Places, NEW s \in Streams, NEW d, decoder' = [decoder EXCEPT ![s] = d], NEW n
  PROVE  /\ Owners(n) \in Nat /\ Owners(n)' \in Nat
         /\ Owners(n)' = Owners(n) - Same(decoder[s].id, n) + Same(d.id, n)
<1> DEFINE A == {y \in Streams : decoder[y].id = n}
           B == {y \in Streams : decoder'[y].id = n}
<1>1. decoder'[s] = d /\ \A y \in Streams \ {s} : decoder'[y] = decoder[y]
  BY DEF Places
<1>2. /\ A \in SUBSET Streams /\ B \in SUBSET Streams
      /\ \A y \in Streams \ {s} : y \in A <=> y \in B
  BY <1>1
<1>3. (s \in A <=> decoder[s].id = n) /\ (s \in B <=> d.id = n)
  BY <1>1
<1>4. Owners(n) = Cardinality(A) /\ Owners(n)' = Cardinality(B)
  BY DEF Owners
<1> HIDE DEF A, B
<1>5. /\ Cardinality(A) \in Nat /\ Cardinality(B) \in Nat
      /\ Cardinality(B) = Cardinality(A) - (IF s \in A THEN 1 ELSE 0) + (IF s \in B THEN 1 ELSE 0)
  BY <1>2, Sizes, Recount
<1> QED
  BY <1>3, <1>4, <1>5 DEF Same

LEMMA MovedStats ==
  ASSUME Places, StatsExact, NEW s \in Streams, NEW i, NEW d, NEW k, NEW l,
         Moved(s, i, d, k, l), StatsMoved(s, d, k, l)
  PROVE  StatsExact'
<1> SUFFICES ASSUME NEW n \in Numbers
             PROVE  stats'[n] = Owners(n)' + Uses(kept', n) + Uses(last', n) + Uses(snapshot', n)
  BY DEF StatsExact, Owners, Uses
<1>1. k \in Frames /\ l \in Frames
  BY DEF Moved, Sound
<1>2. /\ Owners(n) \in Nat /\ Owners(n)' \in Nat
      /\ Owners(n)' = Owners(n) - Same(decoder[s].id, n) + Same(d.id, n)
  BY OwnersMoved DEF Moved
<1>3. /\ Uses(kept, n) \in Nat /\ Uses(kept', n) \in Nat
      /\ Uses(kept', n) = Uses(kept, n) - Held(kept[s], n) + Held(k, n)
  <2>1. /\ kept \in [Streams -> Frames] /\ kept' \in [Streams -> Frames] /\ kept'[s] = k
        /\ \A y \in Streams \ {s} : kept'[y] = kept[y]
    BY <1>1 DEF Places, Moved
  <2>2. IsFiniteSet(Streams)
    BY Sizes
  <2> QED
    BY <2>1, <2>2, UsesMoved
<1>4. /\ Uses(last, n) \in Nat /\ Uses(last', n) \in Nat
      /\ Uses(last', n) = Uses(last, n) - Held(last[s], n) + Held(l, n)
  <2>1. /\ last \in [Streams -> Frames] /\ last' \in [Streams -> Frames] /\ last'[s] = l
        /\ \A y \in Streams \ {s} : last'[y] = last[y]
    BY <1>1 DEF Places, Moved
  <2>2. IsFiniteSet(Streams)
    BY Sizes
  <2> QED
    BY <2>1, <2>2, UsesMoved
<1>5. Uses(snapshot, n) \in Nat /\ Uses(snapshot', n) = Uses(snapshot, n)
  <2>1. {r \in DOMAIN snapshot : snapshot[r].hw /\ snapshot[r].id = n} \in SUBSET Readers
    BY DEF Places
  <2>2. IsFiniteSet({r \in DOMAIN snapshot : snapshot[r].hw /\ snapshot[r].id = n})
    BY <2>1, Sizes, FS_Subset
  <2>3. Uses(snapshot, n) \in Nat
    BY <2>2, FS_CardinalityType DEF Uses
  <2> QED
    BY <2>3 DEF Moved, Uses
<1>6. stats[n] = Owners(n) + Uses(kept, n) + Uses(last, n) + Uses(snapshot, n)
  BY DEF StatsExact, Owners
<1>7. stats'[n] = stats[n] - Same(decoder[s].id, n) + Same(d.id, n)
                  - Held(kept[s], n) + Held(k, n) - Held(last[s], n) + Held(l, n)
  BY DEF StatsMoved
<1>8. \A f : Held(f, n) \in Nat
  BY DEF Held
<1>9. \A y : Same(y, n) \in Nat
  BY DEF Same
<1> QED
  BY <1>2, <1>3, <1>4, <1>5, <1>6, <1>7, <1>8, <1>9

LEMMA StreamMoves ==
  ASSUME ReferencesInv, NEW s \in Streams, NEW i, NEW d, NEW k, NEW l,
         Moved(s, i, d, k, l), FaultsMoved, StatsMoved(s, d, k, l), DevicesMoved(s, i, d)
  PROVE  ReferencesInv'
<1>1. stats' \in [Numbers -> Int] /\ devRefs' \in [Devices -> Int]
  BY DEF StatsMoved, DevicesMoved
<1>2. Places' /\ StreamsSound' /\ ReadersHold'
  BY <1>1, MovedPlaces DEF ReferencesInv
<1>3. DevicesExact'
  BY MovedDevices DEF ReferencesInv
<1>4. StatsExact'
  BY MovedStats DEF ReferencesInv
<1> QED
  BY <1>2, <1>3, <1>4 DEF ReferencesInv

-----------------------------------------------------------------------------
(* The steps of a stream, one by one.                                      *)

LEMMA StreamIs ==
  ASSUME ReferencesInv, NEW s \in Streams
  PROVE  /\ Places /\ Sound(init[s], decoder[s], kept[s], last[s], faults)
         /\ init[s] \in InitType /\ decoder[s] \in DecoderType
         /\ kept[s] \in Frames /\ last[s] \in Frames /\ faults \in Nat
         /\ stats \in [Numbers -> Int] /\ devRefs \in [Devices -> Int]
<1>1. Places /\ Sound(init[s], decoder[s], kept[s], last[s], faults)
  BY DEF ReferencesInv, StreamsSound
<1> QED
  BY <1>1, Sizes DEF Places

LEMMA FaultFacts ==
  ASSUME Places, Fault \/ Fine
  PROVE  FaultsMoved /\ (faults' = 0 => faults = 0) /\ (Fault => faults' # 0)
<1>1. faults \in 0 .. MaxFaults /\ MaxFaults \in Nat
  BY Sizes DEF Places
<1> QED
  BY <1>1 DEF Fault, Fine, FaultsMoved

(* A step that refers to nothing new. *)
LEMMA QuietStep ==
  ASSUME ReferencesInv, NEW s \in Streams, NEW i, NEW d,
         init' = [init EXCEPT ![s] = i], decoder' = [decoder EXCEPT ![s] = d],
         UNCHANGED <<cuda, devRefs, stats, kept, last, snapshot, copied>>, Fault \/ Fine,
         Sound(i, d, kept[s], last[s], faults'),
         i.made = init[s].made, d.id = decoder[s].id, d.device = decoder[s].device
  PROVE  ReferencesInv'
<1>1. Places
  BY DEF ReferencesInv
<1>2. Moved(s, i, d, kept[s], last[s])
  BY <1>1, Quiet DEF Moved
<1>3. StatsMoved(s, d, kept[s], last[s]) /\ DevicesMoved(s, i, d)
  BY <1>1, StatsStay, DevicesStay
<1> QED
  BY <1>1, <1>2, <1>3, FaultFacts, StreamMoves

LEMMA StartQuiet ==
  ASSUME ReferencesInv, NEW s \in Streams, StreamInitDecoder(s)
  PROVE  ReferencesInv'
<1>1. PICK asked \in Backends :
        init' = [init EXCEPT ![s] = [at |-> "create", made |-> 0, asked |-> {Route(asked)},
                                     tries |-> AttemptedBackends(Route(asked))]]
  BY DEF StreamInitDecoder
<1> DEFINE i == [at |-> "create", made |-> 0, asked |-> {Route(asked)},
                 tries |-> AttemptedBackends(Route(asked))]
<1>2. Route(asked) \in {"intel", "nvidia", "cpu"}
  BY DecoderAssumption DEF DecoderAssumption, Route
<1>3. AttemptedBackends(Route(asked)) \in Seq(Hardware)
  BY <1>2, RouteTries
<1>4. i \in InitType /\ i.at = "create" /\ i.made = 0
  BY <1>2, <1>3 DEF InitType, Stages, Hardware
<1>5. init' = [init EXCEPT ![s] = i]
  BY <1>1
<1> HIDE DEF i
<1>6. /\ UNCHANGED <<cuda, devRefs, stats, decoder, kept, last, snapshot, copied>> /\ Fine
      /\ init[s].at = "closed"
  BY DEF StreamInitDecoder, PictureQuiet, Fine
<1>7. Sound(init[s], decoder[s], kept[s], last[s], faults) /\ faults' = faults
  BY <1>6, StreamIs DEF Fine
<1>8. Sound(i, decoder[s], kept[s], last[s], faults') /\ i.made = init[s].made
  BY <1>4, <1>6, <1>7 DEF Sound
<1>9. decoder' = [decoder EXCEPT ![s] = decoder[s]]
  BY <1>6, StreamIs, Quiet
<1> QED
  BY <1>5, <1>6, <1>8, <1>9, QuietStep

(* The state of init after NextTry. *)
LEMMA NextTryType ==
  ASSUME ReferencesInv, SharingInv, NEW s \in Streams, NextTry(s), init[s].tries # <<>>
  PROVE  \E i \in InitType :
           /\ init' = [init EXCEPT ![s] = i]
           /\ i.at \in {"create", "closed"}
           /\ i.made # 0 => i.made = init[s].made
<1> DEFINE more == [init[s] EXCEPT !.at = "create", !.tries = Tail(init[s].tries)]
<1>1. init[s] \in InitType /\ init[s].tries \in Seq(Hardware) /\ init \in [Streams -> InitType]
  BY StreamIs DEF InitType, Places
<1>2. init' = [init EXCEPT ![s] = IF Len(init[s].tries) = 1 THEN Closed ELSE more]
  BY <1>1 DEF NextTry
<1>3. Closed \in InitType /\ Closed.at = "closed" /\ Closed.made = 0
  BY DEF Closed, InitType, Stages
<1>4. Tail(init[s].tries) \in Seq(Hardware)
  BY <1>1
<1>5. more \in InitType /\ more.at = "create" /\ more.made = init[s].made
  BY <1>1, <1>4 DEF InitType, Stages
<1> HIDE DEF more
<1>6. CASE Len(init[s].tries) = 1
  BY <1>2, <1>3, <1>6
<1>7. CASE Len(init[s].tries) # 1
  BY <1>2, <1>5, <1>7
<1> QED
  BY <1>6, <1>7

LEMMA CreateFailsQuiet ==
  ASSUME ReferencesInv, SharingInv, NEW s \in Streams, DecoderCreateFails(s)
  PROVE  ReferencesInv'
<1>1. /\ init[s].tries # <<>> /\ NextTry(s) /\ init[s].at = "create" /\ Fault
      /\ UNCHANGED <<cuda, devRefs, stats, decoder, kept, last, snapshot, copied>>
  BY StreamFacts DEF DecoderCreateFails, CudaQuiet, PictureQuiet
<1>2. PICK i \in InitType : /\ init' = [init EXCEPT ![s] = i]
                            /\ i.at \in {"create", "closed"}
                            /\ i.made # 0 => i.made = init[s].made
  BY <1>1, NextTryType
<1>3. Sound(init[s], decoder[s], kept[s], last[s], faults) /\ faults' # 0
  BY <1>1, StreamIs, FaultFacts
<1>4. Sound(i, decoder[s], kept[s], last[s], faults') /\ i.made = init[s].made
  BY <1>1, <1>2, <1>3 DEF Sound
<1>5. decoder' = [decoder EXCEPT ![s] = decoder[s]]
  BY <1>1, StreamIs, Quiet
<1> QED
  BY <1>1, <1>2, <1>4, <1>5, QuietStep

(* The state of init after a change of its stage. *)
LEMMA StageType ==
  ASSUME ReferencesInv, NEW s \in Streams, NEW a \in Stages, Goto(s, a)
  PROVE  \E i \in InitType : i.at = a /\ i.made = init[s].made /\ init' = [init EXCEPT ![s] = i]
<1> DEFINE i == [init[s] EXCEPT !.at = a]
<1>1. i \in InitType /\ i.at = a /\ i.made = init[s].made
  BY StreamIs DEF InitType
<1>2. init' = [init EXCEPT ![s] = i]
  BY StreamIs DEF Goto, Places
<1> QED
  BY <1>1, <1>2

(* A decoder that becomes one for the CPU. *)
LEMMA CpuType ==
  ASSUME ReferencesInv, NEW s \in Streams, ToCpu(s)
  PROVE  \E d \in DecoderType :
           /\ decoder' = [decoder EXCEPT ![s] = d]
           /\ d.id = decoder[s].id /\ d.device = decoder[s].device
           /\ d.shared = decoder[s].shared /\ d.newest = decoder[s].newest
<1> DEFINE d == [decoder[s] EXCEPT !.backend = "cpu"]
<1>1. /\ d \in DecoderType /\ d.id = decoder[s].id /\ d.device = decoder[s].device
      /\ d.shared = decoder[s].shared /\ d.newest = decoder[s].newest
  BY StreamIs DEF DecoderType, Hardware
<1>2. decoder' = [decoder EXCEPT ![s] = d]
  BY StreamIs DEF ToCpu, Places
<1> QED
  BY <1>1, <1>2

LEMMA SoftwareQuiet ==
  ASSUME ReferencesInv, NEW s \in Streams, InitSoftware(s) \/ InitVaapi(s) \/ NoCudaYet(s)
  PROVE  ReferencesInv'
<1>1. /\ init[s].at = "init" /\ Fine
      /\ UNCHANGED <<cuda, devRefs, stats, kept, last, snapshot, copied>>
      /\ UNCHANGED decoder \/ ToCpu(s)
  BY DEF InitSoftware, InitVaapi, NoCudaYet, CudaQuiet, InitQuiet, PictureQuiet
<1>2. PICK a \in {"open", "make"} : Goto(s, a)
  BY DEF InitSoftware, InitVaapi, NoCudaYet
<1>3. PICK i \in InitType : i.at = a /\ i.made = init[s].made /\ init' = [init EXCEPT ![s] = i]
  BY <1>2, StageType DEF Stages
<1>4. PICK d \in DecoderType :
        /\ decoder' = [decoder EXCEPT ![s] = d]
        /\ d.id = decoder[s].id /\ d.device = decoder[s].device
        /\ d.shared = decoder[s].shared /\ d.newest = decoder[s].newest
  BY <1>1, CpuType, StreamIs, Quiet
<1>5. Sound(init[s], decoder[s], kept[s], last[s], faults) /\ faults' = faults
  BY <1>1, StreamIs DEF Fine
<1>6. Sound(i, d, kept[s], last[s], faults')
  BY <1>1, <1>3, <1>4, <1>5 DEF Sound
<1> QED
  BY <1>1, <1>3, <1>4, <1>6, QuietStep

LEMMA OpenCodecQuiet ==
  ASSUME ReferencesInv, NEW s \in Streams, OpenCodec(s)
  PROVE  ReferencesInv'
<1> DEFINE i == [init[s] EXCEPT !.at = "ready", !.tries = <<>>]
<1>1. /\ init[s].at = "open" /\ Fine
      /\ UNCHANGED <<cuda, devRefs, stats, decoder, kept, last, snapshot, copied>>
  BY DEF OpenCodec, CudaQuiet, PictureQuiet
<1>2. <<>> \in Seq(Hardware)
  OBVIOUS
<1>3. i \in InitType /\ i.at = "ready" /\ i.made = init[s].made
  BY <1>2, StreamIs DEF InitType, Stages
<1>4. init' = [init EXCEPT ![s] = i]
  BY StreamIs DEF OpenCodec, Places
<1> HIDE DEF i
<1>5. Sound(init[s], decoder[s], kept[s], last[s], faults) /\ faults' = faults
  BY <1>1, StreamIs DEF Fine
<1>6. NoFrame.pts = 0
  BY DEF NoFrame
<1>7. Sound(i, decoder[s], kept[s], last[s], faults')
  BY <1>1, <1>3, <1>5, <1>6 DEF Sound
<1>8. decoder' = [decoder EXCEPT ![s] = decoder[s]]
  BY <1>1, StreamIs, Quiet
<1> QED
  BY <1>1, <1>3, <1>4, <1>7, <1>8, QuietStep

LEMMA BeginDecodeQuiet ==
  ASSUME ReferencesInv, NEW s \in Streams, BeginDecode(s)
  PROVE  ReferencesInv'
<1>1. /\ init[s].at = "ready" /\ Fine /\ Goto(s, "parse")
      /\ UNCHANGED <<cuda, devRefs, stats, decoder, kept, last, snapshot, copied>>
  BY DEF BeginDecode, DecodeQuiet, CudaQuiet
<1>2. PICK i \in InitType :
        i.at = "parse" /\ i.made = init[s].made /\ init' = [init EXCEPT ![s] = i]
  BY <1>1, StageType DEF Stages
<1>3. Sound(init[s], decoder[s], kept[s], last[s], faults) /\ faults' = faults
  BY <1>1, StreamIs DEF Fine
<1>4. Sound(i, decoder[s], kept[s], last[s], faults')
  BY <1>1, <1>2, <1>3 DEF Sound
<1>5. decoder' = [decoder EXCEPT ![s] = decoder[s]]
  BY <1>1, StreamIs, Quiet
<1> QED
  BY <1>1, <1>2, <1>4, <1>5, QuietStep

LEMMA QueueFacts ==
  ASSUME NEW T, NEW q \in Seq(T), q # <<>>
  PROVE  Head(q) \in T /\ Tail(q) \in Seq(T)
  OBVIOUS

(* A packet or a lost picture: what is shown and kept stays. *)
LEMMA CallQuiet ==
  ASSUME ReferencesInv, NEW s \in Streams, SendPacket(s) \/ ReceiveEnds(s)
  PROVE  ReferencesInv'
<1>1. /\ init[s].at \in {"parse", "receive"} /\ (Fault \/ Fine)
      /\ UNCHANGED <<cuda, devRefs, stats, kept, last, snapshot, copied>>
  BY DEF SendPacket, ReceiveEnds, DecodeQuiet, CudaQuiet
<1>2. /\ decoder[s] \in DecoderType /\ decoder \in [Streams -> DecoderType]
      /\ decoder[s].pts \in Counts /\ decoder[s].newest \in Counts
      /\ decoder[s].inside \in Queues
  BY StreamIs DEF DecoderType, Places
<1>3. PICK i \in InitType :
        /\ i.at \in {"parse", "receive"} /\ i.made = init[s].made
        /\ init' = [init EXCEPT ![s] = i]
  <2>1. CASE \E a \in {"parse", "receive"} : Goto(s, a)
    BY <2>1, StageType DEF Stages
  <2>2. CASE UNCHANGED init
    BY <1>1, <2>2, StreamIs, Quiet
  <2> QED
    BY <2>1, <2>2 DEF SendPacket, ReceiveEnds
<1> DEFINE Kept == \E d \in DecoderType :
                     /\ decoder' = [decoder EXCEPT ![s] = d]
                     /\ d.id = decoder[s].id /\ d.device = decoder[s].device
                     /\ d.shared = decoder[s].shared /\ d.newest = decoder[s].newest
<1>4. Kept
  <2>1. CASE SendPacket(s)
    <3> DEFINE n == decoder[s].pts + 1
    <3>1. n \in Counts /\ n \in 1 .. MaxPackets
      BY <1>2, <2>1, Sizes DEF SendPacket, Counts
    <3>2. \/ \E q \in Queues :
               decoder' = [decoder EXCEPT ![s].pts = n, ![s].inside = Append(q, n)]
          \/ decoder' = [decoder EXCEPT ![s].pts = n]
      <4>1. decoder[s].inside # <<>> => Tail(decoder[s].inside) \in Queues
        BY <1>2, QueueFacts DEF Queues
      <4> QED
        BY <1>2, <2>1, <4>1 DEF SendPacket
    <3> HIDE DEF n
    <3>4. ASSUME NEW q \in Queues,
                 decoder' = [decoder EXCEPT ![s].pts = n, ![s].inside = Append(q, n)]
          PROVE  Kept
      <4>3. Append(q, n) \in Queues
        BY <3>1 DEF Queues
      <4> DEFINE d == [decoder[s] EXCEPT !.pts = n, !.inside = Append(q, n),
                                         !.newest = decoder[s].newest]
      <4>1. decoder' = [decoder EXCEPT ![s] = d]
        BY <1>2, <3>4 DEF DecoderType
      <4>2. /\ d \in DecoderType /\ d.id = decoder[s].id /\ d.device = decoder[s].device
            /\ d.shared = decoder[s].shared /\ d.newest = decoder[s].newest
        BY <1>2, <3>1, <4>3 DEF DecoderType
      <4> HIDE DEF d
      <4> QED
        BY <4>1, <4>2
    <3>5. CASE decoder' = [decoder EXCEPT ![s].pts = n]
      <4> DEFINE d == [decoder[s] EXCEPT !.pts = n, !.inside = decoder[s].inside,
                                         !.newest = decoder[s].newest]
      <4>1. decoder' = [decoder EXCEPT ![s] = d]
        BY <1>2, <3>5 DEF DecoderType
      <4>2. /\ d \in DecoderType /\ d.id = decoder[s].id /\ d.device = decoder[s].device
            /\ d.shared = decoder[s].shared /\ d.newest = decoder[s].newest
        BY <1>2, <3>1 DEF DecoderType
      <4> HIDE DEF d
      <4> QED
        BY <4>1, <4>2
    <3> QED
      BY <3>2, <3>4, <3>5
  <2>2. CASE UNCHANGED decoder
    BY <1>2, <2>2, StreamIs, Quiet
  <2>3. CASE ReceiveEnds(s) /\ decoder' # decoder
    <3>1. decoder[s].inside # <<>> /\ decoder' = [decoder EXCEPT ![s].inside = Tail(@)]
      BY <2>3 DEF ReceiveEnds
    <3>2. Tail(decoder[s].inside) \in Queues
      BY <1>2, <3>1, QueueFacts DEF Queues
    <3> DEFINE d == [decoder[s] EXCEPT !.pts = decoder[s].pts, !.inside = Tail(decoder[s].inside),
                                       !.newest = decoder[s].newest]
    <3>3. decoder' = [decoder EXCEPT ![s] = d]
      BY <1>2, <3>1 DEF DecoderType
    <3>4. /\ d \in DecoderType /\ d.id = decoder[s].id /\ d.device = decoder[s].device
          /\ d.shared = decoder[s].shared /\ d.newest = decoder[s].newest
      BY <1>2, <3>2 DEF DecoderType
    <3> HIDE DEF d
    <3> QED
      BY <3>3, <3>4
  <2> QED
    BY <2>1, <2>2, <2>3
<1>5. PICK d \in DecoderType :
        /\ decoder' = [decoder EXCEPT ![s] = d]
        /\ d.id = decoder[s].id /\ d.device = decoder[s].device
        /\ d.shared = decoder[s].shared /\ d.newest = decoder[s].newest
  BY <1>4
<1>6. Sound(init[s], decoder[s], kept[s], last[s], faults) /\ (faults' = 0 => faults = 0)
  BY <1>1, StreamIs, FaultFacts
<1>7. Sound(i, d, kept[s], last[s], faults')
  BY <1>1, <1>3, <1>5, <1>6 DEF Sound
<1> QED
  BY <1>1, <1>3, <1>5, <1>7, QuietStep

LEMMA NumberFacts ==
  ASSUME NEW n \in Numbers, NEW b \in Hardware
  PROVE  /\ NewDecoder(n, b) \in DecoderType /\ NewDecoder(n, b).id = n /\ n # 0
         /\ NewDecoder(n, b).device = 0 /\ NewDecoder(n, b).newest = 0
<1>1. <<>> \in Queues /\ 0 \in Counts /\ n # 0
  BY Sizes DEF Queues, Counts
<1> QED
  BY <1>1 DEF NewDecoder, DecoderType

LEMMA NoDecoderIs ==
  /\ NoDecoder \in DecoderType /\ NoDecoder.id = 0 /\ NoDecoder.device = 0
  /\ NoFrame \in Frames /\ ~NoFrame.hw /\ NoFrame.id = 0 /\ NoFrame.pts = 0
<1>1. <<>> \in Queues /\ 0 \in Counts
  BY Sizes DEF Queues, Counts
<1> QED
  BY <1>1 DEF NoDecoder, NewDecoder, DecoderType, NoFrame, Frames, Counts

LEMMA CreateRefers ==
  ASSUME ReferencesInv, SharingInv, NEW s \in Streams, DecoderCreate(s)
  PROVE  ReferencesInv'
<1>1. /\ init[s].at = "create" /\ init[s].tries # <<>> /\ Fine /\ Goto(s, "init")
      /\ UNCHANGED <<cuda, devRefs, kept, last, snapshot, copied>>
  BY StreamFacts DEF DecoderCreate, CudaQuiet, PictureQuiet
<1>2. PICK n \in Unused(stats) :
        /\ stats' = [stats EXCEPT ![n] = 1]
        /\ decoder' = [decoder EXCEPT ![s] = NewDecoder(n, Head(init[s].tries))]
  BY DEF DecoderCreate
<1>3. n \in Numbers /\ stats[n] = 0
  BY StreamIs DEF Unused
<1> DEFINE d == NewDecoder(n, Head(init[s].tries))
<1>4. Head(init[s].tries) \in Hardware
  BY <1>1, StreamIs DEF InitType
<1>5. d \in DecoderType /\ d.id = n /\ n # 0 /\ d.device = 0 /\ d.newest = 0
  BY <1>3, <1>4, NumberFacts
<1>6. decoder' = [decoder EXCEPT ![s] = d]
  BY <1>2
<1> HIDE DEF d
<1>7. PICK i \in InitType :
        i.at = "init" /\ i.made = init[s].made /\ init' = [init EXCEPT ![s] = i]
  BY <1>1, StageType DEF Stages
<1>8. Sound(init[s], decoder[s], kept[s], last[s], faults) /\ faults' = faults
  BY <1>1, StreamIs DEF Fine
<1>9. decoder[s].id = 0 /\ decoder[s].device = 0
  BY <1>1, <1>8, NoDecoderIs DEF Sound
<1>10. Sound(i, d, kept[s], last[s], faults')
  BY <1>1, <1>5, <1>7, <1>8 DEF Sound
<1>11. Moved(s, i, d, kept[s], last[s])
  BY <1>1, <1>6, <1>7, <1>10, StreamIs, Quiet DEF Moved
<1>12. StatsMoved(s, d, kept[s], last[s])
  <2>1. stats' \in [Numbers -> Int] /\ stats'[n] = 1 /\ \A x \in Numbers \ {n} : stats'[x] = stats[x]
    BY <1>2, <1>3, StreamIs
  <2>2. 0 \notin Numbers
    BY Sizes
  <2>3. \A x \in Numbers : stats[x] \in Int /\ Held(kept[s], x) \in Int /\ Held(last[s], x) \in Int
    BY StreamIs DEF Held
  <2>4. \A x \in Numbers : stats'[x] = stats[x] - Same(decoder[s].id, x) + Same(d.id, x)
    BY <1>3, <1>5, <1>9, <2>1, <2>2, <2>3 DEF Same
  <2> QED
    BY <2>1, <2>3, <2>4 DEF StatsMoved, Same
<1>13. DevicesMoved(s, i, d)
  BY <1>1, <1>5, <1>7, <1>9, StreamIs, DevicesStay
<1> QED
  BY <1>1, <1>11, <1>12, <1>13, StreamIs, FaultFacts, StreamMoves

(* The device: a decoder joins, one is made or given back. *)
LEMMA MasterDevice ==
  ASSUME ReferencesInv, SharingInv
  PROVE  cuda.master \in Devices \cup {0} /\ (cuda.users = 0 <=> cuda.master = 0)
<1>1. DeviceShared /\ (cuda.users = 0 <=> Sharing = {})
  BY NoUsers DEF SharingInv
<1>2. CASE cuda.master = 0
  BY <1>1, <1>2 DEF DeviceShared
<1>3. CASE cuda.master # 0
  <2>1. PICK x \in Streams : decoder[x].device = cuda.master
    BY <1>1, <1>3 DEF DeviceShared, Sharing
  <2>2. decoder[x].device \in Devices \cup {0}
    BY StreamIs DEF DecoderType
  <2> QED
    BY <1>1, <1>3, <2>1, <2>2 DEF DeviceShared
<1> QED
  BY <1>2, <1>3

(* The init and the decoder after the device has been shared or not. *)
LEMMA SharedType ==
  ASSUME ReferencesInv, NEW s \in Streams, NEW m \in Devices, Share(s, m)
  PROVE  \E i \in InitType, d \in DecoderType :
           /\ init' = [init EXCEPT ![s] = i] /\ i.at = "open" /\ i.made = 0
           /\ decoder' = [decoder EXCEPT ![s] = d] /\ d.id = decoder[s].id
           /\ d.device = m /\ d.shared /\ d.newest = decoder[s].newest
<1> DEFINE i == [init[s] EXCEPT !.at = "open", !.made = 0, !.asked = @ \cup {"nvidia"}]
           d == [decoder[s] EXCEPT !.device = m, !.shared = TRUE]
<1>1. i \in InitType /\ i.at = "open" /\ i.made = 0
  BY StreamIs DEF InitType, Stages, Hardware
<1>2. d \in DecoderType /\ d.id = decoder[s].id /\ d.device = m /\ d.shared
      /\ d.newest = decoder[s].newest
  BY StreamIs DEF DecoderType
<1>3. init' = [init EXCEPT ![s] = i] /\ decoder' = [decoder EXCEPT ![s] = d]
  BY StreamIs DEF Share, Places
<1> HIDE DEF i, d
<1> QED
  BY <1>1, <1>2, <1>3

LEMMA UnsharedType ==
  ASSUME ReferencesInv, NEW s \in Streams, NoShare(s)
  PROVE  \E i \in InitType, d \in DecoderType :
           /\ init' = [init EXCEPT ![s] = i] /\ i.at = "open" /\ i.made = 0
           /\ decoder' = [decoder EXCEPT ![s] = d] /\ d.id = decoder[s].id
           /\ d.device = decoder[s].device /\ d.shared = decoder[s].shared
           /\ d.newest = decoder[s].newest
<1> DEFINE i == [init[s] EXCEPT !.at = "open", !.made = 0, !.asked = @ \cup {"nvidia"}]
<1>1. i \in InitType /\ i.at = "open" /\ i.made = 0
  BY StreamIs DEF InitType, Stages, Hardware
<1>2. init' = [init EXCEPT ![s] = i]
  BY StreamIs DEF NoShare, Places
<1> HIDE DEF i
<1>3. PICK d \in DecoderType :
        /\ decoder' = [decoder EXCEPT ![s] = d]
        /\ d.id = decoder[s].id /\ d.device = decoder[s].device
        /\ d.shared = decoder[s].shared /\ d.newest = decoder[s].newest
  BY CpuType DEF NoShare
<1> QED
  BY <1>1, <1>2, <1>3

(* What is known of a stream on the way through decoder_init. *)
LEMMA InitStage ==
  ASSUME ReferencesInv, NEW s \in Streams, init[s].at \in {"init", "make", "install", "open"}
  PROVE  /\ kept[s] = NoFrame /\ last[s] = NoFrame /\ decoder[s].newest = 0
         /\ decoder[s].id # 0 /\ (init[s].made # 0 => init[s].at = "install")
         /\ (decoder[s].device # 0 => decoder[s].shared)
  BY StreamIs DEF Sound

(* Either way leaves the pictures alone, and it is the device that counts. *)
LEMMA DeviceStep ==
  ASSUME ReferencesInv, NEW s \in Streams, init[s].at \in {"init", "make", "install"},
         NEW i \in InitType, NEW d \in DecoderType,
         init' = [init EXCEPT ![s] = i], decoder' = [decoder EXCEPT ![s] = d],
         i.at \in {"install", "open"}, i.made # 0 => i.at = "install",
         d.id = decoder[s].id, d.newest = decoder[s].newest, d.device # 0 => d.shared,
         InitQuiet, Fault \/ Fine, DevicesMoved(s, i, d)
  PROVE  ReferencesInv'
<1>1. UNCHANGED <<stats, kept, last, snapshot, copied>>
  BY DEF InitQuiet, PictureQuiet
<1>2. Sound(i, d, kept[s], last[s], faults')
  <2>1. /\ kept[s] = NoFrame /\ last[s] = NoFrame /\ d.newest = 0 /\ d.id # 0
    BY InitStage
  <2> QED
    BY <2>1, NoDecoderIs DEF Sound
<1>3. Moved(s, i, d, kept[s], last[s])
  BY <1>1, <1>2, StreamIs, Quiet DEF Moved
<1> QED
  BY <1>1, <1>3, StreamIs, StatsStay, FaultFacts, StreamMoves

LEMMA AcquireRefers ==
  ASSUME ReferencesInv, SharingInv, NEW s \in Streams, AcquireCuda(s)
  PROVE  ReferencesInv'
<1>1. /\ init[s].at = "init" /\ InitQuiet /\ (Fault \/ Fine) /\ cuda.master # 0
      /\ ~decoder[s].shared /\ cuda \in CudaStates
  BY StreamFacts DEF AcquireCuda, SharingInv, SharingType
<1>2. init[s].made = 0 /\ decoder[s].device = 0
  BY <1>1, InitStage
<1>3. CASE Share(s, cuda.master) /\ cuda' = [cuda EXCEPT !.users = @ + 1]
           /\ devRefs' = [devRefs EXCEPT ![cuda.master] = @ + 1]
  <2>1. cuda.master \in Devices /\ 0 \notin Devices
    BY <1>1, MasterDevice, Sizes
  <2>2. PICK i \in InitType, d \in DecoderType :
          /\ init' = [init EXCEPT ![s] = i] /\ i.at = "open" /\ i.made = 0
          /\ decoder' = [decoder EXCEPT ![s] = d] /\ d.id = decoder[s].id
          /\ d.device = cuda.master /\ d.shared /\ d.newest = decoder[s].newest
    BY <1>3, <2>1, SharedType
  <2>3. cuda'.master = cuda.master
    BY <1>1, <1>3 DEF CudaStates
  <2>4. DevicesMoved(s, i, d)
    BY <1>2, <1>3, <2>1, <2>2, <2>3, StreamIs DEF DevicesMoved, Same
  <2> QED
    BY <1>1, <2>2, <2>4, DeviceStep
<1>4. CASE NoShare(s) /\ CudaQuiet
  <2>1. PICK i \in InitType, d \in DecoderType :
          /\ init' = [init EXCEPT ![s] = i] /\ i.at = "open" /\ i.made = 0
          /\ decoder' = [decoder EXCEPT ![s] = d] /\ d.id = decoder[s].id
          /\ d.device = decoder[s].device /\ d.shared = decoder[s].shared
          /\ d.newest = decoder[s].newest
    BY <1>4, UnsharedType
  <2>2. DevicesMoved(s, i, d)
    BY <1>2, <1>4, <2>1, StreamIs, DevicesStay DEF CudaQuiet
  <2> QED
    BY <1>1, <1>2, <2>1, <2>2, DeviceStep
<1> QED
  BY <1>3, <1>4 DEF AcquireCuda

LEMMA MakeRefers ==
  ASSUME ReferencesInv, SharingInv, NEW s \in Streams, MakeCuda(s)
  PROVE  ReferencesInv'
<1>1. init[s].at = "make" /\ InitQuiet /\ Fine /\ UNCHANGED cuda /\ ~decoder[s].shared
  BY StreamFacts DEF MakeCuda
<1>2. init[s].made = 0 /\ decoder[s].device = 0
  BY <1>1, InitStage
<1>3. ASSUME NEW m \in Unused(devRefs), devRefs' = [devRefs EXCEPT ![m] = 1],
             init' = [init EXCEPT ![s].at = "install", ![s].made = m], UNCHANGED decoder
      PROVE  ReferencesInv'
  <2> DEFINE i == [init[s] EXCEPT !.at = "install", !.made = m]
  <2>1. m \in Devices /\ devRefs[m] = 0 /\ 0 \notin Devices
    BY StreamIs, Sizes DEF Unused
  <2>2. i \in InitType /\ i.at = "install" /\ i.made = m
    BY <2>1, StreamIs DEF InitType, Stages
  <2>3. init' = [init EXCEPT ![s] = i]
    BY <1>3, StreamIs DEF Places
  <2> HIDE DEF i
  <2>4. decoder[s] \in DecoderType /\ decoder' = [decoder EXCEPT ![s] = decoder[s]]
    BY <1>3, StreamIs, Quiet
  <2>5. DevicesMoved(s, i, decoder[s])
    <3>1. /\ devRefs' \in [Devices -> Int] /\ devRefs'[m] = 1
          /\ \A x \in Devices \ {m} : devRefs'[x] = devRefs[x]
      BY <1>3, <2>1, StreamIs
    <3>2. \A x \in Devices : devRefs[x] \in Int
      BY StreamIs
    <3> QED
      BY <1>1, <1>2, <2>1, <2>2, <3>1, <3>2 DEF DevicesMoved, Same
  <2> QED
    BY <1>1, <1>2, <2>2, <2>3, <2>4, <2>5, DeviceStep
<1>4. CASE NoShare(s) /\ UNCHANGED devRefs
  <2>1. PICK i \in InitType, d \in DecoderType :
          /\ init' = [init EXCEPT ![s] = i] /\ i.at = "open" /\ i.made = 0
          /\ decoder' = [decoder EXCEPT ![s] = d] /\ d.id = decoder[s].id
          /\ d.device = decoder[s].device /\ d.shared = decoder[s].shared
          /\ d.newest = decoder[s].newest
    BY <1>4, UnsharedType
  <2>2. DevicesMoved(s, i, d)
    BY <1>1, <1>2, <1>4, <2>1, StreamIs, DevicesStay
  <2> QED
    BY <1>1, <1>2, <2>1, <2>2, DeviceStep
<1> QED
  BY <1>3, <1>4 DEF MakeCuda

(* The device made is installed or given back, and taken if it can be. *)
LEMMA InstallRefers ==
  ASSUME ReferencesInv, SharingInv, NEW s \in Streams, InstallCuda(s)
  PROVE  ReferencesInv'
<1> DEFINE mine == init[s].made
           master == IF cuda.master = 0 THEN mine ELSE cuda.master
           refs == IF cuda.master = 0 THEN devRefs ELSE [devRefs EXCEPT ![mine] = @ - 1]
<1>1. /\ init[s].at = "install" /\ InitQuiet /\ (Fault \/ Fine) /\ mine # 0
      /\ ~decoder[s].shared /\ cuda \in CudaStates
  BY StreamFacts DEF InstallCuda, SharingInv, SharingType
<1>2. mine \in Devices /\ master \in Devices /\ 0 \notin Devices
  BY <1>1, MasterDevice, StreamIs, Sizes DEF InitType
<1>3. decoder[s].device = 0
  BY <1>1, InitStage
<1>4. /\ refs \in [Devices -> Int]
      /\ \A x \in Devices : refs[x] = devRefs[x] - Same(mine, x)
                                      - Same(cuda.master, x) + Same(master, x)
  <2>1. CASE cuda.master = 0
    BY <1>2, <2>1, StreamIs DEF Same
  <2>2. CASE cuda.master # 0
    BY <1>2, <2>2, StreamIs DEF Same
  <2> QED
    BY <2>1, <2>2
<1>5. \/ /\ Share(s, master)
         /\ cuda' = [master |-> master, users |-> cuda.users + 1]
         /\ devRefs' = [refs EXCEPT ![master] = @ + 1]
      \/ /\ NoShare(s)
         /\ cuda' = [cuda EXCEPT !.master = IF cuda.users = 0 THEN 0 ELSE master]
         /\ devRefs' = IF cuda.users = 0 THEN [refs EXCEPT ![master] = @ - 1] ELSE refs
  BY DEF InstallCuda
<1>6. cuda.users # 0 => master = cuda.master
  BY MasterDevice
<1> HIDE DEF master, refs
<1>7. CASE /\ Share(s, master)
           /\ cuda' = [master |-> master, users |-> cuda.users + 1]
           /\ devRefs' = [refs EXCEPT ![master] = @ + 1]
  <2>1. PICK i \in InitType, d \in DecoderType :
          /\ init' = [init EXCEPT ![s] = i] /\ i.at = "open" /\ i.made = 0
          /\ decoder' = [decoder EXCEPT ![s] = d] /\ d.id = decoder[s].id
          /\ d.device = master /\ d.shared /\ d.newest = decoder[s].newest
    BY <1>2, <1>7, SharedType
  <2>2. cuda'.master = master
    BY <1>7
  <2>3. DevicesMoved(s, i, d)
    <3>1. /\ devRefs' \in [Devices -> Int]
          /\ \A x \in Devices : devRefs'[x] = refs[x] + Same(master, x)
      BY <1>2, <1>4, <1>7 DEF Same
    <3>2. \A x \in Devices : devRefs[x] \in Int
      BY StreamIs
    <3> QED
      BY <1>2, <1>3, <1>4, <2>1, <2>2, <3>1, <3>2 DEF DevicesMoved, Same
  <2> QED
    BY <1>1, <2>1, <2>3, DeviceStep
<1>8. CASE /\ NoShare(s)
           /\ cuda' = [cuda EXCEPT !.master = IF cuda.users = 0 THEN 0 ELSE master]
           /\ devRefs' = IF cuda.users = 0 THEN [refs EXCEPT ![master] = @ - 1] ELSE refs
  <2>1. PICK i \in InitType, d \in DecoderType :
          /\ init' = [init EXCEPT ![s] = i] /\ i.at = "open" /\ i.made = 0
          /\ decoder' = [decoder EXCEPT ![s] = d] /\ d.id = decoder[s].id
          /\ d.device = decoder[s].device /\ d.shared = decoder[s].shared
          /\ d.newest = decoder[s].newest
    BY <1>8, UnsharedType
  <2>2. cuda'.master = IF cuda.users = 0 THEN 0 ELSE master
    BY <1>1, <1>8 DEF CudaStates
  <2>3. DevicesMoved(s, i, d)
    <3>1. /\ devRefs' \in [Devices -> Int]
          /\ \A x \in Devices :
               devRefs'[x] = refs[x] - Same(master, x) + Same(cuda'.master, x)
      <4>1. CASE cuda.users = 0
        BY <1>2, <1>4, <1>8, <2>2, <4>1 DEF Same
      <4>2. CASE cuda.users # 0
        BY <1>2, <1>4, <1>8, <2>2, <4>2 DEF Same
      <4> QED
        BY <4>1, <4>2
    <3>2. \A x \in Devices : devRefs[x] \in Int
      BY StreamIs
    <3> QED
      BY <1>2, <1>3, <1>4, <2>1, <3>1, <3>2 DEF DevicesMoved, Same
  <2> QED
    BY <1>1, <1>3, <2>1, <2>3, DeviceStep
<1> QED
  BY <1>5, <1>7, <1>8

(* A decoder is destroyed, and its device left. *)
LEMMA DestroyRefers ==
  ASSUME ReferencesInv, SharingInv, NEW s \in Streams, NEW i, i.made = init[s].made,
         DecoderDestroy(s)
  PROVE  DevicesMoved(s, i, NoDecoder)
<1>1. cuda \in CudaStates /\ devRefs \in [Devices -> Int] /\ 0 \notin Devices
  BY StreamIs, Sizes DEF SharingInv, SharingType
<1>2. cuda'.master = cuda.master \/ cuda'.master = 0
  BY <1>1 DEF DecoderDestroy, ReleaseSharedCuda
<1>3. devRefs' = [x \in Devices |->
                    devRefs[x] - (IF x = decoder[s].device THEN 1 ELSE 0)
                    - (IF cuda'.master = 0 /\ x = cuda.master THEN 1 ELSE 0)]
  BY DEF DecoderDestroy
<1>4. devRefs' \in [Devices -> Int]
  BY <1>1, <1>3
<1>5. ASSUME NEW x \in Devices
      PROVE  devRefs'[x] = devRefs[x] - Same(decoder[s].device, x) + Same(NoDecoder.device, x)
                           - Same(init[s].made, x) + Same(i.made, x)
                           - Same(cuda.master, x) + Same(cuda'.master, x)
  <2>1. x # 0 /\ NoDecoder.device = 0 /\ devRefs[x] \in Int
    BY <1>1, NoDecoderIs
  <2>2. devRefs'[x] = devRefs[x] - (IF x = decoder[s].device THEN 1 ELSE 0)
                      - (IF cuda'.master = 0 /\ x = cuda.master THEN 1 ELSE 0)
    BY <1>3
  <2> QED
    BY <1>2, <2>1, <2>2 DEF Same
<1> QED
  BY <1>4, <1>5 DEF DevicesMoved

LEMMA OpenFailsRefers ==
  ASSUME ReferencesInv, SharingInv, NEW s \in Streams, OpenFails(s)
  PROVE  ReferencesInv'
<1>1. /\ init[s].at = "open" /\ init[s].tries # <<>> /\ NextTry(s) /\ Fault
      /\ DecoderDestroy(s) /\ stats' = [stats EXCEPT ![decoder[s].id] = @ - 1]
      /\ UNCHANGED <<kept, last, snapshot, copied>>
  BY StreamFacts DEF OpenFails, PictureQuiet
<1>2. PICK i \in InitType : /\ init' = [init EXCEPT ![s] = i]
                            /\ i.at \in {"create", "closed"}
                            /\ i.made # 0 => i.made = init[s].made
  BY <1>1, NextTryType
<1>3. /\ kept[s] = NoFrame /\ last[s] = NoFrame /\ init[s].made = 0 /\ decoder[s].id # 0
  BY <1>1, InitStage
<1>4. Sound(i, NoDecoder, kept[s], last[s], faults')
  BY <1>2, <1>3, NoDecoderIs DEF Sound
<1>5. decoder' = [decoder EXCEPT ![s] = NoDecoder]
  BY <1>1 DEF DecoderDestroy
<1>6. Moved(s, i, NoDecoder, kept[s], last[s])
  BY <1>1, <1>2, <1>4, <1>5, StreamIs, Quiet DEF Moved
<1>7. i.made = init[s].made
  BY <1>2, <1>3
<1>8. DevicesMoved(s, i, NoDecoder)
  BY <1>1, <1>7, DestroyRefers
<1>9. StatsMoved(s, NoDecoder, kept[s], last[s])
  <2>1. decoder[s].id \in Numbers
    BY <1>3, StreamIs DEF DecoderType
  <2>2. /\ stats' \in [Numbers -> Int]
        /\ \A n \in Numbers : stats[n] \in Int /\ stats'[n] = stats[n] - Same(decoder[s].id, n)
    BY <1>1, <2>1, StreamIs DEF Same
  <2>3. \A n \in Numbers : Same(NoDecoder.id, n) = 0
    BY NoDecoderIs, Sizes DEF Same
  <2>4. \A n \in Numbers : Held(kept[s], n) = 0 /\ Held(last[s], n) = 0
    BY <1>3, NoDecoderIs DEF Held
  <2> QED
    BY <2>2, <2>3, <2>4 DEF StatsMoved, Same
<1> QED
  BY <1>1, <1>6, <1>8, <1>9, StreamIs, FaultFacts, StreamMoves

LEMMA CloseRefers ==
  ASSUME ReferencesInv, SharingInv, NEW s \in Streams, StreamCloseDecoder(s)
  PROVE  ReferencesInv'
<1>1. /\ init[s].at = "ready" /\ Fine /\ DecoderDestroy(s)
      /\ last' = [last EXCEPT ![s] = NoFrame] /\ init' = [init EXCEPT ![s] = Closed]
      /\ stats' = [Unref(stats, last[s]) EXCEPT ![decoder[s].id] = @ - 1]
      /\ UNCHANGED <<kept, snapshot, copied>>
  BY DEF StreamCloseDecoder
<1>2. /\ Closed \in InitType /\ Closed.at = "closed" /\ Closed.made = 0
  BY DEF Closed, InitType, Stages
<1>3. /\ kept[s] = NoFrame /\ init[s].made = 0 /\ decoder[s].id # 0
      /\ last[s] # NoFrame => last[s].id = decoder[s].id
  BY <1>1, StreamIs DEF Sound
<1>4. Sound(Closed, NoDecoder, kept[s], NoFrame, faults')
  BY <1>2, <1>3, NoDecoderIs DEF Sound
<1>5. decoder' = [decoder EXCEPT ![s] = NoDecoder]
  BY <1>1 DEF DecoderDestroy
<1>6. Moved(s, Closed, NoDecoder, kept[s], NoFrame)
  BY <1>1, <1>4, <1>5, StreamIs, Quiet DEF Moved
<1>7. DevicesMoved(s, Closed, NoDecoder)
  BY <1>1, <1>2, <1>3, DestroyRefers
<1>8. StatsMoved(s, NoDecoder, kept[s], NoFrame)
  <2>1. decoder[s].id \in Numbers /\ (last[s].hw => last[s].id # 0)
    BY <1>3, StreamIs, NoDecoderIs DEF DecoderType
  <2>2. /\ Unref(stats, last[s]) \in [Numbers -> Int]
        /\ \A n \in Numbers : Unref(stats, last[s])[n] = stats[n] - Held(last[s], n)
    BY <2>1, StreamIs, RefFacts
  <2>3. /\ stats' \in [Numbers -> Int]
        /\ \A n \in Numbers : stats'[n] = Unref(stats, last[s])[n] - Same(decoder[s].id, n)
    BY <1>1, <2>1, <2>2 DEF Same
  <2>4. \A n \in Numbers : Same(NoDecoder.id, n) = 0
    BY NoDecoderIs, Sizes DEF Same
  <2>5. \A n \in Numbers : Held(kept[s], n) = 0 /\ Held(NoFrame, n) = 0
    BY <1>3, NoDecoderIs DEF Held
  <2>6. \A n \in Numbers : /\ stats[n] \in Int /\ Held(last[s], n) \in Int
                           /\ Same(decoder[s].id, n) \in Int
    BY StreamIs DEF Same, Held
  <2> QED
    BY <2>2, <2>3, <2>4, <2>5, <2>6 DEF StatsMoved
<1> QED
  BY <1>1, <1>6, <1>7, <1>8, StreamIs, FaultFacts, StreamMoves

(* A picture is given out, and takes the place of the one kept before. *)
LEMMA ReceiveRefers ==
  ASSUME ReferencesInv, NEW s \in Streams, ReceiveFrame(s)
  PROVE  ReferencesInv'
<1> DEFINE d == [decoder[s] EXCEPT !.inside = Tail(decoder[s].inside),
                                   !.newest = Head(decoder[s].inside)]
<1>1. /\ init[s].at = "receive" /\ decoder[s].inside # <<>> /\ (Fault \/ Fine)
      /\ UNCHANGED <<init, last, cuda, devRefs, snapshot, copied>>
  BY DEF ReceiveFrame, DecodeQuiet, CudaQuiet
<1>2. /\ decoder[s] \in DecoderType /\ decoder[s].inside \in Seq(1 .. MaxPackets)
      /\ init[s] \in InitType /\ Places
  BY StreamIs DEF DecoderType, Queues
<1>3. Head(decoder[s].inside) \in 1 .. MaxPackets /\ Tail(decoder[s].inside) \in Seq(1 .. MaxPackets)
  BY <1>1, <1>2, QueueFacts
<1>4. Head(decoder[s].inside) \in Counts /\ Tail(decoder[s].inside) \in Queues
  BY <1>3, Sizes DEF Counts, Queues
<1>5. /\ d \in DecoderType /\ d.id = decoder[s].id /\ d.device = decoder[s].device
      /\ d.shared = decoder[s].shared /\ d.newest = Head(decoder[s].inside)
  BY <1>2, <1>4 DEF DecoderType
<1>6. decoder' = [decoder EXCEPT ![s] = d]
  BY <1>2 DEF ReceiveFrame, Places
<1> HIDE DEF d
<1>7. /\ Sound(init[s], decoder[s], kept[s], last[s], faults) /\ decoder[s].id # 0
      /\ (faults' = 0 => faults = 0) /\ FaultsMoved /\ (Fault => faults' # 0)
  BY <1>1, StreamIs, FaultFacts DEF Sound
<1>8. kept[s].hw => kept[s].id # 0
  BY <1>7, NoDecoderIs DEF Sound
<1>9. DevicesMoved(s, init[s], d)
  BY <1>1, <1>2, <1>5, DevicesStay
<1>10. ASSUME NEW f \in Frames, kept' = [kept EXCEPT ![s] = f], f.hw => f.id # 0,
              f # NoFrame => f.id = d.id, faults' = 0 => f # NoFrame /\ f.pts = d.newest,
              stats' \in [Numbers -> Int],
              \A n \in Numbers : stats'[n] = stats[n] - Held(kept[s], n) + Held(f, n)
       PROVE  ReferencesInv'
  <2>1. Sound(init[s], d, f, last[s], faults')
    BY <1>1, <1>2, <1>5, <1>7, <1>10 DEF Sound
  <2>2. Moved(s, init[s], d, f, last[s])
    BY <1>1, <1>2, <1>6, <1>10, <2>1, Quiet DEF Moved
  <2>3. \A n \in Numbers : /\ stats[n] \in Int /\ Held(kept[s], n) \in Int /\ Held(f, n) \in Int
                           /\ Held(last[s], n) \in Int /\ Same(d.id, n) \in Int
    BY StreamIs DEF Held, Same
  <2>4. StatsMoved(s, d, f, last[s])
    BY <1>5, <1>10, <2>3 DEF StatsMoved
  <2> QED
    BY <1>7, <1>9, <2>2, <2>4, StreamMoves
<1>11. /\ Unref(stats, kept[s]) \in [Numbers -> Int]
       /\ \A n \in Numbers : Unref(stats, kept[s])[n] = stats[n] - Held(kept[s], n)
  BY <1>8, StreamIs, RefFacts
<1>12. ASSUME NEW hw \in BOOLEAN, NEW f,
              f = [id |-> decoder[s].id, pts |-> Head(decoder[s].inside), hw |-> hw],
              kept' = [kept EXCEPT ![s] = f], stats' = Ref(Unref(stats, kept[s]), f)
       PROVE  ReferencesInv'
  <2>1. /\ f \in Frames /\ f.id = decoder[s].id /\ f.pts = Head(decoder[s].inside)
    BY <1>2, <1>4, <1>12 DEF Frames, DecoderType, Counts
  <2>2. f # NoFrame
    BY <1>7, <2>1, NoDecoderIs
  <2>3. /\ stats' \in [Numbers -> Int]
        /\ \A n \in Numbers : stats'[n] = Unref(stats, kept[s])[n] + Held(f, n)
    BY <1>7, <1>11, <1>12, <2>1, RefFacts
  <2>4. \A n \in Numbers : stats'[n] = stats[n] - Held(kept[s], n) + Held(f, n)
    BY <1>11, <2>3
  <2> QED
    BY <1>5, <1>7, <1>10, <1>12, <2>1, <2>2, <2>3, <2>4
<1>13. CASE kept' = [kept EXCEPT ![s] = NoFrame] /\ stats' = Unref(stats, kept[s]) /\ Fault
  <2>1. \A n \in Numbers : /\ stats[n] \in Int /\ Held(kept[s], n) \in Int
                           /\ Held(NoFrame, n) = 0
    BY StreamIs, NoDecoderIs DEF Held
  <2>2. \A n \in Numbers : stats'[n] = stats[n] - Held(kept[s], n) + Held(NoFrame, n)
    BY <1>11, <1>13, <2>1
  <2> QED
    BY <1>7, <1>10, <1>11, <1>13, <2>2, NoDecoderIs
<1> QED
  BY <1>12, <1>13 DEF ReceiveFrame

(* The packet is consumed: what was kept is shown. *)
LEMMA EndDecodeRefers ==
  ASSUME ReferencesInv, NEW s \in Streams, EndDecode(s)
  PROVE  ReferencesInv'
<1>1. /\ init[s].at = "parse" /\ Fine /\ Goto(s, "ready")
      /\ UNCHANGED <<decoder, cuda, devRefs, snapshot, copied>>
  BY DEF EndDecode, DecodeQuiet, CudaQuiet
<1>2. PICK i \in InitType :
        i.at = "ready" /\ i.made = init[s].made /\ init' = [init EXCEPT ![s] = i]
  BY <1>1, StageType DEF Stages
<1>3. /\ Sound(init[s], decoder[s], kept[s], last[s], faults) /\ faults' = faults
      /\ decoder' = [decoder EXCEPT ![s] = decoder[s]]
  BY <1>1, StreamIs, Quiet DEF Fine
<1>4. CASE kept[s] = NoFrame
  <2>1. UNCHANGED <<stats, kept, last>>
    BY <1>4 DEF EndDecode
  <2>2. Sound(i, decoder[s], kept[s], last[s], faults')
    BY <1>1, <1>2, <1>3, <1>4 DEF Sound
  <2> QED
    BY <1>1, <1>2, <1>3, <2>1, <2>2, QuietStep
<1>5. CASE kept[s] # NoFrame
  <2>1. /\ last' = [last EXCEPT ![s] = kept[s]] /\ kept' = [kept EXCEPT ![s] = NoFrame]
        /\ stats' = Unref(stats, last[s])
    BY <1>5 DEF EndDecode
  <2>2. Sound(i, decoder[s], NoFrame, kept[s], faults')
    BY <1>1, <1>2, <1>3, <1>5, NoDecoderIs DEF Sound
  <2>3. Moved(s, i, decoder[s], NoFrame, kept[s])
    BY <1>1, <1>2, <1>3, <2>1, <2>2 DEF Moved
  <2>4. last[s].hw => last[s].id # 0
    BY <1>1, <1>3, NoDecoderIs DEF Sound
  <2>5. StatsMoved(s, decoder[s], NoFrame, kept[s])
    <3>1. /\ stats' \in [Numbers -> Int]
          /\ \A n \in Numbers : stats'[n] = stats[n] - Held(last[s], n)
      BY <2>1, <2>4, StreamIs, RefFacts
    <3>2. \A n \in Numbers : /\ stats[n] \in Int /\ Held(kept[s], n) \in Int
                             /\ Held(last[s], n) \in Int /\ Same(decoder[s].id, n) \in Int
                             /\ Held(NoFrame, n) = 0
      BY StreamIs, NoDecoderIs DEF Held, Same
    <3> QED
      BY <3>1, <3>2 DEF StatsMoved
  <2>6. DevicesMoved(s, i, decoder[s])
    BY <1>1, <1>2, StreamIs, DevicesStay
  <2> QED
    BY <1>1, <2>3, <2>5, <2>6, StreamIs, FaultFacts, StreamMoves
<1> QED
  BY <1>4, <1>5

-----------------------------------------------------------------------------
(* The readers. *)

LEMMA SnapshotMoved ==
  ASSUME snapshot \in [Readers -> Frames], snapshot' \in [Readers -> Frames], NEW r \in Readers,
         \A y \in Readers \ {r} : snapshot'[y] = snapshot[y], NEW n
  PROVE  /\ Uses(snapshot, n) \in Nat /\ Uses(snapshot', n) \in Nat
         /\ Uses(snapshot', n) = Uses(snapshot, n) - Held(snapshot[r], n) + Held(snapshot'[r], n)
<1>1. IsFiniteSet(Readers)
  BY Sizes
<1> QED
  BY <1>1, UsesMoved

LEMMA ReaderMoves ==
  ASSUME ReferencesInv, NEW r \in Readers, NEW f \in Frames, f # NoFrame => f.id # 0,
         snapshot' = [snapshot EXCEPT ![r] = f], copied' \in [Readers -> BOOLEAN],
         ReaderQuiet, Fault \/ Fine, stats' \in [Numbers -> Int],
         \A n \in Numbers : stats'[n] = stats[n] - Held(snapshot[r], n) + Held(f, n)
  PROVE  ReferencesInv'
<1>1. Places /\ StreamsSound /\ ReadersHold /\ DevicesExact /\ StatsExact
  BY DEF ReferencesInv
<1>2. FaultsMoved /\ (faults' = 0 => faults = 0)
  BY <1>1, FaultFacts
<1>3. UNCHANGED <<cuda, devRefs, init, decoder, kept, last>>
  BY DEF ReaderQuiet
<1>4. Places'
  BY <1>1, <1>2, <1>3 DEF Places, FaultsMoved
<1>5. ASSUME NEW s \in Streams
      PROVE  Sound(init'[s], decoder'[s], kept'[s], last'[s], faults')
  <2>1. Sound(init[s], decoder[s], kept[s], last[s], faults)
    BY <1>1 DEF StreamsSound
  <2>2. Sound(init[s], decoder[s], kept[s], last[s], faults')
    BY <1>2, <2>1 DEF Sound
  <2> QED
    BY <1>3, <2>2
<1>6. ReadersHold'
  BY <1>1 DEF ReadersHold, Places
<1>7. DevicesExact'
  BY <1>1, <1>3 DEF DevicesExact
<1>8. StatsExact'
  <2> SUFFICES ASSUME NEW n \in Numbers
               PROVE  stats'[n] = Owners(n)' + Uses(kept', n) + Uses(last', n) + Uses(snapshot', n)
    BY DEF StatsExact, Owners, Uses
  <2>1. /\ Owners(n)' = Owners(n) /\ Uses(kept', n) = Uses(kept, n) /\ Uses(last', n) = Uses(last, n)
    BY <1>3 DEF Owners
  <2>2. /\ Uses(snapshot, n) \in Nat /\ Uses(snapshot', n) \in Nat
        /\ Uses(snapshot', n) = Uses(snapshot, n) - Held(snapshot[r], n) + Held(f, n)
    <3>1. /\ snapshot \in [Readers -> Frames] /\ snapshot' \in [Readers -> Frames]
          /\ snapshot'[r] = f /\ \A y \in Readers \ {r} : snapshot'[y] = snapshot[y]
      BY <1>1, <1>4 DEF Places
    <3>2. /\ Uses(snapshot, n) \in Nat /\ Uses(snapshot', n) \in Nat
          /\ Uses(snapshot', n) = Uses(snapshot, n) - Held(snapshot[r], n) + Held(snapshot'[r], n)
      BY <3>1, SnapshotMoved
    <3> QED
      BY <3>1, <3>2
  <2>3. /\ Owners(n) \in Nat /\ Uses(kept, n) \in Nat /\ Uses(last, n) \in Nat
    <3>1. /\ {y \in Streams : decoder[y].id = n} \in SUBSET Streams
          /\ {y \in DOMAIN kept : kept[y].hw /\ kept[y].id = n} \in SUBSET Streams
          /\ {y \in DOMAIN last : last[y].hw /\ last[y].id = n} \in SUBSET Streams
      BY <1>1 DEF Places
    <3>2. /\ IsFiniteSet({y \in Streams : decoder[y].id = n})
          /\ IsFiniteSet({y \in DOMAIN kept : kept[y].hw /\ kept[y].id = n})
          /\ IsFiniteSet({y \in DOMAIN last : last[y].hw /\ last[y].id = n})
      BY <3>1, Sizes, FS_Subset
    <3> QED
      BY <3>2, FS_CardinalityType DEF Owners, Uses
  <2>4. stats[n] = Owners(n) + Uses(kept, n) + Uses(last, n) + Uses(snapshot, n)
    BY <1>1 DEF StatsExact, Owners
  <2>5. Held(f, n) \in Nat /\ Held(snapshot[r], n) \in Nat
    BY DEF Held
  <2> QED
    BY <2>1, <2>2, <2>3, <2>4, <2>5
<1> QED
  BY <1>4, <1>5, <1>6, <1>7, <1>8 DEF ReferencesInv, StreamsSound

LEMMA ReaderIs ==
  ASSUME ReferencesInv, NEW r \in Readers
  PROVE  /\ snapshot[r] \in Frames /\ snapshot = [snapshot EXCEPT ![r] = snapshot[r]]
         /\ snapshot[r] # NoFrame => snapshot[r].id # 0
         /\ copied \in [Readers -> BOOLEAN]
  BY DEF ReferencesInv, Places, ReadersHold

LEMMA RefFrameRefers ==
  ASSUME ReferencesInv, NEW r \in Readers, NEW s \in Streams, RefFrame(r, s)
  PROVE  ReferencesInv'
<1>1. /\ snapshot[r] = NoFrame /\ last[s] # NoFrame /\ Fine /\ ReaderQuiet /\ UNCHANGED copied
      /\ snapshot' = [snapshot EXCEPT ![r] = last[s]] /\ stats' = Ref(stats, last[s])
  BY DEF RefFrame
<1>2. last[s] \in Frames /\ last[s].id # 0
  BY <1>1, StreamIs DEF Sound
<1>3. /\ stats' \in [Numbers -> Int]
      /\ \A n \in Numbers : stats'[n] = stats[n] + Held(last[s], n)
  BY <1>1, <1>2, StreamIs, RefFacts
<1>4. \A n \in Numbers : stats[n] \in Int /\ Held(snapshot[r], n) = 0
  BY <1>1, StreamIs, NoDecoderIs DEF ReferencesInv, Places, Held
<1>5. \A n \in Numbers : stats'[n] = stats[n] - Held(snapshot[r], n) + Held(last[s], n)
  BY <1>3, <1>4
<1> QED
  BY <1>1, <1>2, <1>3, <1>5, ReaderIs, ReaderMoves

(* The picture is given back, converted or not. *)
LEMMA FreeRefers ==
  ASSUME ReferencesInv, NEW r \in Readers, MaterializeFrame(r) \/ ConvertFrame(r)
  PROVE  ReferencesInv'
<1>1. ReaderQuiet /\ (Fault \/ Fine)
  BY DEF MaterializeFrame, ConvertFrame
<1>2. copied' \in [Readers -> BOOLEAN]
  BY ReaderIs DEF MaterializeFrame, ConvertFrame
<1>3. \A n \in Numbers : stats[n] \in Int /\ Held(NoFrame, n) = 0 /\ Held(snapshot[r], n) \in Int
  BY NoDecoderIs DEF ReferencesInv, Places, Held
<1>4. stats \in [Numbers -> Int]
  BY DEF ReferencesInv, Places
<1>5. CASE UNCHANGED <<snapshot, stats>>
  <2>1. \A n \in Numbers : stats'[n] = stats[n] - Held(snapshot[r], n) + Held(snapshot[r], n)
    BY <1>3, <1>5
  <2> QED
    BY <1>1, <1>2, <1>4, <1>5, <2>1, ReaderIs, ReaderMoves
<1>6. CASE snapshot' = [snapshot EXCEPT ![r] = NoFrame] /\ stats' = Unref(stats, snapshot[r])
  <2>1. snapshot[r].hw => snapshot[r].id # 0
    BY ReaderIs, NoDecoderIs
  <2>2. /\ stats' \in [Numbers -> Int]
        /\ \A n \in Numbers : stats'[n] = stats[n] - Held(snapshot[r], n)
    BY <1>4, <1>6, <2>1, ReaderIs, RefFacts
  <2>3. \A n \in Numbers : stats'[n] = stats[n] - Held(snapshot[r], n) + Held(NoFrame, n)
    BY <1>3, <2>2
  <2> QED
    BY <1>1, <1>2, <1>6, <2>2, <2>3, NoDecoderIs, ReaderMoves
<1> QED
  BY <1>5, <1>6 DEF MaterializeFrame, ConvertFrame

-----------------------------------------------------------------------------
LEMMA ReferencesInit == Init => ReferencesInv
<1> SUFFICES ASSUME Init PROVE ReferencesInv
  OBVIOUS
<1>1. Closed \in InitType /\ Closed.at = "closed" /\ Closed.made = 0
  BY DEF Closed, InitType, Stages
<1>2. Places
  BY <1>1, NoDecoderIs, Sizes DEF Init, Places
<1>3. Sound(Closed, NoDecoder, NoFrame, NoFrame, 0)
  BY <1>1, NoDecoderIs DEF Sound
<1>4. StreamsSound /\ ReadersHold
  BY <1>3 DEF Init, StreamsSound, ReadersHold
<1>5. Cardinality({}) = 0
  BY FS_EmptySet
<1>6. DevicesExact
  <2>1. ASSUME NEW x \in Devices
        PROVE  /\ {s \in Streams : decoder[s].device = x} = {}
               /\ {s \in Streams : init[s].made = x} = {}
               /\ devRefs[x] = 0 /\ cuda.master # x
    BY <1>1, NoDecoderIs, Sizes DEF Init
  <2> QED
    BY <1>5, <2>1 DEF DevicesExact
<1>7. StatsExact
  <2>1. ASSUME NEW n \in Numbers
        PROVE  /\ {s \in Streams : decoder[s].id = n} = {}
               /\ {x \in DOMAIN kept : kept[x].hw /\ kept[x].id = n} = {}
               /\ {x \in DOMAIN last : last[x].hw /\ last[x].id = n} = {}
               /\ {x \in DOMAIN snapshot : snapshot[x].hw /\ snapshot[x].id = n} = {}
               /\ stats[n] = 0
    BY NoDecoderIs, Sizes DEF Init
  <2>2. ASSUME NEW n \in Numbers
        PROVE  stats[n] = Owners(n) + Uses(kept, n) + Uses(last, n) + Uses(snapshot, n)
    <3>1. Owners(n) = 0 /\ Uses(kept, n) = 0 /\ Uses(last, n) = 0 /\ Uses(snapshot, n) = 0
      BY <1>5, <2>1 DEF Owners, Uses
    <3> QED
      BY <2>1, <3>1
  <2> QED
    BY <2>2 DEF StatsExact, Owners
<1> QED
  BY <1>2, <1>4, <1>6, <1>7 DEF ReferencesInv

LEMMA ReferencesStep ==
  ASSUME ReferencesInv, SharingInv, [Next]_vars
  PROVE  ReferencesInv'
<1>1. CASE UNCHANGED vars
  BY <1>1 DEF vars, ReferencesInv, Places, StreamsSound, ReadersHold, DevicesExact, StatsExact, Uses
<1>2. ASSUME NEW s \in Streams, InitDecoder(s) PROVE ReferencesInv'
  BY <1>2, StartQuiet, CreateRefers, CreateFailsQuiet, SoftwareQuiet, AcquireRefers, MakeRefers,
     InstallRefers, OpenCodecQuiet, OpenFailsRefers DEF InitDecoder
<1>3. ASSUME NEW s \in Streams, StreamCloseDecoder(s) \/ Decode(s) PROVE ReferencesInv'
  BY <1>3, CloseRefers, BeginDecodeQuiet, CallQuiet, ReceiveRefers, EndDecodeRefers DEF Decode
<1>4. ASSUME NEW r \in Readers,
             MaterializeFrame(r) \/ ConvertFrame(r) \/ \E s \in Streams : RefFrame(r, s)
      PROVE  ReferencesInv'
  BY <1>4, RefFrameRefers, FreeRefers
<1> QED
  BY <1>1, <1>2, <1>3, <1>4 DEF Next

(* What the counts say makes the types precise: no counter is below zero,  *)
(* and the master is a device as long as anybody has it.                   *)
LEMMA ReferencesType == ASSUME ReferencesInv, SharingInv PROVE TypeOK
<1>1. cuda \in [master : Devices \cup {0}, users : Nat]
  BY MasterDevice DEF SharingInv, SharingType, CudaStates
<1>2. ASSUME NEW x \in Devices PROVE devRefs[x] \in Nat
  <2>1. /\ {s \in Streams : decoder[s].device = x} \in SUBSET Streams
        /\ {s \in Streams : init[s].made = x} \in SUBSET Streams
    OBVIOUS
  <2>2. /\ IsFiniteSet({s \in Streams : decoder[s].device = x})
        /\ IsFiniteSet({s \in Streams : init[s].made = x})
    BY <2>1, Sizes, FS_Subset
  <2>3. /\ Cardinality({s \in Streams : decoder[s].device = x}) \in Nat
        /\ Cardinality({s \in Streams : init[s].made = x}) \in Nat
    BY <2>2, FS_CardinalityType
  <2>4. devRefs[x] = Cardinality({s \in Streams : decoder[s].device = x})
                     + Cardinality({s \in Streams : init[s].made = x})
                     + (IF cuda.master = x THEN 1 ELSE 0)
    BY DEF ReferencesInv, DevicesExact
  <2> QED
    BY <2>3, <2>4
<1>3. ASSUME NEW n \in Numbers PROVE stats[n] \in Nat
  <2>1. /\ {y \in Streams : decoder[y].id = n} \in SUBSET Streams
        /\ {y \in DOMAIN kept : kept[y].hw /\ kept[y].id = n} \in SUBSET Streams
        /\ {y \in DOMAIN last : last[y].hw /\ last[y].id = n} \in SUBSET Streams
        /\ {y \in DOMAIN snapshot : snapshot[y].hw /\ snapshot[y].id = n} \in SUBSET Readers
    BY DEF ReferencesInv, Places
  <2>2. /\ IsFiniteSet({y \in Streams : decoder[y].id = n})
        /\ IsFiniteSet({y \in DOMAIN kept : kept[y].hw /\ kept[y].id = n})
        /\ IsFiniteSet({y \in DOMAIN last : last[y].hw /\ last[y].id = n})
        /\ IsFiniteSet({y \in DOMAIN snapshot : snapshot[y].hw /\ snapshot[y].id = n})
    BY <2>1, Sizes, FS_Subset
  <2>3. /\ Owners(n) \in Nat /\ Uses(kept, n) \in Nat /\ Uses(last, n) \in Nat
        /\ Uses(snapshot, n) \in Nat
    BY <2>2, FS_CardinalityType DEF Owners, Uses
  <2>4. stats[n] = Owners(n) + Uses(kept, n) + Uses(last, n) + Uses(snapshot, n)
    BY DEF ReferencesInv, StatsExact, Owners
  <2> QED
    BY <2>3, <2>4
<1>4. devRefs \in [Devices -> Nat] /\ stats \in [Numbers -> Nat]
  <2>1. devRefs \in [Devices -> Int] /\ stats \in [Numbers -> Int]
    BY DEF ReferencesInv, Places
  <2> QED
    BY <1>2, <1>3, <2>1
<1>5. InitType = [at : Stages, tries : Seq(Hardware), made : Devices \cup {0}, asked : SUBSET Hardware]
  BY DEF InitType
<1> QED
  BY <1>1, <1>4 DEF TypeOK, ReferencesInv, Places, InitType, Stages, DecoderType, Counts, Queues

LEMMA AllInv == Spec => [](SharingInv /\ Domains /\ ReferencesInv)
<1>1. Init => SharingInv /\ Domains /\ ReferencesInv
  BY SharingInit, ReferencesInit DEF Init, Domains
<1>2. SharingInv /\ Domains /\ ReferencesInv /\ [Next]_vars => (SharingInv /\ Domains /\ ReferencesInv)'
  BY SharingStep, DomainsStep, ReferencesStep
<1> QED
  BY <1>1, <1>2, PTL DEF Spec

(* Whatever fails and whoever makes the device at the same time, no device *)
(* context and no decoder's statistics are lost or freed too early: the    *)
(* references of both are exact, counting the pictures that the bridge     *)
(* still holds when the decoder is gone (acquire_shared_cuda_device,       *)
(* decoder_destroy, transfer_stats_ref, transfer_stats_unref).             *)
THEOREM ReferencesCounted == Spec => []ReferencesExact
<1>1. SharingInv /\ ReferencesInv => ReferencesExact
  BY ReferencesType DEF ReferencesExact, ReferencesInv
<1> QED
  BY <1>1, AllInv, PTL

(* With any number of packets, pictures that come late and readers that    *)
(* hold on to older ones, a stream at rest shows the newest picture its    *)
(* present decoder gave out, or one less when a call has failed            *)
(* (decoder_decode, stream_decode_video, stream_close_decoder).            *)
THEOREM ShowsNewest == Spec => []NewestShown
<1>1. ReferencesInv => NewestShown
  <2> SUFFICES ASSUME ReferencesInv, NEW s \in Streams
               PROVE  /\ last[s] # NoFrame => last[s].id = decoder[s].id
                      /\ init[s].at = "ready" /\ faults = 0 => last[s].pts = decoder[s].newest
    BY DEF NewestShown
  <2> QED
    BY StreamIs DEF Sound
<1> QED
  BY <1>1, AllInv, PTL
=============================================================================
