------------------------------- MODULE Decoder ------------------------------
(***************************************************************************)
(* The decoders of stream_server (decoder.c, and their life in stream.c).  *)
(* Every stream has at most one decoder, made, used and destroyed under    *)
(* the stream's lock.  What decoders share is the CUDA device context,     *)
(* made once and counted by its users, and the transfer statistics of a    *)
(* decoder, which every hardware picture it gave out holds a reference to  *)
(* - the bridge keeps such pictures, and converts them, after the lock and *)
(* even the decoder are gone.                                              *)
(*                                                                         *)
(* A decoder and a device are known by small numbers that are used again   *)
(* when nothing refers to them, as memory is; 0 is none.  FFmpeg is        *)
(* modelled by what decoder.c relies on: a packet gives one picture, in    *)
(* order and perhaps only after later packets.  The references FFmpeg's    *)
(* own objects hold to a device (hw_device_ctx of the codec context, the   *)
(* frames' contexts) are left out: it drops them with these objects, and   *)
(* decoder.c counts none of them.  decoder_flush has no caller.            *)
(***************************************************************************)
EXTENDS Integers, Sequences, FiniteSets

CONSTANTS
  Streams,   (* Streams with VIDEO packets.                                  *)
  Readers,   (* Threads that take snapshots of pictures (zmq_bridge).        *)
  Backends,  (* Values of DECODE_BACKEND: "auto", "intel", "nvidia", "cpu".  *)
  Deferred,  (* STREAM_DEFER_HW_DOWNLOAD.                                    *)
  MaxPackets,(* Bound: packets of a decoder.                                 *)
  MaxFaults  (* Bound: allocations and library calls that fail.              *)

ASSUME DecoderAssumption ==
  /\ IsFiniteSet(Streams) /\ IsFiniteSet(Readers)
  /\ Backends \subseteq {"auto", "intel", "nvidia", "cpu"}
  /\ Deferred \in BOOLEAN /\ MaxPackets \in Nat /\ MaxFaults \in Nat

VARIABLES
  cuda,     (* g_cuda_device_master and g_cuda_device_users: [master, users]. *)
  devRefs,  (* References to every CUDA device context.                      *)
  stats,    (* refcount of every DecoderTransferStats, 0 for a free one.     *)
  init,     (* stream_init_decoder: [at, tries, made, asked], tries what is left *)
            (* of attempted_backends and made the device just created.       *)
  decoder,  (* StreamContext.decoder_ctx.                                    *)
  kept,     (* last_frame of decoder_decode.                                 *)
  last,     (* StreamContext.last_frame.                                     *)
  snapshot, (* The picture a reader holds.                                   *)
  copied,   (* Whether it has downloaded it.                                 *)
  faults    (* Faults so far.                                                *)

vars == <<cuda, devRefs, stats, init, decoder, kept, last, snapshot, copied, faults>>

Numbers == 1 .. Cardinality(Streams) + Cardinality(Readers)
Devices == 1 .. Cardinality(Streams) + 1

NoFrame   == [id |-> 0, pts |-> 0, hw |-> FALSE]
NewDecoder(n, b) == [id |-> n, backend |-> b, device |-> 0, shared |-> FALSE,
                     pts |-> 0, inside |-> <<>>, newest |-> 0]
NoDecoder == NewDecoder(0, "none")
Closed == [at |-> "closed", tries |-> <<>>, made |-> 0, asked |-> {}]

Init ==
  /\ cuda = [master |-> 0, users |-> 0]
  /\ devRefs = [d \in Devices |-> 0]
  /\ stats = [n \in Numbers |-> 0]
  /\ init = [s \in Streams |-> Closed]
  /\ decoder = [s \in Streams |-> NoDecoder]
  /\ kept = [s \in Streams |-> NoFrame]
  /\ last = [s \in Streams |-> NoFrame]
  /\ snapshot = [r \in Readers |-> NoFrame]
  /\ copied = [r \in Readers |-> FALSE]
  /\ faults = 0

Fault == faults < MaxFaults /\ faults' = faults + 1
Fine  == UNCHANGED faults

(* The smallest number that nothing refers to. *)
Unused(refs) ==
  {x \in DOMAIN refs : refs[x] = 0 /\ \A y \in DOMAIN refs : refs[y] = 0 => x <= y}

(* The statistics of a decoder with references taken and given back; a     *)
(* picture refers to them if it is a hardware one.                         *)
Ref(st, f)   == IF f.hw THEN [st EXCEPT ![f.id] = @ + 1] ELSE st
Unref(st, f) == IF f.hw THEN [st EXCEPT ![f.id] = @ - 1] ELSE st

-----------------------------------------------------------------------------
(* stream_init_decoder, under the stream's lock.                           *)

(* get_decode_backend and the routes of adjust_backend_for_stream, whose   *)
(* last one takes every stream to Intel.                                   *)
Route(asked) == IF asked = "auto" THEN "intel" ELSE asked

AttemptedBackends(b) ==
  CASE b = "intel"  -> <<"intel", "nvidia", "cpu">>
    [] b = "nvidia" -> <<"nvidia", "cpu">>
    [] b = "cpu"    -> <<"cpu">>

Goto(s, to) == init' = [init EXCEPT ![s].at = to]
PictureQuiet == UNCHANGED <<kept, last, snapshot, copied>>
CudaQuiet    == UNCHANGED <<cuda, devRefs>>

StreamInitDecoder(s) ==
  /\ init[s].at = "closed"
  /\ \E asked \in Backends :
       init' = [init EXCEPT ![s] = [at |-> "create", made |-> 0, asked |-> {Route(asked)},
                                    tries |-> AttemptedBackends(Route(asked))]]
  /\ UNCHANGED <<cuda, devRefs, stats, decoder, faults>> /\ PictureQuiet

(* The next attempt; the last one is followed by giving up. *)
NextTry(s) ==
  init' = [init EXCEPT ![s] =
             IF Len(init[s].tries) = 1 THEN Closed
             ELSE [init[s] EXCEPT !.at = "create", !.tries = Tail(init[s].tries)]]

(* decoder_create. *)
DecoderCreate(s) ==
  /\ init[s].at = "create"
  /\ \E n \in Unused(stats) :
       /\ stats' = [stats EXCEPT ![n] = 1]
       /\ decoder' = [decoder EXCEPT ![s] = NewDecoder(n, Head(init[s].tries))]
  /\ Goto(s, "init") /\ CudaQuiet /\ PictureQuiet /\ Fine

DecoderCreateFails(s) ==
  /\ init[s].at = "create" /\ Fault
  /\ NextTry(s)
  /\ UNCHANGED <<stats, decoder>> /\ CudaQuiet /\ PictureQuiet

(* decoder_init, up to avcodec_open2: the same decoder becomes one for the *)
(* CPU when its device is not to be had.                                   *)
ToCpu(s) == decoder' = [decoder EXCEPT ![s].backend = "cpu"]

InitQuiet == UNCHANGED stats /\ PictureQuiet

InitSoftware(s) ==
  /\ init[s].at = "init" /\ decoder[s].backend = "cpu"
  /\ Goto(s, "open") /\ UNCHANGED decoder /\ CudaQuiet /\ Fine /\ InitQuiet

InitVaapi(s) ==
  /\ init[s].at = "init" /\ decoder[s].backend = "intel"
  /\ UNCHANGED decoder \/ ToCpu(s)
  /\ Goto(s, "open") /\ CudaQuiet /\ Fine /\ InitQuiet

(* acquire_shared_cuda_device: a look under g_cuda_device_mu, the creation *)
(* without it, another look.  d is the device the decoder gets.            *)
Share(s, d) ==
  /\ decoder' = [decoder EXCEPT ![s].device = d, ![s].shared = TRUE]
  /\ init' = [init EXCEPT ![s].at = "open", ![s].made = 0, ![s].asked = @ \cup {"nvidia"}]

NoShare(s) ==
  /\ ToCpu(s)
  /\ init' = [init EXCEPT ![s].at = "open", ![s].made = 0, ![s].asked = @ \cup {"nvidia"}]

AcquireCuda(s) ==
  /\ init[s].at = "init" /\ decoder[s].backend = "nvidia" /\ cuda.master # 0
  /\ \/ /\ Share(s, cuda.master) /\ Fine
        /\ cuda' = [cuda EXCEPT !.users = @ + 1]
        /\ devRefs' = [devRefs EXCEPT ![cuda.master] = @ + 1]
     \/ NoShare(s) /\ Fault /\ CudaQuiet
  /\ InitQuiet

NoCudaYet(s) ==
  /\ init[s].at = "init" /\ decoder[s].backend = "nvidia" /\ cuda.master = 0
  /\ Goto(s, "make") /\ UNCHANGED decoder /\ CudaQuiet /\ Fine /\ InitQuiet

MakeCuda(s) ==
  /\ init[s].at = "make" /\ UNCHANGED cuda /\ Fine
  /\ \/ \E d \in Unused(devRefs) :
          /\ devRefs' = [devRefs EXCEPT ![d] = 1]
          /\ init' = [init EXCEPT ![s].at = "install", ![s].made = d]
          /\ UNCHANGED decoder
     \/ NoShare(s) /\ UNCHANGED devRefs
  /\ InitQuiet

(* The device becomes the master, or the master is taken and the device    *)
(* given back.                                                             *)
InstallCuda(s) ==
  /\ init[s].at = "install"
  /\ LET mine   == init[s].made
         master == IF cuda.master = 0 THEN mine ELSE cuda.master
         refs   == IF cuda.master = 0 THEN devRefs ELSE [devRefs EXCEPT ![mine] = @ - 1]
     IN
     \/ /\ Share(s, master) /\ Fine
        /\ cuda' = [master |-> master, users |-> cuda.users + 1]
        /\ devRefs' = [refs EXCEPT ![master] = @ + 1]
     \/ /\ NoShare(s) /\ Fault
        /\ cuda' = [cuda EXCEPT !.master = IF cuda.users = 0 THEN 0 ELSE master]
        /\ devRefs' = IF cuda.users = 0 THEN [refs EXCEPT ![master] = @ - 1] ELSE refs
  /\ InitQuiet

(* decoder_destroy, with release_shared_cuda_device and the reference to   *)
(* the statistics.  Faulty: the shared device keeps its user.              *)
DestroyUnreleased(s) ==
  /\ decoder' = [decoder EXCEPT ![s] = NoDecoder]
  /\ devRefs' = [d \in Devices |-> devRefs[d] - IF d = decoder[s].device THEN 1 ELSE 0]
  /\ UNCHANGED cuda

ReleaseSharedCuda ==
  cuda' = [master |-> IF cuda.users = 1 THEN 0 ELSE cuda.master, users |-> cuda.users - 1]

DecoderDestroy(s) ==
  LET mine(d)   == IF d = decoder[s].device THEN 1 ELSE 0
      master(d) == IF cuda'.master = 0 /\ d = cuda.master THEN 1 ELSE 0
  IN
  /\ decoder' = [decoder EXCEPT ![s] = NoDecoder]
  /\ IF decoder[s].shared THEN ReleaseSharedCuda ELSE UNCHANGED cuda
  /\ devRefs' = [d \in Devices |-> devRefs[d] - mine(d) - master(d)]

(* avcodec_open2. *)
OpenCodec(s) ==
  /\ init[s].at = "open"
  /\ init' = [init EXCEPT ![s].at = "ready", ![s].tries = <<>>]
  /\ UNCHANGED <<stats, decoder>> /\ CudaQuiet /\ PictureQuiet /\ Fine

OpenFails(s) ==
  /\ init[s].at = "open" /\ Fault
  /\ DecoderDestroy(s) /\ stats' = [stats EXCEPT ![decoder[s].id] = @ - 1]
  /\ NextTry(s) /\ PictureQuiet

(* stream_close_decoder. *)
StreamCloseDecoder(s) ==
  /\ init[s].at = "ready"
  /\ last' = [last EXCEPT ![s] = NoFrame]
  /\ stats' = [Unref(stats, last[s]) EXCEPT ![decoder[s].id] = @ - 1]
  /\ DecoderDestroy(s)
  /\ init' = [init EXCEPT ![s] = Closed]
  /\ UNCHANGED <<kept, snapshot, copied>> /\ Fine

-----------------------------------------------------------------------------
(* decoder_decode within stream_decode_video.                              *)

DecodeQuiet == CudaQuiet /\ UNCHANGED <<snapshot, copied>>

BeginDecode(s) ==
  /\ init[s].at = "ready" /\ decoder[s].pts < MaxPackets
  /\ Goto(s, "parse")
  /\ UNCHANGED <<stats, decoder, kept, last>> /\ DecodeQuiet /\ Fine

(* The parser has a packet, and the codec takes it or refuses it.  A codec *)
(* that is full - an error of avcodec_receive_frame has left pictures in   *)
(* it - takes it when one picture was drained, which is lost.              *)
SendPacket(s) ==
  /\ init[s].at = "parse" /\ decoder[s].pts < MaxPackets
  /\ LET n == decoder[s].pts + 1 IN
     \/ /\ decoder' = [decoder EXCEPT ![s].pts = n, ![s].inside = Append(@, n)]
        /\ Goto(s, "receive") /\ Fine
     \/ /\ decoder[s].inside # <<>> /\ Fault
        /\ decoder' = [decoder EXCEPT ![s].pts = n, ![s].inside = Append(Tail(@), n)]
        /\ Goto(s, "receive")
     \/ /\ decoder' = [decoder EXCEPT ![s].pts = n]
        /\ UNCHANGED init /\ Fault
  /\ UNCHANGED <<stats, kept, last>> /\ DecodeQuiet

(* A picture is left in the surface it was decoded to if the codec gives   *)
(* a hardware picture (get_hw_format may have chosen otherwise) and its    *)
(* download is deferred.                                                   *)
MayStayInSurface(s) == Deferred /\ decoder[s].backend # "cpu"

(* Faulty: the picture kept before is forgotten, not freed. *)
ReceiveFrameOver(s) ==
  /\ init[s].at = "receive" /\ decoder[s].inside # <<>>
  /\ \E hw \in BOOLEAN :
       LET f == [id |-> decoder[s].id, pts |-> Head(decoder[s].inside), hw |-> hw] IN
       /\ hw => MayStayInSurface(s)
       /\ decoder' = [decoder EXCEPT ![s].inside = Tail(@), ![s].newest = f.pts]
       /\ kept' = [kept EXCEPT ![s] = f] /\ stats' = Ref(stats, f)
  /\ UNCHANGED <<init, last>> /\ DecodeQuiet /\ Fine

(* Faulty: the first picture of the packet is kept. *)
ReceiveFrameFirst(s) ==
  /\ init[s].at = "receive" /\ decoder[s].inside # <<>>
  /\ \E hw \in BOOLEAN :
       LET f == [id |-> decoder[s].id, pts |-> Head(decoder[s].inside), hw |-> hw] IN
       /\ hw => MayStayInSurface(s)
       /\ decoder' = [decoder EXCEPT ![s].inside = Tail(@), ![s].newest = f.pts]
       /\ IF kept[s] # NoFrame THEN UNCHANGED <<kept, stats>>
          ELSE kept' = [kept EXCEPT ![s] = f] /\ stats' = Ref(stats, f)
  /\ UNCHANGED <<init, last>> /\ DecodeQuiet /\ Fine

(* The picture kept before is freed first; the new one is lost when it     *)
(* cannot be allocated, cloned or downloaded.                              *)
ReceiveFrame(s) ==
  /\ init[s].at = "receive" /\ decoder[s].inside # <<>>
  /\ decoder' = [decoder EXCEPT ![s].inside = Tail(@), ![s].newest = Head(decoder[s].inside)]
  /\ \/ \E hw \in BOOLEAN :
          LET f == [id |-> decoder[s].id, pts |-> Head(decoder[s].inside), hw |-> hw] IN
          /\ hw => MayStayInSurface(s)
          /\ kept' = [kept EXCEPT ![s] = f]
          /\ stats' = Ref(Unref(stats, kept[s]), f)
          /\ Fine
     \/ /\ kept' = [kept EXCEPT ![s] = NoFrame]
        /\ stats' = Unref(stats, kept[s])
        /\ Fault
  /\ UNCHANGED <<init, last>> /\ DecodeQuiet

(* Nothing more for now, or an error that costs the picture. *)
ReceiveEnds(s) ==
  /\ init[s].at = "receive"
  /\ Goto(s, "parse")
  /\ \/ UNCHANGED decoder /\ Fine
     \/ /\ decoder[s].inside # <<>> /\ Fault
        /\ decoder' = [decoder EXCEPT ![s].inside = Tail(@)]
  /\ UNCHANGED <<stats, kept, last>> /\ DecodeQuiet

(* The input is consumed: what was kept takes the last picture's place. *)
EndDecode(s) ==
  /\ init[s].at = "parse"
  /\ Goto(s, "ready")
  /\ IF kept[s] = NoFrame THEN UNCHANGED <<stats, kept, last>>
     ELSE /\ last' = [last EXCEPT ![s] = kept[s]]
          /\ kept' = [kept EXCEPT ![s] = NoFrame]
          /\ stats' = Unref(stats, last[s])
  /\ UNCHANGED decoder /\ DecodeQuiet /\ Fine

-----------------------------------------------------------------------------
(* The bridge: a reference to the last picture taken under the stream's    *)
(* lock, converted and freed without it.                                   *)

Unlocked(s) == init[s].at \in {"closed", "ready"}
ReaderQuiet == UNCHANGED <<cuda, devRefs, init, decoder, kept, last>>

(* decoder_ref_frame. *)
RefFrame(r, s) ==
  /\ snapshot[r] = NoFrame /\ Unlocked(s) /\ last[s] # NoFrame
  /\ snapshot' = [snapshot EXCEPT ![r] = last[s]]
  /\ stats' = Ref(stats, last[s])
  /\ UNCHANGED copied /\ ReaderQuiet /\ Fine

(* decoder_convert_format_with_info: a hardware picture is downloaded to a  *)
(* copy, which its statistics record, or the conversion fails there.       *)
MaterializeFrame(r) ==
  /\ snapshot[r].hw /\ ~copied[r]
  /\ \/ /\ copied' = [copied EXCEPT ![r] = TRUE]
        /\ UNCHANGED <<snapshot, stats>> /\ Fine
     \/ /\ snapshot' = [snapshot EXCEPT ![r] = NoFrame]
        /\ stats' = Unref(stats, snapshot[r])
        /\ UNCHANGED copied /\ Fault
  /\ ReaderQuiet

(* Converted or not, the picture and the copy are freed. *)
ConvertFrame(r) ==
  /\ snapshot[r] # NoFrame /\ (snapshot[r].hw => copied[r])
  /\ snapshot' = [snapshot EXCEPT ![r] = NoFrame]
  /\ copied' = [copied EXCEPT ![r] = FALSE]
  /\ stats' = Unref(stats, snapshot[r])
  /\ ReaderQuiet /\ Fine

-----------------------------------------------------------------------------
InitDecoder(s) ==
  \/ StreamInitDecoder(s) \/ DecoderCreate(s) \/ DecoderCreateFails(s)
  \/ InitSoftware(s) \/ InitVaapi(s)
  \/ AcquireCuda(s) \/ NoCudaYet(s) \/ MakeCuda(s) \/ InstallCuda(s)
  \/ OpenCodec(s) \/ OpenFails(s)
Decode(s) == BeginDecode(s) \/ SendPacket(s) \/ ReceiveFrame(s) \/ ReceiveEnds(s) \/ EndDecode(s)

Next ==
  \/ \E s \in Streams : InitDecoder(s) \/ StreamCloseDecoder(s) \/ Decode(s)
  \/ \E r \in Readers : MaterializeFrame(r) \/ ConvertFrame(r) \/ \E s \in Streams : RefFrame(r, s)

Spec == Init /\ [][Next]_vars

-----------------------------------------------------------------------------
(* Properties.                                                             *)

Frames   == [id : Numbers \cup {0}, pts : 0 .. MaxPackets, hw : BOOLEAN]
Hardware == {"intel", "nvidia", "cpu"}

(* The type invariant: in particular a hardware picture belongs to a       *)
(* decoder and no counter is ever below zero.                              *)
TypeOK ==
  /\ cuda \in [master : Devices \cup {0}, users : Nat]
  /\ devRefs \in [Devices -> Nat]
  /\ stats \in [Numbers -> Nat]
  /\ init \in [Streams -> [at : {"closed", "create", "init", "make", "install", "open", "ready",
                                 "parse", "receive"},
                           tries : Seq(Hardware), made : Devices \cup {0},
                           asked : SUBSET Hardware]]
  /\ decoder \in [Streams -> [id : Numbers \cup {0}, backend : Hardware \cup {"none"},
                              device : Devices \cup {0}, shared : BOOLEAN,
                              pts : 0 .. MaxPackets, inside : Seq(1 .. MaxPackets),
                              newest : 0 .. MaxPackets]]
  /\ kept \in [Streams -> Frames] /\ last \in [Streams -> Frames]
  /\ snapshot \in [Readers -> Frames] /\ copied \in [Readers -> BOOLEAN]
  /\ faults \in 0 .. MaxFaults

(* All decoders on the GPU share one CUDA device context, although several *)
(* may find none and make one at once: its users are exactly those         *)
(* decoders, and it exists as long as there are any                        *)
(* (acquire_shared_cuda_device, release_shared_cuda_device).               *)
Sharing == {s \in Streams : decoder[s].shared}
DeviceShared ==
  /\ cuda.users = Cardinality(Sharing)
  /\ cuda.master # 0 <=> Sharing # {}
  /\ \A s \in Sharing : decoder[s].device = cuda.master

(* No device context is lost and none is freed while referred to: its      *)
(* references are the master's, its decoders' and the one in the hand of   *)
(* the thread that made it, on every way through acquire_shared_cuda_device. *)
DevicesExact ==
  \A d \in Devices :
    devRefs[d] = Cardinality({s \in Streams : decoder[s].device = d})
                 + Cardinality({s \in Streams : init[s].made = d})
                 + (IF cuda.master = d THEN 1 ELSE 0)

(* The statistics of a decoder are freed with the last of it and its       *)
(* hardware pictures, wherever these are: the references are exact, and so *)
(* no more surfaces of the codec's pool are held than the picture shown,   *)
(* the one kept and one per reader (transfer_stats_unref; decoder_init:    *)
(* "否则容易因为引用未释放而把 NVDEC 帧池顶满").                                    *)
Uses(g, n) == Cardinality({x \in DOMAIN g : g[x].hw /\ g[x].id = n})
StatsExact ==
  \A n \in Numbers :
    stats[n] = Cardinality({s \in Streams : decoder[s].id = n})
               + Uses(kept, n) + Uses(last, n) + Uses(snapshot, n)

(* Both counts of references, of devices and of statistics, are exact.     *)
ReferencesExact == TypeOK /\ DevicesExact /\ StatsExact

(* A stream that is not being decoded shows the newest picture its present *)
(* decoder gave out, unless a fault has cost it that picture, and never    *)
(* one of an earlier decoder (decoder_decode keeps the newest only).       *)
NewestShown ==
  \A s \in Streams :
    /\ last[s] # NoFrame => last[s].id = decoder[s].id
    /\ init[s].at = "ready" /\ faults = 0 => last[s].pts = decoder[s].newest

(* "This keeps Intel as the default decode path on this host while still   *)
(* allowing NVIDIA to rescue streams that Intel cannot initialize"         *)
(* (stream_init_decoder): a stream for Intel that ends up on the CPU was   *)
(* tried on NVIDIA before.                                                 *)
NvidiaRescues ==
  \A s \in Streams :
    init[s].at = "ready" /\ "intel" \in init[s].asked /\ decoder[s].backend = "cpu"
      => "nvidia" \in init[s].asked
=============================================================================
