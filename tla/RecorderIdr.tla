---------------------------- MODULE RecorderIdr ----------------------------
(***************************************************************************)
(* When the compressed recorder asks the upstream worker for an IDR frame  *)
(* (compressed_recorder.c, recorder_request_idr and the periodic-IDR       *)
(* helpers).  These are pure functions of one stream's three IDR fields    *)
(*                                                                         *)
(*    last   last_idr_request_ns   (0: never asked)                        *)
(*    count  idr_request_count     (asks since the segment was opened)     *)
(*    next   next_periodic_idr_ns  (0: not scheduled)                      *)
(*                                                                         *)
(* Time is counted in ticks; the intervals are constants.                  *)
(***************************************************************************)
EXTENDS Integers

CONSTANTS
  IdrInterval,  (* recorder_idr_interval_ns; 0 switches periodic IDR off.    *)
  MinIdrGap,    (* PERIODIC_IDR_MIN_GAP_NS.                                  *)
  Backoff,      (* Backoff[k]: the pause before retry k, k in 1..3.          *)
  MaxStreams    (* r->max_streams, over which the periodic IDRs are spread.  *)

ASSUME IdrAssumption ==
  /\ IdrInterval \in Nat
  /\ MinIdrGap \in Nat
  /\ MaxStreams \in Nat \ {0}
  /\ Backoff \in [1 .. 3 -> Nat]
  /\ \A k \in 1 .. 3 : MinIdrGap <= Backoff[k]  (* 2 s; 2, 5 and 10 s. *)

Idrs == [last : Nat, count : Nat, next : Nat]

NoIdr == [last |-> 0, count |-> 0, next |-> 0]

(* The pause an unforced request must keep after the previous request.     *)
(* Faulty: the first retry keeps none.                                     *)
PauseFromSecond(count) ==
  CASE count \in 0 .. 1 -> 0
    [] count = 2 -> Backoff[2]
    [] OTHER -> Backoff[3]

Pause(count) ==
  CASE count = 0 -> 0
    [] count \in 1 .. 2 -> Backoff[count]
    [] OTHER -> Backoff[3]

Asked(idr, now) == [idr EXCEPT !.last = now, !.count = @ + 1]

(* recorder_request_idr(force = true) *)
ForceIdr(idr, now) == Asked(idr, now)

(* now - since >= span on uint64_t: an instant before "since" wraps to a   *)
(* huge difference, so it counts as elapsed.                               *)
Elapsed(now, since, span) == now < since \/ now - since >= span

(* recorder_request_idr(force = false) *)
RequestIdr(idr, now) ==
  IF idr.last # 0 /\ ~Elapsed(now, idr.last, Pause(idr.count)) THEN idr ELSE Asked(idr, now)

IdrRecent(idr, now) == idr.last # 0 /\ ~Elapsed(now, idr.last, MinIdrGap)

(* The phase of a stream's periodic IDR inside the interval. *)
PeriodicOffset(sid) == ((sid - 1) * IdrInterval) \div MaxStreams

(* recorder_next_periodic_idr_ns: the first instant of the stream's phase  *)
(* that is at least MinIdrGap away.                                        *)
NextPeriodic(sid, now) ==
  IF IdrInterval = 0 THEN 0
  ELSE CHOOSE t \in now + MinIdrGap .. now + MinIdrGap + IdrInterval - 1 :
         t % IdrInterval = PeriodicOffset(sid)

(* The do/while at the end of recorder_maybe_request_periodic_idr. *)
AdvancePast(next, now) == next + IdrInterval * ((now - next) \div IdrInterval + 1)

(* recorder_maybe_request_periodic_idr on a stream whose file is open and  *)
(* that waits neither for a key frame nor for a rollover.                  *)
PeriodicIdr(idr, sid, now) ==
  LET due == IF idr.next = 0 THEN NextPeriodic(sid, now) ELSE idr.next
  IN  IF IdrInterval = 0 THEN idr
      ELSE IF now < due THEN [idr EXCEPT !.next = due]
      ELSE IF IdrRecent(idr, now) THEN [idr EXCEPT !.next = NextPeriodic(sid, now)]
      ELSE [ForceIdr(idr, now) EXCEPT !.next = AdvancePast(due, now)]
=============================================================================
