----------------------------- MODULE MCH264Tap ------------------------------
(* H264Tap for TLC: access units as the worker sends them - an IDR comes   *)
(* in one packet with its SPS and PPS - and a PPS on its own.              *)
EXTENDS H264Tap, TLC

Idr   == [first |-> "sps", idr |-> TRUE, size |-> 2]
Slice == [first |-> "slice", idr |-> FALSE, size |-> 2]
Pps   == [first |-> "pps", idr |-> FALSE, size |-> 1]

WorkerUnits == {Idr, Slice}
AllUnits    == {Idr, Slice, Pps}

SubscriberSymmetry == Permutations(Subscribers)
=============================================================================
