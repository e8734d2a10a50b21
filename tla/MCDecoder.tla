----------------------------- MODULE MCDecoder ------------------------------
(* Decoder for TLC: streams are interchangeable. *)
EXTENDS Decoder, TLC

StreamSymmetry == Permutations(Streams)
=============================================================================
