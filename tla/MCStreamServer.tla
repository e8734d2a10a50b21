--------------------------- MODULE MCStreamServer ---------------------------
(* Small instance of StreamServer for TLC. *)
EXTENDS StreamServer, TLC

ConnSymmetry == Permutations(Conns)
=============================================================================
