------------------------ MODULE MCCompressedRecorder ------------------------
(* Small instance of CompressedRecorder for TLC. *)
EXTENDS CompressedRecorder

MCBackoff == <<1, 2, 3>>

(* A key frame with all parameter sets, one without, and a delta frame that *)
(* is twice as long. *)
MCPayloads ==
  { [params |-> 0 .. 2, key |-> TRUE,  len |-> 1],
    [params |-> {},     key |-> TRUE,  len |-> 1],
    [params |-> {},     key |-> FALSE, len |-> 2] }
=============================================================================
