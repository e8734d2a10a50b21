------------------------------ MODULE MCWorker -------------------------------
(* Worker with the bounds of its configuration: no symmetry, the numbers of *)
(* connections are in order.                                                *)
EXTENDS Worker
=============================================================================
