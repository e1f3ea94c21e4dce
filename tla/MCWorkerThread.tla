--------------------------- MODULE MCWorkerThread ---------------------------
(***************************************************************************)
(* WorkerThread for TLC: two concurrent pushTask calls are enough for the  *)
(* worker, a call and its rival to contend for the queue, and an error     *)
(* bound of 1 instead of 100 reaches the exit after repeated exceptions.   *)
(***************************************************************************)
EXTENDS WorkerThread
=============================================================================
