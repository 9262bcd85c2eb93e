--------------------------- MODULE MCWorkerStream ---------------------------
(* Small instances of WorkerStream. *)
EXTENDS WorkerStream

AllMessages == Message
=============================================================================
