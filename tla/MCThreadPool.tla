---------------------------- MODULE MCThreadPool ----------------------------
(* A pool of two threads and three calls, for TLC. *)
EXTENDS ThreadPool
=============================================================================
