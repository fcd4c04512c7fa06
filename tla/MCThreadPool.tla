---------------------------- MODULE MCThreadPool ----------------------------
(* Model-checking instance of ThreadPool: see ThreadPool.cfg. *)
EXTENDS ThreadPool
=============================================================================
