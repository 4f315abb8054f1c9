---------------------------- MODULE MCThreadPool ----------------------------
(* ThreadPool with two workers, two producers and two slots in the queue:   *)
(* enough for woken and newly arriving threads to compete on both sides,   *)
(* and for both workers to block in a run() of their own.                  *)
EXTENDS ThreadPool
=============================================================================
