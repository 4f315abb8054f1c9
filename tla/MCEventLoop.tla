---------------------------- MODULE MCEventLoop ----------------------------
(* EventLoop with two foreign threads and three functors: enough for a     *)
(* functor queued before, during and after a batch, by different threads.  *)
EXTENDS EventLoop
=============================================================================
