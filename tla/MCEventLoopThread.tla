------------------------- MODULE MCEventLoopThread -------------------------
(* One owner; the unit test's two functors: one that prints, one that      *)
(* calls quit().                                                           *)
EXTENDS EventLoopThread
=============================================================================
