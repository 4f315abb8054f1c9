---------------------------- MODULE MCTcpServer ----------------------------
(* TcpServer with two io loops and two connections at a time, which is all *)
(* the descriptors allow: closing, accepting, turning away and the end of  *)
(* the server overlap.                                                     *)
EXTENDS TcpServer
=============================================================================
