-------------------------- MODULE MCTcpConnection --------------------------
(* One foreign sender beside the loop thread and two messages of two units *)
(* each, so that a message can be written in part; the high-water mark of  *)
(* three is reached only by the second one.                                *)
EXTENDS TcpConnection
=============================================================================
