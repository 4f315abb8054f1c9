---------------------------- MODULE MCTcpClient ----------------------------
(* TcpClient with three connection identities (one open, one closed and    *)
(* not yet destructed, one forgotten by the client) and a delay that       *)
(* reaches its limit after two retries.                                    *)
EXTENDS TcpClient
=============================================================================
