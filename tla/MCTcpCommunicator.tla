------------------------- MODULE MCTcpCommunicator -------------------------
(* TcpCommunicator with a few sends and a few lines from the peer.          *)
EXTENDS TcpCommunicator
=============================================================================
