---------------------------- MODULE MCTcpClient ----------------------------
(* The instance of TcpClient for TLC: a client without retries, and one with *)
(* enough of them for a retry to follow a retry.                             *)
EXTENDS TcpClient
============================================================================
