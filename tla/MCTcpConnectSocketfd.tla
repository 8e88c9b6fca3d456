----------------------- MODULE MCTcpConnectSocketfd -----------------------
(* Instances of TcpConnectSocketfd for TLC. *)
EXTENDS TcpConnectSocketfd
===========================================================================
