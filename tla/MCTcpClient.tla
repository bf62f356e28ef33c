----------------------------- MODULE MCTcpClient -----------------------------
(***************************************************************************)
(* One client that may be told three times to connect and twice to         *)
(* disconnect, and gives up after two doublings of its delay.              *)
(***************************************************************************)
EXTENDS TcpClient
=============================================================================
