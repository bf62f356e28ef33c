----------------------------- MODULE MCTcpServer -----------------------------
(***************************************************************************)
(* A server without a pool, or with a pool of two loops; three clients,    *)
(* and room for one connection.                                            *)
(***************************************************************************)
EXTENDS TcpServer
=============================================================================
