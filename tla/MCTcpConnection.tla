--------------------------- MODULE MCTcpConnection ---------------------------
(***************************************************************************)
(* TcpConnection for TLC.  Two of each call and message let one be in      *)
(* flight while another is handled.                                        *)
(***************************************************************************)
EXTENDS TcpConnection
=============================================================================
