----------------------------- MODULE MCTcpBuffer -----------------------------
(***************************************************************************)
(* TcpBuffer for TLC.  A vector of a few bytes and a stream several times  *)
(* its length reach every case of growth and of the move to the front.     *)
(***************************************************************************)
EXTENDS TcpBuffer
=============================================================================
