----------------------------- MODULE MCLogServer -----------------------------
(***************************************************************************)
(* LogServer for TLC.  One line per buffer makes every second write hand   *)
(* one over; enough lines fill MAX_PENDING_BUFFERS while a flush is under  *)
(* way, so that lines are discarded and buffers recycled.                  *)
(***************************************************************************)
EXTENDS LogServer
=============================================================================
