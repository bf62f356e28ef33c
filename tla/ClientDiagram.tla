---------------------------- MODULE ClientDiagram ----------------------------
(***************************************************************************)
(* The diagram at the head of TcpClient.h, edge by edge, with what the     *)
(* connection callback tells user code; and the two ways in which the code *)
(* leaves its sink, ForceDisconnected, which the diagram does not have.    *)
(***************************************************************************)
EXTENDS Naturals

VARIABLES state, view,
          calls, \* the calls of connect so far
          stray  \* may a timer or task of an earlier attempt still be about?

Init == state = "Disconnect" /\ view = "none"

(* The edges of the diagram.  A retry stays in Connecting and is no edge.  *)
connect ==
    /\ state = "Disconnect"
    /\ state' = "Connecting"
    /\ UNCHANGED view

handleWrite ==
    /\ state = "Connecting"
    /\ state' = "Connected"
    /\ view' = "connected"

(* Closing is told first, and once.                                        *)
TellClosed ==
    /\ view = "connected"
    /\ view' = "disconnected"
    /\ UNCHANGED state

handleClose ==
    /\ state = "Connected"
    /\ view = "disconnected"
    /\ state' = "Disconnect"
    /\ UNCHANGED view

disconnect ==
    /\ state \in {"Connecting", "Connected"}
    /\ state' = "ForceDisconnected"
    /\ UNCHANGED view

Edge == connect \/ handleWrite \/ TellClosed \/ handleClose \/ disconnect

DiagramSpec == Init /\ [][Edge]_<<state, view>>
-----------------------------------------------------------------------------
(* The departures: user code calls connect after a disconnect, ...         *)
reconnect ==
    /\ state = "ForceDisconnected"
    /\ calls' > calls
    /\ state' = "Connecting"
    /\ UNCHANGED view

(* ... and a retry timer that the disconnect did not cancel expires.       *)
strayRetry ==
    /\ state = "ForceDisconnected"
    /\ stray
    /\ state' = "Connecting"
    /\ UNCHANGED view

Spec == Init /\ [][Edge \/ reconnect \/ strayRetry]_<<state, view>>
=============================================================================
