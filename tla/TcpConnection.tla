---------------------------- MODULE TcpConnection ----------------------------
(***************************************************************************)
(* One tcp::TcpConnection of a TcpServer that has one event loop, with its *)
(* net::Channel, its socket, the peer, and the user code that calls it:    *)
(* from its own callbacks, from other callbacks of the loop, and from      *)
(* another thread.                                                         *)
(*                                                                         *)
(* The loop is what EventLoop.tla shows it to be: it polls, dispatches     *)
(* what was ready, then swaps and runs the pending tasks in order.  The    *)
(* kernel's socket is external: unread data, the FIN of either side, a     *)
(* reset with its pending error.  Sent data is counted in units, each      *)
(* accepted by one send; a write takes any part of what is buffered.       *)
(*                                                                         *)
(* failure names how the process ended, if it did: the failed assertion    *)
(* (assertTrue is fatal in every build), an exception that leaves          *)
(* startLoop, or a task that used the connection after it was freed.       *)
(***************************************************************************)
EXTENDS Integers, Sequences, SequencesExt

CONSTANTS MaxMessages,      \* messages the peer sends, at most
          MaxSends,         \* calls of send, at most
          MaxShutdowns,     \* calls of shutdownConnection, at most
          SendingCallbacks  \* the callbacks whose user code calls send

Callbacks == {"connection", "message", "writeComplete"}

ASSUME BoundsAssumption ==
    /\ MaxMessages \in Nat
    /\ MaxSends \in Nat
    /\ MaxShutdowns \in Nat
    /\ SendingCallbacks \subseteq Callbacks

VARIABLES
    loopPc,         \* poll, handle (handleEvent), write (its second half), swap or run
    revents,        \* the channel's mRevent
    mPendingTasks,  \* the loop's queue, and ...
    pendingTasks,   \* ... the vector swapped out of it, which holds what its
                    \* tasks captured until all of them have run, and ...
    tasksRun,       \* ... how many of them have
    life,           \* of channel and socket: listen (not accepted yet), open, gone
    mState,
    writing,        \* the channel's interest in EPOLLOUT; EPOLLIN is on while open
    mSendBuffer,    \* units accepted and not written
    inSet,          \* mConnectionSet holds a TcpConnectionPtr
    userHolds,      \* so does user code, besides the callbacks' arguments
    inbox,          \* unread messages in the socket
    peerFin,        \* the peer has shut down its side
    ourFin,         \* Socket::shutdown has shut down ours
    reset,          \* the peer has reset the connection
    soError,        \* the reset's error was not reported yet
    userView,       \* history: what the connection callback last said
    delivered,      \* history: the message callbacks so far
    sends,          \* history: calls of send
    shutdowns,      \* history: calls of shutdownConnection
    failure

socketVars == <<inbox, peerFin, ourFin, reset, soError>>
userVars == <<userHolds, userView, delivered, sends, shutdowns>>
connVars == <<life, mState, writing, mSendBuffer, inSet>>
loopVars == <<loopPc, revents, mPendingTasks, pendingTasks, tasksRun>>
vars == <<loopVars, connVars, userVars, socketVars, failure>>

Task == {"destroy", "send", "shutdown"}
Failure == {"none", "handleRead", "handleWrite", "handleClose", "destroyConnection",
            "writeError", "sendFreed", "shutdownFreed"}

TypeOK ==
    /\ loopPc \in {"poll", "handle", "write", "swap", "run"}
    /\ revents \subseteq {"IN", "OUT", "HUP", "ERR"}
    /\ mPendingTasks \in Seq(Task)
    /\ pendingTasks \in Seq(Task)
    /\ tasksRun \in 0 .. Len(pendingTasks)
    /\ life \in {"listen", "open", "gone"}
    /\ mState \in {"DisConnected", "Connected", "HalfClosed"}
    /\ writing \in BOOLEAN
    /\ mSendBuffer \in 0 .. MaxSends
    /\ inSet \in BOOLEAN
    /\ userHolds \in BOOLEAN
    /\ inbox \in 0 .. MaxMessages
    /\ {peerFin, ourFin, reset, soError} \subseteq BOOLEAN
    /\ userView \in {"none", "connected", "disconnected"}
    /\ delivered \in 0 .. MaxMessages
    /\ sends \in 0 .. MaxSends
    /\ shutdowns \in 0 .. MaxShutdowns
    /\ failure \in Failure

Init ==
    /\ loopPc = "poll"
    /\ revents = {}
    /\ mPendingTasks = <<>>
    /\ pendingTasks = <<>>
    /\ tasksRun = 0
    /\ life = "listen"
    /\ mState = "DisConnected"
    /\ writing = FALSE
    /\ mSendBuffer = 0
    /\ inSet = FALSE
    /\ userHolds = FALSE
    /\ inbox = 0
    /\ peerFin = FALSE
    /\ ourFin = FALSE
    /\ reset = FALSE
    /\ soError = FALSE
    /\ userView = "none"
    /\ delivered = 0
    /\ sends = 0
    /\ shutdowns = 0
    /\ failure = "none"
-----------------------------------------------------------------------------
(***************************************************************************)
(* The socket and the peer.                                                *)
(***************************************************************************)
PeerSends ==
    /\ life # "gone" /\ ~peerFin /\ ~reset
    /\ inbox + delivered < MaxMessages
    /\ inbox' = inbox + 1
    /\ UNCHANGED <<loopVars, connVars, userVars, peerFin, ourFin, reset, soError, failure>>

PeerCloses ==
    /\ life # "gone" /\ ~peerFin /\ ~reset
    /\ peerFin' = TRUE
    /\ UNCHANGED <<loopVars, connVars, userVars, inbox, ourFin, reset, soError, failure>>

PeerResets ==
    /\ life = "open" /\ ~reset
    /\ reset' = TRUE
    /\ soError' = TRUE
    /\ UNCHANGED <<loopVars, connVars, userVars, inbox, peerFin, ourFin, failure>>

(* What epoll_wait reports for the channel.  There may be no space to      *)
(* write, and a reset may be seen before it has made the socket readable.  *)
Ready(event, space, early) ==
    CASE event = "IN"  -> inbox > 0 \/ peerFin \/ (reset /\ ~early)
      [] event = "OUT" -> writing /\ (space \/ ourFin \/ reset)
      [] event = "HUP" -> reset \/ (peerFin /\ ourFin)
      [] event = "ERR" -> soError

(* ::write can take data.                                                  *)
Writable == ~reset /\ ~ourFin
-----------------------------------------------------------------------------
(***************************************************************************)
(* The connection.                                                         *)
(***************************************************************************)

(* assertTrue: what follows a failed one no longer matters.                *)
AssertTrue(holds, where) == failure' = IF holds THEN failure ELSE where

(* What user code of the loop's thread does to a connection in state st:   *)
(* n calls of send (sendInLoop), then m of shutdownConnection.             *)
UserCode(st, n, m) ==
    /\ sends' = sends + n
    /\ sends' <= MaxSends
    /\ shutdowns' = shutdowns + m
    /\ shutdowns' <= MaxShutdowns
    /\ mSendBuffer' = IF st = "Connected" THEN mSendBuffer + n ELSE mSendBuffer
    /\ writing' = (writing \/ (st = "Connected" /\ n > 0))
    /\ mPendingTasks' = IF m > 0 THEN Append(mPendingTasks, "shutdown") ELSE mPendingTasks

Sends(callback) == IF callback \in SendingCallbacks THEN {0, 1} ELSE {0}

(* TcpServer accepts the socket, and establishConnect runs, in the         *)
(* dispatch of the listening channel.  User code may keep the pointer.     *)
establishConnect ==
    /\ loopPc = "poll"
    /\ life = "listen"
    /\ life' = "open"
    /\ mState' = "Connected"
    /\ userView' = "connected"
    /\ \E n \in Sends("connection"), m \in {0, 1} : UserCode("Connected", n, m)
    /\ userHolds' \in BOOLEAN
    /\ inSet' = TRUE
    /\ loopPc' = "swap"
    /\ UNCHANGED <<revents, pendingTasks, tasksRun, delivered, socketVars, failure>>

(* Mutant: the close callback is not called.                               *)
HandleCloseWithoutTask ==
    /\ mState' = "DisConnected"
    /\ soError' = FALSE
    /\ userView' = "disconnected"
    /\ userHolds' \in {userHolds, FALSE}
    /\ UNCHANGED <<life, writing, mSendBuffer, inSet, inbox, peerFin, ourFin, reset,
                   delivered, sends, shutdowns, mPendingTasks>>

(* handleClose: the state changes, the close callback queues the           *)
(* destruction, the connection callback tells user code, which may drop    *)
(* its pointer.  getSocketError clears the pending error.                  *)
handleClose ==
    /\ mState' = "DisConnected"
    /\ soError' = FALSE
    /\ mPendingTasks' = Append(mPendingTasks, "destroy")
    /\ userView' = "disconnected"
    /\ userHolds' \in {userHolds, FALSE}
    /\ UNCHANGED <<life, writing, mSendBuffer, inSet, inbox, peerFin, ourFin, reset,
                   delivered, sends, shutdowns>>

(* Mutant: the pending error is not asked for.                             *)
HandleErrorUncleared == UNCHANGED soError

(* Mutant: EPOLLHUP is taken for a hang-up even with data to read.         *)
HangUpWithData(events) == "HUP" \in events

(* Mutant: the message callback is called, but the data stay unread.       *)
HandleReadPeeks ==
    \/ /\ inbox > 0
       /\ delivered' = delivered + inbox
       /\ UNCHANGED <<connVars, mPendingTasks, userHolds, userView, sends, shutdowns, socketVars>>
    \/ /\ inbox = 0
       /\ handleClose

(* A read that finds data, then the message callback; or a read that finds *)
(* none: it returns 0, or the reset's error, which ::read has cleared when *)
(* readFromSocket asks for it, so that both count as the peer's shutdown.  *)
handleRead ==
    \/ /\ inbox > 0
       /\ \E read \in 1 .. inbox :
             /\ inbox' = inbox - read
             /\ delivered' = delivered + read
       /\ \E n \in Sends("message"), m \in {0, 1} : UserCode(mState, n, m)
       /\ UNCHANGED <<life, mState, inSet, userHolds, userView, peerFin, ourFin, reset, soError>>
    \/ /\ inbox = 0
       /\ handleClose

(* The error is reported and thereby cleared; the read that follows in the *)
(* next round closes the connection.                                       *)
handleError == soError' = FALSE

(* Channel::handleEvent takes this set of events for a hang-up.            *)
HangUp(events) == "HUP" \in events /\ "IN" \notin events

(* Channel::handleEvent up to its read callback.                           *)
HandleEvent ==
    /\ loopPc = "handle"
    /\ \/ /\ HangUp(revents)
          /\ AssertTrue(mState # "DisConnected", "handleClose")
          /\ handleClose
          /\ loopPc' = "swap"
       \/ /\ ~HangUp(revents) /\ "ERR" \in revents
          /\ handleError
          /\ loopPc' = "swap"
          /\ UNCHANGED <<connVars, userVars, inbox, peerFin, ourFin, reset, mPendingTasks, failure>>
       \/ /\ ~HangUp(revents) /\ "ERR" \notin revents /\ "IN" \in revents
          /\ AssertTrue(mState # "DisConnected", "handleRead")
          /\ handleRead
          /\ loopPc' = "write"
       \/ /\ revents \subseteq {"OUT"}
          /\ loopPc' = "write"
          /\ UNCHANGED <<connVars, userVars, socketVars, mPendingTasks, failure>>
    /\ UNCHANGED <<revents, pendingTasks, tasksRun>>

(* Mutant: disableWrite is called whatever is left.                        *)
HandleWriteOnce ==
    /\ \E rest \in 0 .. mSendBuffer : mSendBuffer' = rest
    /\ writing' = FALSE
    /\ UNCHANGED <<life, mState, inSet, userVars, mPendingTasks, failure>>

(* One ::write, which throws when the socket takes no data; when nothing   *)
(* is left, the write-complete callback and then disableWrite.             *)
handleWrite ==
    \/ /\ mSendBuffer > 0 /\ ~Writable
       /\ failure' = "writeError"
       /\ UNCHANGED <<connVars, userVars, mPendingTasks>>
    \/ /\ mSendBuffer > 1 /\ Writable
       /\ \E rest \in 1 .. mSendBuffer - 1 : mSendBuffer' = rest
       /\ UNCHANGED <<life, mState, writing, inSet, userVars, mPendingTasks, failure>>
    \/ /\ mSendBuffer > 0 => Writable
       /\ \E n \in Sends("writeComplete") :
             /\ sends' = sends + n
             /\ sends' <= MaxSends
             /\ mSendBuffer' = n
       /\ writing' = FALSE
       /\ UNCHANGED <<life, mState, inSet, userHolds, userView, delivered, shutdowns,
                      mPendingTasks, failure>>

(* Channel::handleEvent from its test of EPOLLOUT on.                      *)
HandleEventOut ==
    /\ loopPc = "write"
    /\ loopPc' = "swap"
    /\ \/ /\ "OUT" \notin revents
          /\ UNCHANGED <<connVars, userVars, mPendingTasks, failure>>
       \/ /\ "OUT" \in revents
          /\ mState # "Connected"
          /\ failure' = "handleWrite"
          /\ UNCHANGED <<connVars, userVars, mPendingTasks>>
       \/ /\ "OUT" \in revents
          /\ mState = "Connected"
          /\ handleWrite
    /\ UNCHANGED <<revents, pendingTasks, tasksRun, socketVars>>

(* destroyConnection and the erase behind it, in the task the close        *)
(* callback queued.                                                        *)
destroyConnection ==
    /\ AssertTrue(mState = "DisConnected", "destroyConnection")
    /\ life' = "gone"
    /\ writing' = FALSE
    /\ inSet' = FALSE
    /\ UNCHANGED <<mState, mSendBuffer, userVars, socketVars>>

(* Nothing holds a TcpConnectionPtr any more.                              *)
Freed ==
    /\ life # "listen"
    /\ ~inSet /\ ~userHolds
    /\ ~Contains(mPendingTasks \o pendingTasks, "destroy")

(* sendInLoop in the task another thread queued.  It holds a raw `this`.   *)
SendTask ==
    /\ AssertTrue(~Freed, "sendFreed")
    /\ mSendBuffer' = IF mState = "Connected" THEN mSendBuffer + 1 ELSE mSendBuffer
    /\ writing' = (writing \/ mState = "Connected")
    /\ UNCHANGED <<life, mState, inSet, userVars, socketVars>>

(* Mutant: the early return of a closed connection is missing.             *)
ShutdownWhenClosed ==
    /\ AssertTrue(~Freed, "shutdownFreed")
    /\ mState' = "HalfClosed"
    /\ writing' = FALSE
    /\ ourFin' = TRUE
    /\ UNCHANGED <<life, inSet, mSendBuffer, userVars, inbox, peerFin, reset, soError>>

(* shutdownConnection's task, again with a raw `this`.  It writes once     *)
(* and, unless that threw, shuts down our side and forgets the rest.       *)
ShutdownTask ==
    /\ AssertTrue(~Freed, "shutdownFreed")
    /\ \/ /\ mState = "DisConnected" \/ mSendBuffer > 0     \* closed, or ::write failed
          /\ UNCHANGED <<connVars, ourFin>>
       \/ /\ mState # "DisConnected"
          /\ IF mSendBuffer > 0
             THEN Writable /\ \E rest \in 0 .. mSendBuffer - 1 : mSendBuffer' = rest
             ELSE UNCHANGED mSendBuffer
          /\ mState' = "HalfClosed"
          /\ writing' = FALSE
          /\ ourFin' = TRUE
          /\ UNCHANGED <<life, inSet>>
    /\ UNCHANGED <<userVars, inbox, peerFin, reset, soError>>
-----------------------------------------------------------------------------
(***************************************************************************)
(* The loop.                                                               *)
(***************************************************************************)
Poll ==
    /\ loopPc = "poll"
    /\ \E space, early \in BOOLEAN :
          revents' = IF life = "open"
                     THEN {event \in {"IN", "OUT", "HUP", "ERR"} : Ready(event, space, early)}
                     ELSE {}
    /\ loopPc' = "handle"
    /\ UNCHANGED <<mPendingTasks, pendingTasks, tasksRun, connVars, userVars, socketVars, failure>>

SwapPendingTasks ==
    /\ loopPc = "swap"
    /\ pendingTasks' = mPendingTasks
    /\ mPendingTasks' = <<>>
    /\ tasksRun' = 0
    /\ loopPc' = "run"
    /\ UNCHANGED <<revents, connVars, userVars, socketVars, failure>>

RunTask ==
    /\ loopPc = "run"
    /\ tasksRun < Len(pendingTasks)
    /\ tasksRun' = tasksRun + 1
    /\ CASE pendingTasks[tasksRun'] = "destroy"  -> destroyConnection
         [] pendingTasks[tasksRun'] = "send"     -> SendTask
         [] pendingTasks[tasksRun'] = "shutdown" -> ShutdownTask
    /\ UNCHANGED <<loopPc, revents, mPendingTasks, pendingTasks>>

EndPendingTasks ==
    /\ loopPc = "run"
    /\ tasksRun = Len(pendingTasks)
    /\ pendingTasks' = <<>>
    /\ tasksRun' = 0
    /\ loopPc' = "poll"
    /\ UNCHANGED <<revents, mPendingTasks, connVars, userVars, socketVars, failure>>
-----------------------------------------------------------------------------
(***************************************************************************)
(* User code outside the connection's callbacks.                           *)
(***************************************************************************)

(* Another callback of the loop (a timer, another connection's message)    *)
(* uses the connection, in the dispatch before or after its own event.     *)
OtherCallback ==
    /\ userHolds
    /\ loopPc \in {"handle", "swap"}
    /\ \E n \in {0, 1}, m \in {0, 1} : UserCode(mState, n, m)
    /\ UNCHANGED <<loopPc, revents, pendingTasks, tasksRun, life, mState, inSet, userHolds, userView,
                   delivered, socketVars, failure>>

(* send from a thread that has no loop.                                    *)
SendFromThread ==
    /\ userHolds
    /\ sends < MaxSends
    /\ sends' = sends + 1
    /\ mPendingTasks' = Append(mPendingTasks, "send")
    /\ UNCHANGED <<loopPc, revents, pendingTasks, tasksRun, connVars, userHolds, userView, delivered,
                   shutdowns, socketVars, failure>>

DropPointer ==
    /\ userHolds
    /\ userHolds' = FALSE
    /\ UNCHANGED <<loopVars, connVars, userView, delivered, sends, shutdowns, socketVars, failure>>
-----------------------------------------------------------------------------
Loop ==
    \/ Poll \/ HandleEvent \/ HandleEventOut
    \/ SwapPendingTasks \/ RunTask \/ EndPendingTasks

Peer == PeerSends \/ PeerCloses \/ PeerResets

User == OtherCallback \/ SendFromThread \/ DropPointer

Next == failure = "none" /\ (establishConnect \/ Loop \/ Peer \/ User)

(* The loop's thread is scheduled, and its poll ends at the latest when it *)
(* times out.  The peer and user code owe nothing.                         *)
Spec == Init /\ [][Next]_vars /\ WF_vars(failure = "none" /\ Loop)
-----------------------------------------------------------------------------
(***************************************************************************)
(* Properties.                                                             *)
(***************************************************************************)

(* The assertions of handleRead, handleClose and destroyConnection         *)
(* (TcpConnection.cpp:80,133,294) never fail: the destruction that         *)
(* handleClose queues runs before the next poll can report the channel.    *)
AssertionsHold == failure \notin {"handleRead", "handleClose", "destroyConnection"}

(* What sendInLoop accepted is waiting for EPOLLOUT, however sends, partial*)
(* writes, shutdowns that fail and write completions interleave, if user   *)
(* code does not send in its write-complete callback.                      *)
NoLostWriteInterest ==
    mState = "Connected" /\ mSendBuffer > 0 /\ "writeComplete" \notin SendingCallbacks
        => writing

(* When user code is told of the disconnection, it has been given all that *)
(* the peer sent before its FIN: Channel::handleEvent prefers EPOLLIN to   *)
(* EPOLLHUP (Channel.cpp:76), and a read of 0 comes last.                  *)
AllDataDelivered == userView = "disconnected" /\ ~reset => inbox = 0

(* The state machine of TcpConnection.h:50-54, whatever the order of       *)
(* closes, queued shutdowns and destruction.                               *)
StateMachine ==
    [][mState' # mState =>
          <<mState, mState'>> \in {<<"DisConnected", "Connected">>,
                                   <<"Connected", "HalfClosed">>,
                                   <<"Connected", "DisConnected">>,
                                   <<"HalfClosed", "DisConnected">>}]_vars

(* A connection whose peer has closed or reset it is destroyed, unless the *)
(* process fails: "the socket change to be readable latter and 0 bytes     *)
(* would be read" (TcpConnection.cpp:147).                                 *)
CloseCompletes ==
    (life = "open" /\ (peerFin \/ reset)) ~> (life = "gone" \/ failure # "none")

(* TcpConnection.cpp:127 "If handleClose has been invoked, handleRead and  *)
(* handleWrite would not be invoked later": handleWrite's assertion holds. *)
NoWriteAfterClose == failure # "handleWrite"

(* TcpConnection.h:81 "Thread-safety": a send from another thread, by code *)
(* that held the connection when it called, does not touch a freed one.    *)
SendIsThreadSafe == failure # "sendFreed"
=============================================================================
