------------------------------ MODULE TcpClient ------------------------------
(***************************************************************************)
(* A tcp::TcpClient: its state machine, the socket it connects, the        *)
(* connection it makes of it, its retry timers (net::TimerQueue) and the   *)
(* event loop that runs all of them; the peer, the kernel's sockets and    *)
(* the user code that calls connect and disconnect.                        *)
(*                                                                         *)
(* The kernel reports SO_ERROR 0, not EINPROGRESS, for a socket whose      *)
(* connect is under way.  So doConnecting never takes the branch that      *)
(* makes mConnChannel, and announces Connected whether the socket is       *)
(* connected or not.                                                       *)
(*                                                                         *)
(* A socket is "connecting", "established", "closed" by the peer,          *)
(* "failed" (with the error pending) or "dead" (the error was reported).   *)
(* Data are left out (TcpConnection.tla has them); user code keeps no      *)
(* TcpConnectionPtr.                                                       *)
(***************************************************************************)
EXTENDS Integers, Sequences, SequencesExt

CONSTANTS MaxRetries,    \* doublings of the delay before retry gives up
          MaxConnects,   \* calls of connect, at most
          MaxDisconnects \* calls of disconnect, at most

ASSUME ClientAssumption ==
    /\ MaxRetries \in Nat \ {0}
    /\ MaxConnects \in Nat
    /\ MaxDisconnects \in Nat

VARIABLES
    loopPc,         \* poll, dispatch or run
    revents,        \* what poll reported for the connection: none, err, or in (it
                    \* can be read, or hung up: both end in handleClose)
    expired,        \* timers poll reported that were not handled yet
    mPendingTasks, pendingTasks,    \* queued tasks; swapped ones left to run
    armed,          \* retry timers with a channel that have not fired
    fired,          \* and those in mTimerMap that have
    mState,
    mConnSocket,    \* the socket being connected
    connState,      \* mConnection's state, or "null"
    connSocket,     \* mConnection's socket
    retries,        \* doublings of mConnRetryDelay
    view,           \* history: what the connection callback last said
    connects, disconnects,          \* history: the calls so far
    overlapped,     \* history: connect was called, or a disconnect took effect,
                    \* with an attempt to connect under way
    failure         \* how the process ended

loopVars == <<loopPc, revents, expired, pendingTasks>>
timerVars == <<armed, fired>>
connVars == <<connState, connSocket, view>>
callVars == <<connects, disconnects, overlapped>>
vars == <<loopVars, mPendingTasks, timerVars, mState, mConnSocket, connVars, retries,
          callVars, failure>>

SocketState == {"connecting", "established", "closed", "failed", "dead"}
Task == {"connected", "disconnect", "force", "shutdownConnection", "shutdown",
         "shutdownFreed", "addTimer", "removeTimer"}
Failure == {"none", "gaveUp", "badSocket", "socketError", "handleRead",
            "destroyConnection", "nullConnection", "shutdownFreed"}

TypeOK ==
    /\ loopPc \in {"poll", "dispatch", "run"}
    /\ revents \in {"none", "in", "err"}
    /\ expired \in 0 .. armed
    /\ mPendingTasks \in Seq(Task)
    /\ pendingTasks \in Seq(Task)
    /\ armed \in Nat /\ fired \in Nat
    /\ mState \in {"Disconnect", "Connecting", "Connected", "ForceDisconnected"}
    /\ mConnSocket \in SocketState \cup {"null"}
    /\ connState \in {"null", "DisConnected", "Connected", "HalfClosed"}
    /\ connSocket \in SocketState \cup {"null"}
    /\ retries \in 0 .. MaxRetries
    /\ view \in {"none", "connected", "disconnected"}
    /\ connects \in 0 .. MaxConnects
    /\ disconnects \in 0 .. MaxDisconnects
    /\ overlapped \in BOOLEAN
    /\ failure \in Failure

Init ==
    /\ loopPc = "dispatch" /\ revents = "none" /\ expired = 0
    /\ mPendingTasks = <<>> /\ pendingTasks = <<>>
    /\ armed = 0 /\ fired = 0
    /\ mState = "Disconnect"
    /\ mConnSocket = "null"
    /\ connState = "null" /\ connSocket = "null"
    /\ retries = 0
    /\ view = "none"
    /\ connects = 0 /\ disconnects = 0 /\ overlapped = FALSE
    /\ failure = "none"
-----------------------------------------------------------------------------
(***************************************************************************)
(* Kernel and peer.                                                        *)
(***************************************************************************)
Progress(from, to) ==
    \/ from = "connecting" /\ to \in {"established", "failed"}
    \/ from = "established" /\ to \in {"closed", "failed"}
    \/ from = "closed" /\ to = "failed"

SocketChanges ==
    /\ \/ /\ \E to \in SocketState : Progress(mConnSocket, to) /\ mConnSocket' = to
          /\ UNCHANGED connSocket
       \/ /\ \E to \in SocketState : Progress(connSocket, to) /\ connSocket' = to
          /\ UNCHANGED mConnSocket
    /\ UNCHANGED <<loopVars, mPendingTasks, timerVars, mState, connState, view, retries,
                   callVars, failure>>

(* ::shutdown of a socket that still connects aborts the connect.          *)
ShutDown(socket) == IF socket = "connecting" THEN "failed" ELSE socket
-----------------------------------------------------------------------------
(***************************************************************************)
(* The state machine.                                                      *)
(***************************************************************************)

(* Mutant: a client that was disconnected is treated as any other.         *)
AllowedIfOther(newState) == mState # newState \/ newState = "Connecting"

(* What transStateInLoop lets pass.                                        *)
Allowed(newState) ==
    CASE newState = "Disconnect"        -> mState = "Connected"
      [] newState = "Connecting"        -> mState # "Connected"
      [] newState = "Connected"         -> mState = "Connecting"
      [] newState = "ForceDisconnected" -> mState \in {"Connecting", "Connected"}

(* queueInLoop of some tasks.                                              *)
Queue(tasks) == mPendingTasks' = mPendingTasks \o tasks

(* Mutant: the delay has no limit.                                         *)
RetryForever(later) ==
    /\ retries' = retries + 1
    /\ Queue(<<"addTimer">> \o later)
    /\ UNCHANGED failure

(* Mutant: runAfter is forgotten when the delay is doubled.                *)
RetryUntimed(later) ==
    /\ retries < MaxRetries
    /\ retries' = retries + 1
    /\ Queue(later)
    /\ UNCHANGED failure

(* A timer is armed, and its channel made by a task; the exception thrown  *)
(* when the delay has reached its limit leaves startLoop.  The tasks in    *)
(* later are those the caller queues afterwards.                           *)
retry(later) ==
    \/ /\ retries < MaxRetries
       /\ retries' = retries + 1
       /\ Queue(<<"addTimer">> \o later)
       /\ UNCHANGED failure
    \/ /\ retries = MaxRetries
       /\ failure' = "gaveUp"
       /\ UNCHANGED <<retries, mPendingTasks>>

(* createTcpClientSocket returns nothing, or a socket in any state of its  *)
(* connect; getSocketError reports and clears the error of a failed one.   *)
doConnecting(later) ==
    \/ /\ mConnSocket' \in {"connecting", "established"}
       /\ Queue(<<"connected">> \o later)
       /\ UNCHANGED <<retries, failure>>
    \/ /\ mConnSocket' \in {"null", "dead"}
       /\ retry(later)

(* transStateInLoop(Connecting); a transition that is refused is logged.    *)
TransConnecting(later) ==
    \/ /\ Allowed("Connecting")
       /\ mState' = "Connecting"
       /\ doConnecting(later)
    \/ /\ ~Allowed("Connecting")
       /\ Queue(later)
       /\ UNCHANGED <<mState, mConnSocket, retries, failure>>

(* The tasks once mConnection is released: shutdownConnection's holds a    *)
(* raw `this`.                                                             *)
Dangling(tasks) ==
    [i \in DOMAIN tasks |-> IF tasks[i] = "shutdown" THEN "shutdownFreed" ELSE tasks[i]]

Fails(where) ==
    /\ failure' = where
    /\ UNCHANGED <<mPendingTasks, pendingTasks, mState, mConnSocket, connVars, retries>>

(* doConnected: the assertions on the socket, then the new connection      *)
(* replaces the old one, and establishConnect announces it.                *)
doConnected ==
    \/ mConnSocket = "null" /\ Fails("badSocket")
    \/ mConnSocket = "failed" /\ Fails("socketError")
    \/ /\ mConnSocket \notin {"null", "failed"}
       /\ mState' = "Connected"
       /\ connSocket' = mConnSocket
       /\ mConnSocket' = "null"
       /\ connState' = "Connected"
       /\ view' = "connected"
       /\ retries' = 0
       /\ mPendingTasks' = Dangling(mPendingTasks)
       /\ pendingTasks' = Dangling(Tail(pendingTasks))
       /\ UNCHANGED failure

(* doDisconnected: destroyConnection, with its assertion, and a retry      *)
(* after the initial delay.                                                *)
doDisconnected ==
    \/ connState # "DisConnected" /\ Fails("destroyConnection")
    \/ /\ connState = "DisConnected"
       /\ mState' = "Disconnect"
       /\ connState' = "null"
       /\ connSocket' = "null"
       /\ retries' = 1
       /\ mPendingTasks' = Append(Dangling(mPendingTasks), "addTimer")
       /\ pendingTasks' = Dangling(Tail(pendingTasks))
       /\ UNCHANGED <<mConnSocket, view, failure>>

doForceDisconnected ==
    /\ mState' = "ForceDisconnected"
    /\ Queue(<<"shutdownConnection">>)
    /\ pendingTasks' = Tail(pendingTasks)
    /\ UNCHANGED <<mConnSocket, connVars, retries, failure>>

(* transStateInLoop in a task.                                             *)
TransState(newState) ==
    /\ \/ /\ Allowed(newState)
          /\ CASE newState = "Connected"         -> doConnected
               [] newState = "Disconnect"        -> doDisconnected
               [] newState = "ForceDisconnected" -> doForceDisconnected
       \/ /\ ~Allowed(newState)
          /\ pendingTasks' = Tail(pendingTasks)
          /\ UNCHANGED <<mPendingTasks, mState, mConnSocket, connVars, retries, failure>>
    /\ UNCHANGED timerVars
-----------------------------------------------------------------------------
(***************************************************************************)
(* User code, in some callback of the loop.                                *)
(***************************************************************************)
Queued(task) == Contains(mPendingTasks \o pendingTasks, task)

(* An attempt to connect is under way: its timer or its task.              *)
Attempting == armed > 0 \/ Queued("addTimer") \/ Queued("connected")

connect ==
    /\ loopPc \in {"dispatch", "run"}
    /\ connects < MaxConnects
    /\ connects' = connects + 1
    /\ overlapped' = (overlapped \/ Attempting)
    /\ TransConnecting(<<>>)
    /\ UNCHANGED <<loopVars, timerVars, connVars, disconnects>>

disconnect ==
    /\ loopPc \in {"dispatch", "run"}
    /\ disconnects < MaxDisconnects
    /\ disconnects' = disconnects + 1
    /\ Queue(IF connState = "null" THEN <<>> ELSE <<"force">>)
    /\ UNCHANGED <<loopVars, timerVars, mState, mConnSocket, connVars, retries, connects,
                   overlapped, failure>>
-----------------------------------------------------------------------------
(***************************************************************************)
(* The loop: poll, dispatch (the timers first, they have high priority),   *)
(* then the tasks queued by then.                                          *)
(***************************************************************************)
Poll ==
    /\ loopPc = "poll"
    /\ loopPc' = "dispatch"
    /\ expired' \in 0 .. armed
    /\ revents' \in CASE connSocket = "failed"             -> {"err", "in"}
                      [] connSocket \in {"closed", "dead"} -> {"in"}
                      [] OTHER                             -> {"none"}
    /\ UNCHANGED <<mPendingTasks, pendingTasks, timerVars, mState, mConnSocket, connVars,
                   retries, callVars, failure>>

(* The read callback of a one-shot timer: its task, then removeTimer.      *)
HandleTimer ==
    /\ loopPc = "dispatch"
    /\ expired > 0
    /\ expired' = expired - 1
    /\ armed' = armed - 1
    /\ fired' = fired + 1
    /\ TransConnecting(<<"removeTimer">>)
    /\ UNCHANGED <<loopPc, revents, pendingTasks, connVars, callVars>>

(* Mutant: the pending error is not asked for.                             *)
HandleErrorUncleared == UNCHANGED connSocket

(* TcpConnection::handleError asks for the error and thereby clears it.    *)
handleError == connSocket' = IF connSocket = "failed" THEN "dead" ELSE connSocket

(* Mutant: the connection has no close callback.                           *)
CloseCallbackMissing == <<>>

(* What the close callback doConnected set queues.                         *)
CloseCallback == <<"disconnect">>

(* TcpConnection::handleRead of a connection that is closed, which ends in *)
(* handleClose.                                                            *)
handleRead ==
    \/ /\ connState = "DisConnected"
       /\ failure' = "handleRead"
       /\ UNCHANGED <<mPendingTasks, connVars>>
    \/ /\ connState # "DisConnected"
       /\ connState' = "DisConnected"
       /\ connSocket' = IF connSocket = "failed" THEN "dead" ELSE connSocket
       /\ Queue(CloseCallback)
       /\ view' = "disconnected"
       /\ UNCHANGED failure

HandleEvent ==
    /\ loopPc = "dispatch" /\ expired = 0
    /\ revents' = "none"
    /\ \/ /\ revents = "err"
          /\ handleError
          /\ UNCHANGED <<mPendingTasks, connState, view, failure>>
       \/ /\ revents = "in"
          /\ handleRead
    /\ UNCHANGED <<loopPc, expired, pendingTasks, timerVars, mState, mConnSocket, retries, callVars>>

SwapPendingTasks ==
    /\ loopPc = "dispatch" /\ expired = 0 /\ revents = "none"
    /\ loopPc' = "run"
    /\ pendingTasks' = mPendingTasks
    /\ mPendingTasks' = <<>>
    /\ UNCHANGED <<revents, expired, timerVars, mState, mConnSocket, connVars, retries,
                   callVars, failure>>

EndPendingTasks ==
    /\ loopPc = "run" /\ pendingTasks = <<>>
    /\ loopPc' = "poll"
    /\ UNCHANGED <<revents, expired, mPendingTasks, pendingTasks, timerVars, mState, mConnSocket,
                   connVars, retries, callVars, failure>>

(* The task of doForceDisconnected looks mConnection up when it runs.      *)
ShutdownConnection ==
    /\ IF connState = "null"
       THEN failure' = "nullConnection" /\ UNCHANGED mPendingTasks
       ELSE Queue(<<"shutdown">>) /\ UNCHANGED failure
    /\ UNCHANGED <<timerVars, connVars>>

(* The task of TcpConnection::shutdownConnection.                          *)
Shutdown ==
    /\ \/ /\ connState = "DisConnected"
          /\ UNCHANGED <<connState, connSocket>>
       \/ /\ connState # "DisConnected"
          /\ connState' = "HalfClosed"
          /\ connSocket' = ShutDown(connSocket)
    /\ UNCHANGED <<mPendingTasks, timerVars, view, failure>>

(* The tasks of addOneshotTimer and removeTimer.                           *)
UpdateTimers(first) ==
    /\ armed' = IF first = "addTimer" THEN armed + 1 ELSE armed
    /\ fired' = IF first = "removeTimer" THEN fired - 1 ELSE fired
    /\ UNCHANGED <<mPendingTasks, connVars, failure>>

(* The other tasks.                                                        *)
OtherTask(first) ==
    /\ CASE first = "shutdownConnection" -> ShutdownConnection
         [] first = "shutdown"           -> Shutdown
         [] first = "shutdownFreed"      -> failure' = "shutdownFreed"
                                            /\ UNCHANGED <<mPendingTasks, timerVars, connVars>>
         [] OTHER                        -> UpdateTimers(first)
    /\ pendingTasks' = Tail(pendingTasks)
    /\ UNCHANGED <<mState, mConnSocket, retries>>

RunTask ==
    /\ loopPc = "run" /\ pendingTasks # <<>>
    /\ LET first == Head(pendingTasks) IN
       CASE first = "connected"  -> TransState("Connected")
         [] first = "disconnect" -> TransState("Disconnect")
         [] first = "force"      -> TransState("ForceDisconnected")
         [] OTHER                -> OtherTask(first)
    /\ overlapped' = (overlapped \/ (Head(pendingTasks) = "force" /\ Attempting))
    /\ UNCHANGED <<loopPc, revents, expired, connects, disconnects>>
-----------------------------------------------------------------------------
Loop == Poll \/ HandleTimer \/ HandleEvent \/ SwapPendingTasks \/ RunTask \/ EndPendingTasks

Next == failure = "none" /\ (SocketChanges \/ connect \/ disconnect \/ Loop)

(* The loop's thread is scheduled, and a timer that is armed expires.      *)
Spec ==
    /\ Init /\ [][Next]_vars
    /\ WF_vars(failure = "none" /\ Loop)
    /\ SF_vars(failure = "none" /\ Poll /\ expired' > 0)
-----------------------------------------------------------------------------
(***************************************************************************)
(* Properties.                                                             *)
(***************************************************************************)
(* A client that was told to connect always has its next step before it: a *)
(* task, a timer, or a connection that can still report its close.  No     *)
(* order of connect, disconnect, timers and closes leaves it waiting for   *)
(* nothing (TcpClient.cpp:84-128,237-249).                                 *)
NeverStuck ==
    failure = "none" =>
    /\ mState = "Connecting" => Attempting
    /\ mState = "Disconnect" /\ connects > 0 => armed > 0 \/ Queued("addTimer")
    /\ mState = "Connected" =>
          connState # "null" /\ (connState = "DisConnected" => Queued("disconnect"))

(* What each way to fail takes.  A client that connects once and never     *)
(* disconnects ends only by giving up, or by the error of a connect that   *)
(* was announced before it was done (TcpClient.cpp:167-171,182-183); the   *)
(* task of doForceDisconnected (232) finds no connection only when a call  *)
(* met an attempt under way.                                               *)
FailureCauses ==
    /\ failure \in {"handleRead", "destroyConnection", "shutdownFreed"} => disconnects > 0
    /\ failure = "nullConnection" => disconnects > 0 /\ overlapped
    /\ failure = "badSocket" => overlapped

(* After a disconnect took effect only user code connects again: no timer  *)
(* or task of an earlier attempt does, unless a call met an attempt under  *)
(* way: its timer is not cancelled (TcpClient.cpp:119-126,241).            *)
DisconnectIsFinal ==
    [][mState = "ForceDisconnected" /\ mState' # mState /\ ~overlapped => connects' > connects]_vars

(* The client implements the diagram of TcpClient.h:15-37 with the two     *)
(* departures from it that ClientDiagram names: a disconnected client      *)
(* connects again when user code says so, or, if a call met an attempt     *)
(* under way, when the retry timer that nobody cancelled expires           *)
(* (TcpClient.cpp:100-110,241).                                            *)
Diagram == INSTANCE ClientDiagram WITH
              state <- mState, view <- view, calls <- connects, stray <- overlapped
ClientDiagramSpec == Diagram!Spec

(* A connection that was announced too early and whose connect then fails  *)
(* is connected again, although no one looks at its error                  *)
(* (TcpConnection.cpp:147-154): the close is noticed, reported, and a      *)
(* retry timer expires, if the client is left alone.                       *)
FailedConnectRetried ==
    connSocket = "failed" ~> (mState = "Connecting" \/ failure # "none" \/ disconnects > 0)
=============================================================================
